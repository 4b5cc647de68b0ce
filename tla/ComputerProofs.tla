--------------------------- MODULE ComputerProofs ---------------------------
(***************************************************************************)
(* Proofs about what a Computer owns on disk, for any values, Computers,   *)
(* requests, servers and numbers of editions: the inductive invariants of  *)
(* its inputs, its directory, its profiles and its SDK configuration, as   *)
(* MCStores composes them.  StoresProofs states what follows for the run.  *)
(***************************************************************************)
EXTENDS MCStores, FiniteSetTheorems, TLAPS

-----------------------------------------------------------------------------
(* InputStore. *)

InputUndoing == {"undoPlain", "undoSecret", "undoEntry"}

\* The value an operation began with, in the stores and in what it read.
InputHad == committed # {} => \E k \in Inputs!Kinds : inputOp.backend[k] \in committed

\* A store holds what it held before the operation, unless the operation has changed it.
IsAsBefore(k) == backend[k] = inputOp.backend[k]

InputAdoptInv ==
    /\ inputOp.step \in {"save", "cleanup", "undo", "ok", "failed"}
    /\ committed = {} /\ inputOp.next \in Inputs!Kinds
    /\ inputOp.value \in Values /\ backend[inputOp.next] = inputOp.value
    /\ inputOp.step = "save" => entry = "none"
    /\ inputOp.step \in {"cleanup", "ok"} => entry = inputOp.next

InputUpsertInv ==
    /\ inputOp.step \in {"write", "save", "drop", "ok", "reverted", "uncertain"} \cup InputUndoing
    /\ inputOp.next \in Inputs!Kinds /\ inputOp.value \in Values
    /\ inputOp.next = "Value" => inputOp.value \in exposed
    /\ committed # {} => inputOp.entry # "none"
    /\ InputHad
    /\ inputOp.step \in {"save", "drop", "ok"} => backend[inputOp.next] = inputOp.value
    /\ \A k \in Inputs!Kinds :
           /\ inputOp.step # "ok" =>
                  IsAsBefore(k) \/ (k = inputOp.next /\ backend[k] = inputOp.value)
           /\ inputOp.step \in {"write", "undoEntry", "reverted"} => IsAsBefore(k)
    /\ inputOp.step = "undoSecret" => IsAsBefore("Value")
    /\ inputOp.step \in {"drop", "ok"} => entry = inputOp.next
    /\ inputOp.step = "drop" => inputOp.entry = Inputs!Opposite(inputOp.next)
    /\ inputOp.step = "reverted" => entry = inputOp.entry
    /\ entry \in {inputOp.entry, inputOp.next}

InputDeleteInv ==
    /\ inputOp.step \in {"erase", "forget", "ok", "reverted", "uncertain"} \cup InputUndoing
    /\ inputOp.entry \in Inputs!Kinds /\ inputOp.value = NoValue
    /\ InputHad
    /\ \A k \in Inputs!Kinds :
           /\ IsAsBefore(k) \/ (k = inputOp.entry /\ backend[k] = NoValue)
           /\ inputOp.step \in {"erase", "undoEntry", "reverted"} => IsAsBefore(k)
    /\ inputOp.step = "undoSecret" => IsAsBefore("Value")
    /\ inputOp.step # "ok" => entry = inputOp.entry

InputInv ==
    /\ Inputs!InputTypeOK
    /\ inputOp.name = "none" =>
           inputOp = Inputs!NoInputOp
               /\ (committed # {} =>
                      entry # "none" /\ \E k \in Inputs!Kinds : backend[k] \in committed)
    /\ inputOp.name = "adopt" => InputAdoptInv
    /\ inputOp.name = "upsert" => InputUpsertInv
    /\ inputOp.name = "delete" => InputDeleteInv
    /\ backend["Value"] \in exposed \cup {NoValue}
    /\ inputOp.backend["Value"] \in exposed \cup {NoValue}

InputOpTypes ==
    [name : {"none", "adopt", "upsert", "delete"},
     step : {"free", "save", "cleanup", "undo", "write", "drop", "erase",
             "forget", "undoPlain", "undoSecret", "undoEntry", "ok",
             "failed", "reverted", "uncertain"},
     value : Values \cup {NoValue}, next : Inputs!Kinds \cup {"none"},
     entry : Inputs!Kinds \cup {"none"}, backend : Inputs!Contents]

LEMMA InputStarts ==
    ASSUME Inputs!InputInit
    PROVE  InputInv
<1> USE DEF Inputs!InputInit, Inputs!Kinds, Inputs!Contents, Inputs!NoInputOp
<1>1. inputOp = Inputs!NoInputOp
  OBVIOUS
<1>2. inputOp.name = "none" /\ inputOp.backend["Value"] = NoValue
  OBVIOUS
<1>3. Inputs!InputTypeOK
  <2>1. accessPaused \in BOOLEAN /\ gone \in BOOLEAN /\ referenced \in BOOLEAN
    BY Zenon
  <2>2. inputOp \in InputOpTypes
    BY <1>1 DEF InputOpTypes
  <2>3. legacy \in [provenance : {"Missing", "V1", "V2"}, kinds : SUBSET Inputs!Kinds]
    OBVIOUS
  <2> QED
    BY <2>1, <2>2, <2>3 DEF Inputs!InputTypeOK, InputOpTypes
<1> QED
  BY <1>1, <1>2, <1>3 DEF InputInv

LEMMA InputStepType ==
    ASSUME InputInv, NEW s \in {"save", "cleanup", "undo", "write", "drop", "erase",
             "forget", "undoPlain", "undoSecret", "undoEntry", "ok",
             "failed", "reverted", "uncertain"}, Inputs!InputGoTo(s)
    PROVE  /\ inputOp' \in InputOpTypes /\ inputOp'.step = s
           /\ inputOp'.name = inputOp.name /\ inputOp'.value = inputOp.value
           /\ inputOp'.next = inputOp.next /\ inputOp'.entry = inputOp.entry
           /\ inputOp'.backend = inputOp.backend
BY DEF InputInv, Inputs!InputTypeOK, InputOpTypes, Inputs!InputGoTo

\* What a write of one store does.
LEMMA InputStoreEffect ==
    ASSUME InputInv, NEW k \in Inputs!Kinds, NEW v \in Values \cup {NoValue},
           NEW n \in {"save", "drop", "forget", "undoSecret", "undoEntry", "ok"},
           NEW u \in {"undo", "undoPlain", "uncertain"}, Inputs!Store(k, v, n, u)
    PROVE  /\ backend' \in Inputs!Contents /\ accessPaused' \in BOOLEAN
           /\ inputOp' \in InputOpTypes
           /\ inputOp'.name = inputOp.name /\ inputOp'.value = inputOp.value
           /\ inputOp'.next = inputOp.next /\ inputOp'.entry = inputOp.entry
           /\ inputOp'.backend = inputOp.backend
           /\ \/ /\ inputOp'.step = n /\ backend'[k] = v
                 /\ \A i \in Inputs!Kinds \ {k} : backend'[i] = backend[i]
              \/ inputOp'.step = u /\ backend' = backend
<1>0. backend \in Inputs!Contents /\ accessPaused \in BOOLEAN
  BY DEF InputInv, Inputs!InputTypeOK
<1>1. CASE Inputs!AccessFails(k) /\ Inputs!InputGoTo(u)
  <2>1. accessPaused' \in BOOLEAN
    BY <1>0, <1>1, Zenon DEF Inputs!AccessFails
  <2> QED
    BY <1>0, <1>1, <2>1, InputStepType DEF Inputs!AccessFails
<1>2. CASE /\ backend' = [backend EXCEPT ![k] = v]
           /\ Inputs!InputGoTo(n) /\ UNCHANGED accessPaused
  <2>1. accessPaused' \in BOOLEAN
    BY <1>0, <1>2, Zenon
  <2>2. backend' \in Inputs!Contents /\ backend'[k] = v
        /\ \A i \in Inputs!Kinds \ {k} : backend'[i] = backend[i]
    BY <1>0, <1>2 DEF Inputs!Contents
  <2> QED
    BY <1>2, <2>1, <2>2, InputStepType
<1> QED
  BY <1>1, <1>2 DEF Inputs!Store


\* An operation goes on: of what the invariant says, only its own part and the types are
\* to be shown again.
LEMMA InputGoesOn ==
    ASSUME InputInv, inputOp' \in InputOpTypes, inputOp'.name = inputOp.name,
           inputOp.name # "none", inputOp'.backend = inputOp.backend,
           entry' \in Inputs!Kinds \cup {"none"}, backend' \in Inputs!Contents,
           accessPaused' \in BOOLEAN,
           UNCHANGED <<legacy, definition, referenced, committed, exposed, gone>>,
           backend'["Value"] \in exposed \cup {NoValue},
           inputOp.name = "adopt" => InputAdoptInv',
           inputOp.name = "upsert" => InputUpsertInv',
           inputOp.name = "delete" => InputDeleteInv'
    PROVE  InputInv'
<1>1. Inputs!InputTypeOK'
  <2>1. referenced' \in BOOLEAN /\ gone' \in BOOLEAN
    BY Zenon DEF InputInv, Inputs!InputTypeOK
  <2> QED
    BY <2>1 DEF InputInv, Inputs!InputTypeOK, InputOpTypes
<1>2. inputOp.backend["Value"] \in exposed \cup {NoValue}
  BY DEF InputInv
<1> QED
  BY <1>1, <1>2 DEF InputInv

LEMMA AdoptSaveKeeps ==
    ASSUME InputInv, Inputs!AdoptSave
    PROVE  InputInv'
<1> USE DEF Inputs!AdoptSave, Inputs!At, Inputs!inputConfig, Inputs!inputGhosts,
            Inputs!SaveEntry
<1>1. PICK s \in {"ok", "cleanup", "failed"} :
          /\ Inputs!InputGoTo(s)
          /\ entry' = inputOp.next \/ (s = "failed" /\ entry' = entry)
  OBVIOUS
<1>2. /\ InputAdoptInv /\ entry \in Inputs!Kinds \cup {"none"} /\ backend \in Inputs!Contents
      /\ accessPaused \in BOOLEAN /\ backend["Value"] \in exposed \cup {NoValue}
  BY DEF InputInv, Inputs!InputTypeOK
<1>3. entry' \in Inputs!Kinds \cup {"none"} /\ backend' \in Inputs!Contents
  BY <1>1, <1>2 DEF InputAdoptInv
<1>4. accessPaused' \in BOOLEAN
  BY <1>2, Zenon
<1>5. InputAdoptInv'
  BY <1>1, <1>2, InputStepType DEF InputAdoptInv
<1> QED
  BY <1>1, <1>2, <1>3, <1>4, <1>5, InputStepType, InputGoesOn

LEMMA AdoptCleanupKeeps ==
    ASSUME InputInv, Inputs!AdoptCleanup
    PROVE  InputInv'
<1> USE DEF Inputs!AdoptCleanup, Inputs!At, Inputs!inputConfig, Inputs!inputGhosts
<1>2. /\ InputAdoptInv /\ entry \in Inputs!Kinds \cup {"none"} /\ backend \in Inputs!Contents
      /\ accessPaused \in BOOLEAN /\ backend["Value"] \in exposed \cup {NoValue}
  BY DEF InputInv, Inputs!InputTypeOK
<1>3. /\ inputOp.next \in Inputs!Kinds /\ Inputs!Opposite(inputOp.next) \in Inputs!Kinds
      /\ Inputs!Opposite(inputOp.next) # inputOp.next
  BY <1>2 DEF InputAdoptInv, Inputs!Opposite, Inputs!Kinds
<1>4. Inputs!Store(Inputs!Opposite(inputOp.next), NoValue, "ok", "undo")
  OBVIOUS
<1>5. /\ backend' \in Inputs!Contents /\ accessPaused' \in BOOLEAN
      /\ inputOp' \in InputOpTypes
      /\ inputOp'.name = inputOp.name /\ inputOp'.value = inputOp.value
      /\ inputOp'.next = inputOp.next /\ inputOp'.entry = inputOp.entry
      /\ inputOp'.backend = inputOp.backend
      /\ \/ /\ inputOp'.step = "ok" /\ backend'[Inputs!Opposite(inputOp.next)] = NoValue
            /\ \A i \in Inputs!Kinds \ {Inputs!Opposite(inputOp.next)} : backend'[i] = backend[i]
         \/ inputOp'.step = "undo" /\ backend' = backend
  BY <1>3, <1>4, InputStoreEffect
<1>6. backend'[inputOp.next] = backend[inputOp.next]
  BY <1>3, <1>5
<1>7. backend'["Value"] \in exposed \cup {NoValue}
  BY <1>2, <1>3, <1>5 DEF Inputs!Kinds
<1> QED
  <2>1. InputAdoptInv'
    <3>1. inputOp'.step = "ok" => entry' = inputOp'.next
      BY <1>2, <1>5 DEF InputAdoptInv
    <3> QED
      BY <1>2, <1>5, <1>6, <3>1 DEF InputAdoptInv
  <2> QED
    BY <1>2, <1>5, <1>7, <2>1, InputGoesOn


LEMMA AdoptUndoKeeps ==
    ASSUME InputInv, Inputs!AdoptUndo
    PROVE  InputInv'
<1> USE DEF Inputs!AdoptUndo, Inputs!At, Inputs!inputConfig, Inputs!inputGhosts,
            Inputs!SaveEntry
<1>1. Inputs!InputGoTo("failed") /\ (entry' = "none" \/ entry' = entry)
  OBVIOUS
<1>2. /\ InputAdoptInv /\ entry \in Inputs!Kinds \cup {"none"} /\ backend \in Inputs!Contents
      /\ accessPaused \in BOOLEAN /\ backend["Value"] \in exposed \cup {NoValue}
  BY DEF InputInv, Inputs!InputTypeOK
<1>3. entry' \in Inputs!Kinds \cup {"none"} /\ backend' \in Inputs!Contents
  BY <1>1, <1>2
<1>4. accessPaused' \in BOOLEAN
  BY <1>2, Zenon
<1>5. InputAdoptInv'
  BY <1>1, <1>2, InputStepType DEF InputAdoptInv
<1> QED
  BY <1>1, <1>2, <1>3, <1>4, <1>5, InputStepType, InputGoesOn

LEMMA InputAdoptKeeps ==
    ASSUME InputInv, NEW kind \in Inputs!Kinds \cup {"none"}, Inputs!Adopt(kind),
           kind # "none" => backend[kind] # NoValue
    PROVE  InputInv'
<1> USE DEF Inputs!Adopt, Inputs!inputStores, Inputs!inputConfig, Inputs!inputGhosts,
            Inputs!InputIdle
<1>1. /\ entry = "none" /\ kind \in Inputs!Kinds /\ inputOp = Inputs!NoInputOp
      /\ backend \in Inputs!Contents /\ accessPaused \in BOOLEAN
      /\ legacy \in [provenance : {"Missing", "V1", "V2"}, kinds : SUBSET Inputs!Kinds]
      /\ backend["Value"] \in exposed \cup {NoValue} /\ referenced \in BOOLEAN
      /\ gone \in BOOLEAN /\ committed \subseteq Values /\ exposed \subseteq Values
      /\ definition \in Inputs!Kinds \cup {"none"}
  BY DEF InputInv, Inputs!InputTypeOK
<1>2. inputOp.name = "none"
  BY <1>1 DEF Inputs!NoInputOp
<1>3. committed = {}
  BY <1>1, <1>2 DEF InputInv
<1>4. backend[kind] \in Values
  BY <1>1 DEF Inputs!Contents
<1>5. /\ inputOp' \in InputOpTypes /\ inputOp'.name = "adopt" /\ inputOp'.step = "save"
      /\ inputOp'.next = kind /\ inputOp'.value = backend[kind]
      /\ inputOp'.backend["Value"] = NoValue
  BY <1>1, <1>4 DEF Inputs!NoInputOp, InputOpTypes, Inputs!Kinds, Inputs!Contents
<1>6. InputAdoptInv'
  BY <1>1, <1>3, <1>4, <1>5 DEF InputAdoptInv
<1>7. referenced' \in BOOLEAN /\ accessPaused' \in BOOLEAN /\ gone' \in BOOLEAN
  BY <1>1, Zenon
<1>8. Inputs!InputTypeOK'
  BY <1>1, <1>5, <1>7 DEF Inputs!InputTypeOK, InputOpTypes
<1> QED
  BY <1>1, <1>5, <1>6, <1>8 DEF InputInv

LEMMA MigrateEntryKeeps ==
    ASSUME InputInv, Inputs!MigrateEntry
    PROVE  InputInv'
<1>1. /\ legacy \in [provenance : {"Missing", "V1", "V2"}, kinds : SUBSET Inputs!Kinds]
      /\ definition \in Inputs!Kinds \cup {"none"}
  BY DEF InputInv, Inputs!InputTypeOK
<1>2. /\ Inputs!Migrated \in Inputs!Kinds \cup {"none"}
      /\ Inputs!Migrated # "none" => backend[Inputs!Migrated] # NoValue
  BY <1>1 DEF Inputs!Migrated, Inputs!Chosen, Inputs!Exists, Inputs!Kinds
<1> QED
  BY <1>2, InputAdoptKeeps DEF Inputs!MigrateEntry

LEMMA ResolveEntryKeeps ==
    ASSUME InputInv, Inputs!ResolveEntry
    PROVE  InputInv'
<1>1. /\ legacy \in [provenance : {"Missing", "V1", "V2"}, kinds : SUBSET Inputs!Kinds]
      /\ definition \in Inputs!Kinds \cup {"none"}
  BY DEF InputInv, Inputs!InputTypeOK
<1>2. ASSUME NEW k \in Inputs!Kinds
      PROVE  /\ Inputs!Resolved(k) \in Inputs!Kinds \cup {"none"}
             /\ Inputs!Resolved(k) # "none" => backend[Inputs!Resolved(k)] # NoValue
  BY <1>1 DEF Inputs!Resolved, Inputs!Chosen, Inputs!Exists, Inputs!Kinds
<1> QED
  BY <1>2, InputAdoptKeeps DEF Inputs!ResolveEntry


LEMMA UpsertKeeps ==
    ASSUME InputInv, NEW value \in Values \cup {NoValue}, NEW kind \in Inputs!Kinds,
           NEW plain \in BOOLEAN, Inputs!Upsert(value, kind, plain),
           kind = "Value" => plain \/ (value = NoValue /\ entry = "Value")
    PROVE  InputInv'
<1> USE DEF Inputs!Upsert, Inputs!inputStores, Inputs!inputConfig, Inputs!InputIdle
<1>1. /\ inputOp = Inputs!NoInputOp /\ entry \in Inputs!Kinds \cup {"none"}
      /\ backend \in Inputs!Contents /\ accessPaused \in BOOLEAN
      /\ legacy \in [provenance : {"Missing", "V1", "V2"}, kinds : SUBSET Inputs!Kinds]
      /\ backend["Value"] \in exposed \cup {NoValue} /\ referenced \in BOOLEAN
      /\ committed \subseteq Values /\ exposed \subseteq Values
      /\ definition \in Inputs!Kinds \cup {"none"}
  BY DEF InputInv, Inputs!InputTypeOK
<1>2. inputOp.name = "none"
  BY <1>1 DEF Inputs!NoInputOp
<1>3. committed # {} => entry # "none" /\ \E k \in Inputs!Kinds : backend[k] \in committed
  BY <1>1, <1>2 DEF InputInv
<1> DEFINE next == IF value = NoValue THEN backend[entry] ELSE value
<1>4. next \in Values
  BY <1>1 DEF Inputs!Contents, Inputs!Exists
<1>5. /\ inputOp' = [name |-> "upsert", step |-> "write", value |-> next, next |-> kind,
                     entry |-> entry, backend |-> backend]
      /\ exposed' = exposed \cup (IF plain THEN {next} ELSE {})
  OBVIOUS
<1>6. kind = "Value" => next \in exposed'
  <2>1. NoValue \notin Values
    BY StoresAssumption DEF Inputs!InputStoreAssumption
  <2>2. CASE plain
    BY <1>5, <2>2, Zenon
  <2>3. CASE value = NoValue /\ entry = "Value"
    BY <1>1, <1>4, <2>1, <2>3
  <2> QED
    BY <2>2, <2>3
<1> HIDE DEF next
<1>7. /\ inputOp' \in InputOpTypes /\ inputOp'.name = "upsert" /\ inputOp'.step = "write"
      /\ inputOp'.next = kind /\ inputOp'.value = next /\ inputOp'.entry = entry
      /\ inputOp'.backend = backend
  BY <1>1, <1>4, <1>5 DEF InputOpTypes
<1>8. UNCHANGED <<entry, backend, accessPaused, definition, referenced, legacy, committed>>
      /\ gone' = FALSE
  OBVIOUS
<1>9. InputUpsertInv'
  BY <1>1, <1>3, <1>4, <1>6, <1>7, <1>8 DEF InputUpsertInv, InputHad, IsAsBefore
<1>10. referenced' \in BOOLEAN /\ accessPaused' \in BOOLEAN /\ gone' \in BOOLEAN
  BY <1>1, <1>8, Zenon
<1>11. exposed' \subseteq Values /\ exposed \subseteq exposed'
  BY <1>1, <1>4, <1>5
<1>12. Inputs!InputTypeOK'
  BY <1>1, <1>7, <1>8, <1>10, <1>11 DEF Inputs!InputTypeOK, InputOpTypes
<1> QED
  BY <1>1, <1>7, <1>8, <1>9, <1>11, <1>12 DEF InputInv

LEMMA UpsertInputEntryKeeps ==
    ASSUME InputInv, NEW value \in Values \cup {NoValue}, NEW kind \in Inputs!Kinds,
           Inputs!UpsertInputEntry(value, kind)
    PROVE  InputInv'
<1>1. (kind = "Value") \in BOOLEAN
  OBVIOUS
<1> QED
  BY <1>1, UpsertKeeps DEF Inputs!UpsertInputEntry

LEMMA SetInputValueKeeps ==
    ASSUME InputInv, NEW value \in Values, Inputs!SetInputValue(value)
    PROVE  InputInv'
<1> DEFINE plain == Inputs!KeptKind = "Value" /\ entry # "Secret"
<1>1. entry \in Inputs!Kinds \cup {"none"} /\ definition \in Inputs!Kinds \cup {"none"}
  BY DEF InputInv, Inputs!InputTypeOK
<1>2. Inputs!KeptKind \in Inputs!Kinds /\ plain \in BOOLEAN
  BY <1>1 DEF Inputs!SetInputValue, Inputs!KeptKind
<1>3. Inputs!KeptKind = "Value" => plain
  BY <1>1 DEF Inputs!KeptKind
<1> QED
  BY <1>2, <1>3, UpsertKeeps DEF Inputs!SetInputValue

LEMMA WriteValueKeeps ==
    ASSUME InputInv, Inputs!WriteValue
    PROVE  InputInv'
<1> USE DEF Inputs!WriteValue, Inputs!At, Inputs!inputConfig, Inputs!inputGhosts
<1>1. /\ InputUpsertInv /\ entry \in Inputs!Kinds \cup {"none"}
      /\ backend["Value"] \in exposed \cup {NoValue} /\ inputOp \in InputOpTypes
  BY DEF InputInv, Inputs!InputTypeOK, InputOpTypes
<1>2. inputOp.next \in Inputs!Kinds /\ inputOp.value \in Values
  BY <1>1 DEF InputUpsertInv
<1>3. /\ backend' \in Inputs!Contents /\ accessPaused' \in BOOLEAN
      /\ inputOp' \in InputOpTypes
      /\ inputOp'.name = inputOp.name /\ inputOp'.value = inputOp.value
      /\ inputOp'.next = inputOp.next /\ inputOp'.entry = inputOp.entry
      /\ inputOp'.backend = inputOp.backend
      /\ \/ /\ inputOp'.step = "save" /\ backend'[inputOp.next] = inputOp.value
            /\ \A i \in Inputs!Kinds \ {inputOp.next} : backend'[i] = backend[i]
         \/ inputOp'.step = "undoPlain" /\ backend' = backend
  BY <1>2, InputStoreEffect
<1>4. InputUpsertInv'
  BY <1>1, <1>2, <1>3 DEF InputUpsertInv, InputHad, IsAsBefore, InputUndoing
<1>5. backend'["Value"] \in exposed \cup {NoValue}
  BY <1>1, <1>2, <1>3 DEF InputUpsertInv, Inputs!Kinds
<1> QED
  BY <1>1, <1>3, <1>4, <1>5, InputGoesOn

LEMMA SaveMetadataKeeps ==
    ASSUME InputInv, Inputs!SaveMetadata
    PROVE  InputInv'
<1> USE DEF Inputs!SaveMetadata, Inputs!At, Inputs!inputConfig, Inputs!inputGhosts,
            Inputs!SaveEntry
<1>1. /\ InputUpsertInv /\ entry \in Inputs!Kinds \cup {"none"}
      /\ backend["Value"] \in exposed \cup {NoValue} /\ inputOp \in InputOpTypes
      /\ backend \in Inputs!Contents /\ accessPaused \in BOOLEAN
  BY DEF InputInv, Inputs!InputTypeOK, InputOpTypes
<1>2. PICK s \in {"drop", "ok", "undoPlain"} :
          /\ Inputs!InputGoTo(s)
          /\ s = "drop" => inputOp.entry = Inputs!Opposite(inputOp.next)
          /\ s # "undoPlain" => entry' = inputOp.next
          /\ s = "undoPlain" => entry' = entry
  OBVIOUS
<1>3. /\ inputOp' \in InputOpTypes /\ inputOp'.step = s
      /\ inputOp'.name = inputOp.name /\ inputOp'.value = inputOp.value
      /\ inputOp'.next = inputOp.next /\ inputOp'.entry = inputOp.entry
      /\ inputOp'.backend = inputOp.backend
  BY <1>2, InputStepType
<1>4. InputUpsertInv'
  BY <1>1, <1>2, <1>3 DEF InputUpsertInv, InputHad, IsAsBefore, InputUndoing
<1>5. entry' \in Inputs!Kinds \cup {"none"}
  BY <1>1, <1>2 DEF InputUpsertInv
<1>6. accessPaused' \in BOOLEAN
  BY <1>1, Zenon
<1> QED
  BY <1>1, <1>3, <1>4, <1>5, <1>6, InputGoesOn

LEMMA DropOldCopyKeeps ==
    ASSUME InputInv, Inputs!DropOldCopy
    PROVE  InputInv'
<1> USE DEF Inputs!DropOldCopy, Inputs!At, Inputs!inputConfig, Inputs!inputGhosts
<1>1. /\ InputUpsertInv /\ entry \in Inputs!Kinds \cup {"none"}
      /\ backend["Value"] \in exposed \cup {NoValue} /\ inputOp \in InputOpTypes
  BY DEF InputInv, Inputs!InputTypeOK, InputOpTypes
<1>2. /\ inputOp.next \in Inputs!Kinds /\ inputOp.value \in Values
      /\ inputOp.entry \in Inputs!Kinds /\ inputOp.entry # inputOp.next
  BY <1>1 DEF InputUpsertInv, Inputs!Opposite, Inputs!Kinds
<1>3. /\ backend' \in Inputs!Contents /\ accessPaused' \in BOOLEAN
      /\ inputOp' \in InputOpTypes
      /\ inputOp'.name = inputOp.name /\ inputOp'.value = inputOp.value
      /\ inputOp'.next = inputOp.next /\ inputOp'.entry = inputOp.entry
      /\ inputOp'.backend = inputOp.backend
      /\ \/ /\ inputOp'.step = "ok" /\ backend'[inputOp.entry] = NoValue
            /\ \A i \in Inputs!Kinds \ {inputOp.entry} : backend'[i] = backend[i]
         \/ inputOp'.step = "undoPlain" /\ backend' = backend
  BY <1>2, InputStoreEffect
<1>4. InputUpsertInv'
  BY <1>1, <1>2, <1>3 DEF InputUpsertInv, InputHad, IsAsBefore, InputUndoing
<1>5. backend'["Value"] \in exposed \cup {NoValue}
  BY <1>1, <1>2, <1>3 DEF InputUpsertInv, Inputs!Kinds
<1> QED
  BY <1>1, <1>3, <1>4, <1>5, InputGoesOn


LEMMA DeleteEntryKeeps ==
    ASSUME InputInv, Inputs!DeleteEntry
    PROVE  InputInv'
<1> USE DEF Inputs!DeleteEntry, Inputs!inputStores, Inputs!inputConfig, Inputs!inputGhosts,
            Inputs!InputIdle
<1>1. /\ inputOp = Inputs!NoInputOp /\ entry \in Inputs!Kinds
      /\ backend \in Inputs!Contents /\ accessPaused \in BOOLEAN
      /\ legacy \in [provenance : {"Missing", "V1", "V2"}, kinds : SUBSET Inputs!Kinds]
      /\ backend["Value"] \in exposed \cup {NoValue} /\ referenced \in BOOLEAN
      /\ gone \in BOOLEAN /\ committed \subseteq Values /\ exposed \subseteq Values
      /\ definition \in Inputs!Kinds \cup {"none"}
  BY DEF InputInv, Inputs!InputTypeOK
<1>2. inputOp.name = "none"
  BY <1>1 DEF Inputs!NoInputOp
<1>3. committed # {} => \E k \in Inputs!Kinds : backend[k] \in committed
  BY <1>1, <1>2 DEF InputInv
<1>4. /\ inputOp' \in InputOpTypes /\ inputOp'.name = "delete" /\ inputOp'.step = "erase"
      /\ inputOp'.next = entry /\ inputOp'.value = NoValue /\ inputOp'.entry = entry
      /\ inputOp'.backend = backend
  BY <1>1 DEF Inputs!NoInputOp, InputOpTypes, Inputs!Kinds
<1>5. UNCHANGED <<entry, backend, accessPaused, definition, referenced, legacy,
                  committed, exposed, gone>>
  OBVIOUS
<1>6. InputDeleteInv'
  BY <1>1, <1>3, <1>4, <1>5 DEF InputDeleteInv, InputHad, IsAsBefore
<1>7. referenced' \in BOOLEAN /\ accessPaused' \in BOOLEAN /\ gone' \in BOOLEAN
  BY <1>1, <1>5, Zenon
<1>8. Inputs!InputTypeOK'
  BY <1>1, <1>4, <1>5, <1>7 DEF Inputs!InputTypeOK, InputOpTypes
<1> QED
  BY <1>1, <1>4, <1>5, <1>6, <1>8 DEF InputInv

LEMMA EraseValueKeeps ==
    ASSUME InputInv, Inputs!EraseValue
    PROVE  InputInv'
<1> USE DEF Inputs!EraseValue, Inputs!At, Inputs!inputConfig, Inputs!inputGhosts
<1>1. /\ InputDeleteInv /\ entry \in Inputs!Kinds \cup {"none"}
      /\ backend["Value"] \in exposed \cup {NoValue} /\ inputOp \in InputOpTypes
  BY DEF InputInv, Inputs!InputTypeOK, InputOpTypes
<1>2. inputOp.entry \in Inputs!Kinds
  BY <1>1 DEF InputDeleteInv
<1>3. /\ backend' \in Inputs!Contents /\ accessPaused' \in BOOLEAN
      /\ inputOp' \in InputOpTypes
      /\ inputOp'.name = inputOp.name /\ inputOp'.value = inputOp.value
      /\ inputOp'.next = inputOp.next /\ inputOp'.entry = inputOp.entry
      /\ inputOp'.backend = inputOp.backend
      /\ \/ /\ inputOp'.step = "forget" /\ backend'[inputOp.entry] = NoValue
            /\ \A i \in Inputs!Kinds \ {inputOp.entry} : backend'[i] = backend[i]
         \/ inputOp'.step = "undoPlain" /\ backend' = backend
  BY <1>2, InputStoreEffect
<1>4. InputDeleteInv'
  BY <1>1, <1>2, <1>3 DEF InputDeleteInv, InputHad, IsAsBefore, InputUndoing
<1>5. backend'["Value"] \in exposed \cup {NoValue}
  BY <1>1, <1>2, <1>3 DEF Inputs!Kinds
<1> QED
  BY <1>1, <1>3, <1>4, <1>5, InputGoesOn

LEMMA ForgetEntryKeeps ==
    ASSUME InputInv, Inputs!ForgetEntry
    PROVE  InputInv'
<1> USE DEF Inputs!ForgetEntry, Inputs!At, Inputs!inputConfig, Inputs!inputGhosts,
            Inputs!SaveEntry
<1>1. /\ InputDeleteInv /\ entry \in Inputs!Kinds \cup {"none"}
      /\ backend["Value"] \in exposed \cup {NoValue} /\ inputOp \in InputOpTypes
      /\ backend \in Inputs!Contents /\ accessPaused \in BOOLEAN
  BY DEF InputInv, Inputs!InputTypeOK, InputOpTypes
<1>2. PICK s \in {"ok", "undoPlain"} :
          /\ Inputs!InputGoTo(s)
          /\ s = "ok" => entry' = "none"
          /\ s = "undoPlain" => entry' = entry
  OBVIOUS
<1>3. /\ inputOp' \in InputOpTypes /\ inputOp'.step = s
      /\ inputOp'.name = inputOp.name /\ inputOp'.value = inputOp.value
      /\ inputOp'.next = inputOp.next /\ inputOp'.entry = inputOp.entry
      /\ inputOp'.backend = inputOp.backend
  BY <1>2, InputStepType
<1>4. InputDeleteInv'
  BY <1>1, <1>2, <1>3 DEF InputDeleteInv, InputHad, IsAsBefore, InputUndoing
<1>5. entry' \in Inputs!Kinds \cup {"none"}
  BY <1>1, <1>2
<1>6. accessPaused' \in BOOLEAN
  BY <1>1, Zenon
<1> QED
  BY <1>1, <1>3, <1>4, <1>5, <1>6, InputGoesOn

\* What putting one store back does, and that the invariant of the operation stands.
LEMMA UndoKeeps ==
    ASSUME InputInv, NEW k \in Inputs!Kinds, NEW s, NEW n,
           \/ k = "Value" /\ s = "undoPlain" /\ n = "undoSecret"
           \/ k = "Secret" /\ s = "undoSecret" /\ n = "undoEntry",
           Inputs!Undo(k, s, n)
    PROVE  InputInv'
<1> USE DEF Inputs!Undo, Inputs!inputConfig, Inputs!inputGhosts
<1>1. /\ entry \in Inputs!Kinds \cup {"none"} /\ backend \in Inputs!Contents
      /\ backend["Value"] \in exposed \cup {NoValue} /\ inputOp \in InputOpTypes
      /\ accessPaused \in BOOLEAN /\ inputOp.backend["Value"] \in exposed \cup {NoValue}
  BY DEF InputInv, Inputs!InputTypeOK, InputOpTypes
<1>2. /\ inputOp.name \in {"upsert", "delete"}
      /\ inputOp.name = "upsert" => InputUpsertInv
      /\ inputOp.name = "delete" => InputDeleteInv
  <2>1. inputOp.name # "none"
    BY <1>1 DEF InputInv, Inputs!NoInputOp
  <2>2. inputOp.name # "adopt"
    BY DEF InputInv, InputAdoptInv
  <2> QED
    BY <1>1, <2>1, <2>2 DEF InputInv, InputOpTypes
<1>3. inputOp.backend[k] \in Values \cup {NoValue}
  BY <1>1 DEF InputOpTypes, Inputs!Contents
<1>4. /\ backend' \in Inputs!Contents /\ accessPaused' \in BOOLEAN
      /\ inputOp' \in InputOpTypes
      /\ inputOp'.name = inputOp.name /\ inputOp'.value = inputOp.value
      /\ inputOp'.next = inputOp.next /\ inputOp'.entry = inputOp.entry
      /\ inputOp'.backend = inputOp.backend
      /\ \/ /\ inputOp'.step = n /\ backend'[k] = inputOp.backend[k]
            /\ \A i \in Inputs!Kinds \ {k} : backend'[i] = backend[i]
         \/ inputOp'.step = "uncertain" /\ backend' = backend
  <2>1. CASE Inputs!Touched(k)
    BY <1>3, <2>1, InputStoreEffect
  <2>2. CASE ~Inputs!Touched(k)
    <3>1. Inputs!InputGoTo(n) /\ UNCHANGED <<backend, accessPaused>>
      BY <2>2
    <3>2. backend[k] = inputOp.backend[k]
      BY <1>2, <2>2 DEF Inputs!Touched, InputUpsertInv, InputDeleteInv, IsAsBefore
    <3>3. accessPaused' \in BOOLEAN
      BY <1>1, <3>1, Zenon
    <3> QED
      BY <1>1, <3>1, <3>2, <3>3, InputStepType
  <2> QED
    BY <2>1, <2>2
<1>5. backend'["Value"] \in exposed \cup {NoValue}
  BY <1>1, <1>4 DEF Inputs!Kinds
<1>6. inputOp.name = "upsert" => InputUpsertInv'
  BY <1>2, <1>4 DEF InputUpsertInv, InputHad, IsAsBefore, InputUndoing, Inputs!Kinds
<1>7. inputOp.name = "delete" => InputDeleteInv'
  BY <1>2, <1>4 DEF InputDeleteInv, InputHad, IsAsBefore, InputUndoing, Inputs!Kinds
<1> QED
  BY <1>1, <1>2, <1>4, <1>5, <1>6, <1>7, InputGoesOn

LEMMA UndoEntryKeeps ==
    ASSUME InputInv, Inputs!UndoEntry
    PROVE  InputInv'
<1> USE DEF Inputs!UndoEntry, Inputs!SaveEntry, Inputs!inputConfig, Inputs!inputGhosts
<1>1. /\ entry \in Inputs!Kinds \cup {"none"} /\ backend \in Inputs!Contents
      /\ backend["Value"] \in exposed \cup {NoValue} /\ inputOp \in InputOpTypes
      /\ accessPaused \in BOOLEAN
  BY DEF InputInv, Inputs!InputTypeOK, InputOpTypes
<1>2. /\ inputOp.name \in {"upsert", "delete"}
      /\ inputOp.name = "upsert" => InputUpsertInv
      /\ inputOp.name = "delete" => InputDeleteInv
  <2>1. inputOp.name # "none"
    BY <1>1 DEF InputInv, Inputs!NoInputOp
  <2>2. inputOp.name # "adopt"
    BY DEF InputInv, InputAdoptInv
  <2> QED
    BY <1>1, <2>1, <2>2 DEF InputInv, InputOpTypes
<1>3. PICK s \in {"reverted", "uncertain"} :
          /\ Inputs!InputGoTo(s)
          /\ s = "reverted" => entry' = inputOp.entry
          /\ s = "uncertain" => entry' = entry
  OBVIOUS
<1>4. /\ inputOp' \in InputOpTypes /\ inputOp'.step = s
      /\ inputOp'.name = inputOp.name /\ inputOp'.value = inputOp.value
      /\ inputOp'.next = inputOp.next /\ inputOp'.entry = inputOp.entry
      /\ inputOp'.backend = inputOp.backend
  BY <1>3, InputStepType
<1>5. inputOp.name = "upsert" => InputUpsertInv'
  BY <1>2, <1>3, <1>4 DEF InputUpsertInv, InputHad, IsAsBefore, InputUndoing
<1>6. inputOp.name = "delete" => InputDeleteInv'
  BY <1>2, <1>3, <1>4 DEF InputDeleteInv, InputHad, IsAsBefore, InputUndoing
<1>7. entry' \in Inputs!Kinds \cup {"none"}
  BY <1>1, <1>3 DEF InputOpTypes
<1>8. accessPaused' \in BOOLEAN
  BY <1>1, Zenon
<1> QED
  BY <1>1, <1>2, <1>4, <1>5, <1>6, <1>7, <1>8, InputGoesOn

\* The operation ends: what is expected of the entry from then on is in a store.
LEMMA InputEnds ==
    ASSUME InputInv, inputOp' = Inputs!NoInputOp, accessPaused' \in BOOLEAN,
           gone' \in BOOLEAN,
           UNCHANGED <<entry, backend, legacy, definition, referenced>>,
           exposed' \subseteq Values, exposed \subseteq exposed',
           committed' \subseteq Values,
           committed' # {} => /\ entry # "none"
                              /\ \E k \in Inputs!Kinds : backend[k] \in committed'
    PROVE  InputInv'
<1>1. /\ inputOp' \in InputOpTypes /\ inputOp'.name = "none"
      /\ inputOp'.backend["Value"] = NoValue
  BY DEF InputOpTypes, Inputs!NoInputOp, Inputs!Contents, Inputs!Kinds
<1>2. Inputs!InputTypeOK'
  <2>1. referenced' \in BOOLEAN
    BY Zenon DEF InputInv, Inputs!InputTypeOK
  <2> QED
    BY <1>1, <2>1 DEF InputInv, Inputs!InputTypeOK, InputOpTypes
<1>3. inputOp' = Inputs!NoInputOp'
  BY DEF Inputs!NoInputOp, Inputs!Kinds
<1>4. backend'["Value"] \in exposed' \cup {NoValue}
  BY DEF InputInv
<1> QED
  BY <1>1, <1>2, <1>3, <1>4 DEF InputInv


LEMMA ReportInputKeeps ==
    ASSUME InputInv, Inputs!ReportInput
    PROVE  InputInv'
<1> USE DEF Inputs!inputStores, Inputs!inputConfig
<1>1. /\ inputOp' = Inputs!NoInputOp
      /\ UNCHANGED <<entry, backend, accessPaused, legacy, definition, referenced>>
      /\ inputOp.step \in {"ok", "failed", "reverted", "uncertain"}
  BY DEF Inputs!ReportInput
<1>2. /\ entry \in Inputs!Kinds \cup {"none"} /\ inputOp \in InputOpTypes
      /\ accessPaused \in BOOLEAN /\ committed \subseteq Values /\ exposed \subseteq Values
  BY DEF InputInv, Inputs!InputTypeOK, InputOpTypes
<1>3. accessPaused' \in BOOLEAN
  BY <1>1, <1>2, Zenon
<1>4. gone' \in BOOLEAN
  BY Zenon DEF Inputs!ReportInput, InputInv, Inputs!InputTypeOK
<1>5. inputOp.name \in {"adopt", "upsert", "delete"}
  BY <1>1, <1>2 DEF InputInv, Inputs!NoInputOp, InputOpTypes
<1>6. exposed' \subseteq Values /\ exposed \subseteq exposed'
  <2>1. inputOp.name = "adopt" => inputOp.value \in Values
    BY DEF InputInv, InputAdoptInv
  <2> QED
    BY <1>2, <2>1 DEF Inputs!ReportInput
<1>7. /\ committed' \subseteq Values
      /\ committed' # {} => /\ entry # "none"
                            /\ \E k \in Inputs!Kinds : backend[k] \in committed'
  <2>1. CASE inputOp.name = "adopt"
    <3>1. InputAdoptInv
      BY <2>1 DEF InputInv
    <3>2. CASE inputOp.step = "ok"
      <4>1. committed' = {inputOp.value} \ {NoValue}
        BY <3>2 DEF Inputs!ReportInput
      <4> QED
        BY <3>1, <3>2, <4>1 DEF InputAdoptInv, Inputs!Kinds
    <3>3. CASE inputOp.step # "ok"
      <4>1. committed' = committed
        BY <1>1, <3>1, <3>3, <2>1 DEF Inputs!ReportInput, InputAdoptInv
      <4> QED
        BY <3>1, <4>1 DEF InputAdoptInv
    <3> QED
      BY <3>2, <3>3
  <2>2. CASE inputOp.name = "upsert"
    <3>1. InputUpsertInv
      BY <2>2 DEF InputInv
    <3>2. CASE inputOp.step = "ok"
      <4>1. committed' = {inputOp.value} \ {NoValue}
        BY <3>2 DEF Inputs!ReportInput
      <4>2. NoValue \notin Values
        BY StoresAssumption DEF Inputs!InputStoreAssumption
      <4> QED
        BY <3>1, <3>2, <4>1, <4>2 DEF InputUpsertInv, Inputs!Kinds
    <3>3. CASE inputOp.step = "uncertain"
      <4>1. committed' = Inputs!Perhaps
        BY <3>3, <2>2 DEF Inputs!ReportInput
      <4>2. committed' # {} => entry # "none"
        BY <3>1, <3>3, <4>1 DEF InputUpsertInv, Inputs!Perhaps, Inputs!Kinds
      <4>3. committed' # {} => \E k \in Inputs!Kinds : backend[k] \in committed'
        BY <3>1, <3>3, <4>1 DEF InputUpsertInv, InputHad, IsAsBefore, Inputs!Perhaps
      <4> QED
        BY <1>2, <3>1, <4>1, <4>2, <4>3 DEF InputUpsertInv, Inputs!Perhaps
    <3>4. CASE inputOp.step = "reverted"
      <4>1. committed' = committed
        BY <3>4, <2>2 DEF Inputs!ReportInput
      <4> QED
        BY <1>2, <3>1, <3>4, <4>1 DEF InputUpsertInv, InputHad, IsAsBefore
    <3> QED
      BY <1>1, <3>1, <3>2, <3>3, <3>4 DEF InputUpsertInv, InputUndoing
  <2>3. CASE inputOp.name = "delete"
    <3>1. InputDeleteInv
      BY <2>3 DEF InputInv
    <3>2. CASE inputOp.step \in {"ok", "uncertain"}
      <4>1. committed' = {}
        BY <2>3, <3>1, <3>2 DEF Inputs!ReportInput, InputDeleteInv
      <4> QED
        BY <4>1
    <3>3. CASE inputOp.step = "reverted"
      <4>1. committed' = committed
        BY <3>3, <2>3 DEF Inputs!ReportInput
      <4> QED
        BY <1>2, <3>1, <3>3, <4>1 DEF InputDeleteInv, InputHad, IsAsBefore, Inputs!Kinds
    <3> QED
      BY <1>1, <3>1, <3>2, <3>3 DEF InputDeleteInv, InputUndoing
  <2> QED
    BY <1>5, <2>1, <2>2, <2>3
<1> QED
  BY <1>1, <1>3, <1>4, <1>6, <1>7, InputEnds

LEMMA InputCrashKeeps ==
    ASSUME InputInv, Inputs!InputCrash
    PROVE  InputInv'
<1> USE DEF Inputs!inputConfig
<1>1. /\ inputOp' = Inputs!NoInputOp
      /\ UNCHANGED <<entry, backend, legacy, definition, referenced, exposed, gone>>
  BY DEF Inputs!InputCrash
<1>2. /\ entry \in Inputs!Kinds \cup {"none"} /\ inputOp \in InputOpTypes
      /\ committed \subseteq Values /\ exposed \subseteq Values
  BY DEF InputInv, Inputs!InputTypeOK, InputOpTypes
<1>3. accessPaused' \in BOOLEAN /\ gone' \in BOOLEAN
  BY Zenon DEF Inputs!InputCrash, InputInv, Inputs!InputTypeOK
<1>4. /\ committed' \subseteq Values
      /\ committed' # {} => /\ entry # "none"
                            /\ \E k \in Inputs!Kinds : backend[k] \in committed'
  <2>1. CASE inputOp.name \in {"none", "adopt"}
    <3>1. committed' = committed
      BY <2>1 DEF Inputs!InputCrash
    <3> QED
      BY <1>2, <2>1, <3>1 DEF InputInv, InputAdoptInv
  <2>2. CASE inputOp.name = "upsert"
    <3>1. InputUpsertInv
      BY <2>2 DEF InputInv
    <3>2. committed' = Inputs!Perhaps
      BY <2>2 DEF Inputs!InputCrash
    <3>3. committed' # {} => entry # "none"
      BY <3>1, <3>2 DEF InputUpsertInv, Inputs!Perhaps, Inputs!Kinds
    <3>4. committed' # {} => \E k \in Inputs!Kinds : backend[k] \in committed'
      BY <3>1, <3>2 DEF InputUpsertInv, InputHad, IsAsBefore, Inputs!Perhaps
    <3> QED
      BY <1>2, <3>1, <3>2, <3>3, <3>4 DEF InputUpsertInv, Inputs!Perhaps
  <2>3. CASE inputOp.name = "delete"
    BY <2>3 DEF Inputs!InputCrash
  <2> QED
    BY <1>2, <2>1, <2>2, <2>3 DEF InputOpTypes
<1> QED
  BY <1>1, <1>2, <1>3, <1>4, InputEnds

\* What the user does besides: the definition, the references, a retry of the keychain.
LEMMA InputAsideKeeps ==
    ASSUME InputInv, Inputs!InputTypeOK',
           UNCHANGED <<entry, backend, inputOp, committed, exposed, gone>>
    PROVE  InputInv'
<1>1. inputOp.name = "none" => inputOp' = Inputs!NoInputOp'
  BY DEF InputInv, Inputs!NoInputOp
<1>2. /\ inputOp.name = "adopt" => InputAdoptInv'
      /\ inputOp.name = "upsert" => InputUpsertInv'
      /\ inputOp.name = "delete" => InputDeleteInv'
  BY DEF InputInv, InputAdoptInv, InputUpsertInv, InputDeleteInv, InputHad, IsAsBefore
<1> QED
  BY <1>1, <1>2 DEF InputInv

LEMMA InputSettles ==
    ASSUME InputInv,
           \/ Inputs!RetryAccess \/ Inputs!AddOrUpdateInput \/ Inputs!ImportInputs
           \/ Inputs!RemoveInput \/ Inputs!ReferenceInput
    PROVE  InputInv'
<1> USE DEF Inputs!inputConfig, Inputs!inputGhosts, Inputs!inputStores,
            Inputs!AddOrUpdateInput, Inputs!ImportInputs, Inputs!RemoveInput,
            Inputs!ReferenceInput, Inputs!RetryAccess, Inputs!SetDefinition
<1>1. UNCHANGED <<entry, backend, legacy, inputOp, committed, exposed, gone>>
  OBVIOUS
<1>2. Inputs!InputTypeOK
  BY DEF InputInv
<1>3. definition' \in Inputs!Kinds \cup {"none"}
  BY <1>2 DEF Inputs!InputTypeOK
<1>4. referenced' \in BOOLEAN /\ accessPaused' \in BOOLEAN /\ gone' \in BOOLEAN
  BY <1>2, Zenon DEF Inputs!InputTypeOK
<1>5. Inputs!InputTypeOK'
  BY <1>1, <1>2, <1>3, <1>4 DEF Inputs!InputTypeOK
<1> QED
  BY <1>1, <1>5, InputAsideKeeps

LEMMA InputRests ==
    ASSUME InputInv, UNCHANGED Inputs!inputVars
    PROVE  InputInv'
<1>1. Inputs!InputTypeOK'
  BY DEF Inputs!inputVars, InputInv, Inputs!InputTypeOK
<1> QED
  BY <1>1, InputAsideKeeps DEF Inputs!inputVars

LEMMA InputKeeps ==
    ASSUME InputInv, Inputs!InputNext
    PROVE  InputInv'
<1>1. Inputs!UndoPlain \/ Inputs!UndoSecret => InputInv'
  BY UndoKeeps DEF Inputs!UndoPlain, Inputs!UndoSecret, Inputs!Kinds
<1> QED
  BY <1>1, AdoptSaveKeeps, AdoptCleanupKeeps, AdoptUndoKeeps, MigrateEntryKeeps,
     ResolveEntryKeeps, UpsertInputEntryKeeps, SetInputValueKeeps, WriteValueKeeps,
     SaveMetadataKeeps, DropOldCopyKeeps, DeleteEntryKeeps, EraseValueKeeps,
     ForgetEntryKeeps, UndoEntryKeeps, ReportInputKeeps, InputCrashKeeps, InputSettles
  DEF Inputs!InputNext

LEMMA InputIsSafe ==
    ASSUME InputInv
    PROVE  Inputs!ValueSurvives /\ Inputs!SecretStaysInKeychain
<1>1. Inputs!SecretStaysInKeychain
  BY DEF InputInv, Inputs!SecretStaysInKeychain
<1>2. ASSUME committed # {}, inputOp.name # "delete"
      PROVE  \E k \in Inputs!Kinds :
                 backend[k] \in committed \cup ({inputOp.value} \ {NoValue})
  <2>1. inputOp.name \in {"none", "upsert"}
    BY <1>2 DEF InputInv, Inputs!InputTypeOK, InputAdoptInv
  <2>2. CASE inputOp.name = "none"
    BY <1>2, <2>2 DEF InputInv
  <2>3. CASE inputOp.name = "upsert"
    <3>1. InputUpsertInv /\ NoValue \notin Values
      BY <2>3, StoresAssumption DEF InputInv, Inputs!InputStoreAssumption
    <3> QED
      BY <1>2, <3>1 DEF InputUpsertInv, InputHad, IsAsBefore
  <2> QED
    BY <2>1, <2>2, <2>3
<1>3. ASSUME inputOp.step = "reverted"
      PROVE  /\ entry = inputOp.entry
             /\ entry # "none" => backend[entry] = inputOp.backend[entry]
  <2>1. inputOp.name \in {"upsert", "delete"}
    BY <1>3 DEF InputInv, Inputs!InputTypeOK, InputAdoptInv, Inputs!NoInputOp
  <2>2. entry \in Inputs!Kinds \cup {"none"}
    BY DEF InputInv, Inputs!InputTypeOK
  <2> QED
    BY <1>3, <2>1, <2>2 DEF InputInv, InputUpsertInv, InputDeleteInv, IsAsBefore
<1> QED
  BY <1>1, <1>2, <1>3 DEF Inputs!ValueSurvives


-----------------------------------------------------------------------------
(* ComputerStorage. *)

Saved == Storage!Profiles \cup {Storage!NoProfile}
Changing == {"update", "authorize", "apply", "authorized"}
Deleting == {"deleteInputs", "undoInputs", "quarantine", "removeProfile", "commit"}
Creating == {"createApply", "createPublish"}
Copying == {"copy", "join", "joinSource", "refresh"}
Commands == [at : {"idle", "prompt", "disable"} \cup Changing \cup Deleting \cup Creating
                      \cup Copying,
             on : Computers \cup {Absent}, from : Computers \cup {Absent}, read : Saved,
             had : SUBSET Storage!InputKinds]

StorageTypes ==
    /\ profile \in [Computers -> Saved] /\ published \in [Computers -> Saved]
    /\ instance \in [Computers -> {"none", "here", "trash"}]
    /\ inputs \in [Computers -> SUBSET Storage!InputKinds]
    /\ given \in [Computers -> SUBSET Storage!InputKinds]
    /\ retiring \subseteq Computers /\ leaving \subseteq Computers
    /\ troubled \subseteq Computers
    /\ lease \in [Computers -> Requests \cup {NoRequest}]
    /\ membership \in Requests \cup {NoRequest}
    /\ context \in {"in", "leaving", "out"}
    /\ departing \in BOOLEAN /\ unclean \in BOOLEAN
    /\ request \in [Requests -> Commands]

\* A command that changes or deletes a Computer holds its lease; while it does, it alone
\* knows how the parts of the Computer differ, and how to put them back.
Holds(t) == request[t].at \in Changing \cup Deleting
HolderKept(t) ==
    LET r == request[t]
        c == r.on IN
    Holds(t) =>
        /\ c \in Computers /\ lease[c] = t /\ c \notin troubled
        /\ published[c] # Storage!NoProfile
        /\ r.at \in {"apply", "authorized", "commit"} => published[c] = r.read
        /\ r.at \in {"apply", "authorized"} => profile[c] # Storage!NoProfile
        /\ r.at \in {"authorize", "authorized"} => context = "in"
        /\ r.at \in Deleting => r.had = given[c]
        /\ r.at \in {"deleteInputs", "undoInputs", "quarantine"} => instance[c] = "here"
        /\ r.at \in {"removeProfile", "commit"} => instance[c] = "trash"
        /\ r.at \in {"quarantine", "removeProfile", "commit"} => inputs[c] = {}
        /\ r.at = "commit" => profile[c] = Storage!NoProfile

\* A Computer in creation is known to the command that makes it and to no other.
InTransit(t) == request[t].at \in Creating \cup Copying
CreatorKept(t) ==
    LET r == request[t]
        c == r.on IN
    InTransit(t) =>
        /\ c \in Computers /\ c \notin troubled
        /\ published[c] = Storage!NoProfile /\ profile[c] # Storage!NoProfile
        /\ r.at # "copy" => instance[c] = "here"
        /\ r.at \in Creating => profile[c].authority = "none"
        /\ \A u \in Requests \ {t} : c \notin {request[u].on, request[u].from}
CopierKept(t) ==
    LET r == request[t]
        s == r.from IN
    r.at \in Copying =>
        /\ s \in Computers
        /\ published[s] = Storage!NoProfile => profile[s] = Storage!NoProfile
        /\ r.at = "refresh" => lease[s] = t

\* Nothing differs in a Computer that no command is working on.
ComputerWhole(c) ==
    c \notin troubled =>
        /\ published[c] # Storage!NoProfile =>
               /\ (\A t \in Requests : request[t].on = c =>
                       request[t].at \notin {"apply", "authorized", "commit"}) =>
                      published[c] = profile[c]
               /\ (\A t \in Requests : request[t].on = c => request[t].at \notin Deleting) =>
                      instance[c] = "here" /\ inputs[c] = given[c] /\ c \notin retiring
        /\ published[c] = Storage!NoProfile =>
               inputs[c] = {} /\ given[c] = {} /\ c \notin retiring

\* While a context departs and nothing failed, a Computer that its cleanup does not visit
\* any more has no authority over it, in what is published and in what is saved.
Departs == context # "in" /\ ~unclean
ComputerRests(c) ==
    Departs /\ c \notin leaving /\ published[c] # Storage!NoProfile =>
        published[c].authority # "active" /\ profile[c].authority # "active"
CommandKept(t) ==
    /\ HolderKept(t) /\ CreatorKept(t) /\ CopierKept(t)
    /\ request[t].at \in {"prompt", "disable"} => request[t].on \in Computers
ComputerKept(c) == ComputerWhole(c) /\ ComputerRests(c)
ContextKept ==
    /\ context = "leaving" => departing
    /\ context = "out" => leaving = {} /\ departing = unclean

StorageInv ==
    /\ StorageTypes /\ ContextKept
    /\ \A t \in Requests : CommandKept(t)
    /\ \A c \in Computers : ComputerKept(c)

LEMMA StorageAssumed == NoRequest \notin Requests /\ Absent \notin Computers
BY StoresAssumption DEF StoresAssumption, Storage!StorageAssumption

LEMMA StorageTyped ==
    ASSUME StorageInv
    PROVE  /\ profile \in [Computers -> Saved] /\ published \in [Computers -> Saved]
           /\ instance \in [Computers -> {"none", "here", "trash"}]
           /\ inputs \in [Computers -> SUBSET Storage!InputKinds]
           /\ given \in [Computers -> SUBSET Storage!InputKinds]
           /\ retiring \subseteq Computers /\ leaving \subseteq Computers
           /\ troubled \subseteq Computers
           /\ lease \in [Computers -> Requests \cup {NoRequest}]
           /\ membership \in Requests \cup {NoRequest}
           /\ context \in {"in", "leaving", "out"}
           /\ departing \in BOOLEAN /\ unclean \in BOOLEAN
           /\ request \in [Requests -> Commands]
BY DEF StorageInv, StorageTypes

LEMMA SavedIs ==
    /\ Storage!NoProfile \in Saved /\ Storage!NoProfile.authority = "deleted"
    /\ \A p \in Saved : p # Storage!NoProfile =>
           p \in Storage!Profiles /\ p.authority \in {"none", "active", "dormant"}
    /\ \A p \in Storage!Profiles : p \in Saved /\ p # Storage!NoProfile
<1>1. PICK b \in BOOLEAN : b = FALSE
  <2>1. FALSE \in BOOLEAN
    OBVIOUS
  <2> QED
    BY <2>1, Zenon
<1>2. Storage!NoProfile = [authority |-> "deleted", setting |-> b]
  BY <1>1, Zenon DEF Storage!NoProfile
<1>3. Storage!NoProfile.authority = "deleted"
  BY <1>2
<1>4. \A p \in Storage!Profiles : p.authority \in {"none", "active", "dormant"}
  BY DEF Storage!Profiles
<1> QED
  BY <1>3, <1>4 DEF Saved

\* Only Computer c and the command of u change.
Touches(u, c) ==
    /\ \A d \in Computers \ {c} :
           /\ profile'[d] = profile[d] /\ published'[d] = published[d]
           /\ instance'[d] = instance[d] /\ inputs'[d] = inputs[d] /\ given'[d] = given[d]
           /\ d \in retiring' <=> d \in retiring
           /\ d \in troubled' <=> d \in troubled
    /\ \A t \in Requests \ {u} : request'[t] = request[t]
    /\ UNCHANGED <<context, departing, leaving, unclean>>
LeasesKept(u) ==
    \A t \in Requests \ {u} :
        /\ Holds(t) => lease'[request[t].on] = t
        /\ request[t].at = "refresh" => lease'[request[t].from] = t
Alone(u, c) ==
    \A t \in Requests \ {u} : Holds(t) \/ InTransit(t) => request[t].on # c
Names(u, c) ==
    \A x \in {request'[u].on, request'[u].from} :
        \/ x \in {c, Absent, request[u].on, request[u].from}
        \/ published[x] # Storage!NoProfile
Sources(u, c) ==
    \A t \in Requests \ {u} :
        request[t].at \in Copying /\ request[t].from = c
            /\ published'[c] = Storage!NoProfile => profile'[c] = Storage!NoProfile

LEMMA OthersKeep ==
    ASSUME StorageInv, NEW u \in Requests, NEW c, Touches(u, c),
           LeasesKept(u), Alone(u, c), Names(u, c), Sources(u, c),
           NEW t \in Requests \ {u}
    PROVE  CommandKept(t)'
<1>1. request'[t] = request[t] /\ UNCHANGED <<context, departing, leaving, unclean>>
  BY DEF Touches
<1>2. CommandKept(t)
  BY DEF StorageInv
<1>3. HolderKept(t)'
  <2>1. SUFFICES ASSUME Holds(t)' PROVE HolderKept(t)'
    BY DEF HolderKept
  <2>2. Holds(t) /\ HolderKept(t)
    BY <1>1, <1>2, <2>1 DEF Holds, CommandKept
  <2>3. request[t].on \in Computers \ {c} /\ lease'[request[t].on] = t
    BY <2>2 DEF HolderKept, Alone, LeasesKept
  <2> QED
    BY <1>1, <2>2, <2>3 DEF HolderKept, Touches
<1>4. CreatorKept(t)'
  <2>1. SUFFICES ASSUME InTransit(t)' PROVE CreatorKept(t)'
    BY DEF CreatorKept
  <2>2. InTransit(t) /\ CreatorKept(t)
    BY <1>1, <1>2, <2>1 DEF InTransit, CommandKept
  <2>3. request[t].on \in Computers \ {c} /\ published[request[t].on] = Storage!NoProfile
    BY <2>2 DEF CreatorKept, Alone
  <2>4. \A v \in Requests \ {t} : request[t].on \notin {request'[v].on, request'[v].from}
    <3>1. request[t].on \notin {request'[u].on, request'[u].from}
      BY <2>2, <2>3, StorageAssumed DEF CreatorKept, Names
    <3> QED
      BY <2>2, <3>1 DEF CreatorKept, Touches
  <2> QED
    BY <1>1, <2>2, <2>3, <2>4 DEF CreatorKept, Touches
<1>5. CopierKept(t)'
  <2>1. SUFFICES ASSUME request[t].at \in Copying PROVE CopierKept(t)'
    BY <1>1 DEF CopierKept
  <2>2. CopierKept(t)
    BY <1>2 DEF CommandKept
  <2>3. request[t].from \in Computers
    BY <2>1, <2>2 DEF CopierKept
  <2>4. published'[request[t].from] = Storage!NoProfile =>
            profile'[request[t].from] = Storage!NoProfile
    <3>1. CASE request[t].from = c
      BY <2>1, <3>1 DEF Sources
    <3>2. CASE request[t].from # c
      BY <2>1, <2>2, <2>3, <3>2 DEF CopierKept, Touches
    <3> QED
      BY <3>1, <3>2
  <2>5. request[t].at = "refresh" => lease'[request[t].from] = t
    BY DEF LeasesKept
  <2> QED
    BY <1>1, <2>3, <2>4, <2>5 DEF CopierKept
<1> QED
  BY <1>1, <1>2, <1>3, <1>4, <1>5 DEF CommandKept

LEMMA OtherComputersKeep ==
    ASSUME StorageInv, NEW u \in Requests, NEW c, Touches(u, c),
           request[u].on = c \/ ~Holds(u), NEW d \in Computers \ {c}
    PROVE  ComputerKept(d)'
<1>1. /\ profile'[d] = profile[d] /\ published'[d] = published[d]
      /\ instance'[d] = instance[d] /\ inputs'[d] = inputs[d] /\ given'[d] = given[d]
      /\ d \in retiring' <=> d \in retiring
      /\ d \in troubled' <=> d \in troubled
      /\ UNCHANGED <<context, departing, leaving, unclean>>
  BY DEF Touches
<1>2. ComputerKept(d)
  BY DEF StorageInv
<1>3. ComputerRests(d)'
  BY <1>1, <1>2 DEF ComputerKept, ComputerRests, Departs
<1>4. ASSUME NEW S, S \subseteq Changing \cup Deleting,
             \A t \in Requests : request'[t].on = d => request'[t].at \notin S
      PROVE  \A t \in Requests : request[t].on = d => request[t].at \notin S
  <2>1. \A t \in Requests \ {u} : request[t].on = d => request[t].at \notin S
    BY <1>4 DEF Touches
  <2>2. request[u].on = d => request[u].at \notin S
    BY <1>4 DEF Holds
  <2> QED
    BY <2>1, <2>2
<1>5. ASSUME \A t \in Requests : request'[t].on = d =>
                 request'[t].at \notin {"apply", "authorized", "commit"}
      PROVE  \A t \in Requests : request[t].on = d =>
                 request[t].at \notin {"apply", "authorized", "commit"}
  <2>1. {"apply", "authorized", "commit"} \subseteq Changing \cup Deleting
    BY DEF Changing, Deleting
  <2> QED
    BY <1>4, <1>5, <2>1
<1>6. ASSUME \A t \in Requests : request'[t].on = d => request'[t].at \notin Deleting
      PROVE  \A t \in Requests : request[t].on = d => request[t].at \notin Deleting
  BY <1>4, <1>6
<1>7. ComputerWhole(d)'
  BY <1>1, <1>2, <1>5, <1>6 DEF ComputerKept, ComputerWhole
<1> QED
  BY <1>3, <1>7 DEF ComputerKept

LEMMA CommandStep ==
    ASSUME StorageInv, NEW u \in Requests, NEW c, StorageTypes', Touches(u, c),
           LeasesKept(u), Alone(u, c), Names(u, c), Sources(u, c),
           request[u].on = c \/ ~Holds(u), CommandKept(u)',
           c \in Computers => ComputerKept(c)'
    PROVE  StorageInv'
<1>1. \A t \in Requests : CommandKept(t)'
  BY OthersKeep
<1>2. \A d \in Computers : ComputerKept(d)'
  BY OtherComputersKeep
<1>3. ContextKept'
  BY DEF Touches, StorageInv, ContextKept
<1> QED
  BY <1>1, <1>2, <1>3 DEF StorageInv

\* Who holds a Computer's lease works on it alone.
LEMMA HolderAlone ==
    ASSUME StorageInv, NEW u \in Requests, Holds(u)
    PROVE  /\ request[u].on \in Computers /\ lease[request[u].on] = u
           /\ request[u].on \notin troubled /\ published[request[u].on] # Storage!NoProfile
           /\ Alone(u, request[u].on)
<1>1. \A t \in Requests : HolderKept(t) /\ CreatorKept(t)
  BY DEF StorageInv, CommandKept
<1> QED
  BY <1>1 DEF HolderKept, CreatorKept, Alone

LEMMA FreeIs ==
    ASSUME StorageInv, NEW u \in Requests, NEW c \in Computers, lease[c] = NoRequest,
           published[c] # Storage!NoProfile
    PROVE  /\ Alone(u, c) /\ \A t \in Requests : Holds(t) => request[t].on # c
           /\ c \notin troubled =>
                  /\ published[c] = profile[c] /\ instance[c] = "here"
                  /\ inputs[c] = given[c] /\ c \notin retiring
<1>1. \A t \in Requests : HolderKept(t) /\ CreatorKept(t)
  BY DEF StorageInv, CommandKept
<1>2. \A t \in Requests : Holds(t) => request[t].on # c
  BY <1>1, StorageAssumed DEF HolderKept
<1>3. ComputerWhole(c)
  BY DEF StorageInv, ComputerKept
<1> QED
  BY <1>1, <1>2, <1>3 DEF CreatorKept, Alone, ComputerWhole, Holds, Changing, Deleting

LEMMA CreatorAlone ==
    ASSUME StorageInv, NEW u \in Requests, InTransit(u)
    PROVE  /\ request[u].on \in Computers /\ request[u].on \notin troubled
           /\ published[request[u].on] = Storage!NoProfile
           /\ profile[request[u].on] # Storage!NoProfile
           /\ Alone(u, request[u].on)
           /\ \A t \in Requests \ {u} : request[u].on \notin {request[t].on, request[t].from}
BY DEF StorageInv, CommandKept, CreatorKept, Alone

\* A lease is taken when it is free and given back by its holder.
LEMMA LeaseKept ==
    ASSUME StorageInv, NEW u \in Requests, NEW c \in Computers,
           lease[c] \in {u, NoRequest}, \A d \in Computers \ {c} : lease'[d] = lease[d]
    PROVE  LeasesKept(u)
<1>1. \A t \in Requests : HolderKept(t) /\ CopierKept(t)
  BY DEF StorageInv, CommandKept
<1> QED
  BY <1>1, StorageAssumed DEF HolderKept, CopierKept, LeasesKept, Copying

\* What a command's record becomes.
RequestIs(u, p, c, s, r, h) ==
    /\ request' \in [Requests -> Commands]
    /\ request'[u].at = p /\ request'[u].on = c /\ request'[u].from = s
    /\ request'[u].read = r /\ request'[u].had = h
    /\ \A t \in Requests \ {u} : request'[t] = request[t]

LEMMA RequestPut ==
    ASSUME StorageInv, NEW u \in Requests, NEW n \in Commands,
           request' = [request EXCEPT ![u] = n]
    PROVE  RequestIs(u, n.at, n.on, n.from, n.read, n.had)
BY StorageTyped DEF RequestIs

Points == {"idle", "prompt", "disable"} \cup Changing \cup Deleting \cup Creating \cup Copying

LEMMA RequestFields ==
    ASSUME StorageInv, NEW u \in Requests
    PROVE  /\ request[u] \in Commands
           /\ request[u].at \in Points /\ request[u].on \in Computers \cup {Absent}
           /\ request[u].from \in Computers \cup {Absent} /\ request[u].read \in Saved
           /\ request[u].had \in SUBSET Storage!InputKinds
BY StorageTyped DEF Commands, Points

LEMMA RequestGoes ==
    ASSUME StorageInv, NEW u \in Requests, NEW p \in Points,
           request' = [request EXCEPT ![u].at = p]
    PROVE  RequestIs(u, p, request[u].on, request[u].from, request[u].read, request[u].had)
<1> DEFINE n == [request[u] EXCEPT !.at = p]
<1>1. request' = [request EXCEPT ![u] = n]
  OBVIOUS
<1>2. /\ n \in Commands /\ n.at = p /\ n.on = request[u].on /\ n.from = request[u].from
      /\ n.read = request[u].read /\ n.had = request[u].had
  BY RequestFields DEF Commands, Points
<1> HIDE DEF n
<1> QED
  BY <1>1, <1>2, RequestPut

LEMMA RequestTakes ==
    ASSUME StorageInv, NEW u \in Requests, NEW p \in Points, NEW c \in Computers,
           request' = [request EXCEPT ![u].at = p, ![u].on = c]
    PROVE  RequestIs(u, p, c, request[u].from, request[u].read, request[u].had)
<1> DEFINE n == [at |-> p, on |-> c, from |-> request[u].from, read |-> request[u].read,
                 had |-> request[u].had]
<1>1. request'[u] = n
  BY RequestFields, StorageTyped DEF Commands
<1>2. n \in Commands
  BY RequestFields DEF Commands, Points
<1>3. request' = [request EXCEPT ![u] = n]
  BY <1>1, StorageTyped
<1> HIDE DEF n
<1>4. RequestIs(u, n.at, n.on, n.from, n.read, n.had)
  BY <1>2, <1>3, RequestPut
<1> QED
  BY <1>4 DEF n

LEMMA RequestDeletes ==
    ASSUME StorageInv, NEW u \in Requests, NEW p \in Points, NEW c \in Computers,
           NEW h \in SUBSET Storage!InputKinds,
           request' = [request EXCEPT ![u].at = p, ![u].on = c, ![u].had = h]
    PROVE  RequestIs(u, p, c, request[u].from, request[u].read, h)
<1> DEFINE n == [at |-> p, on |-> c, from |-> request[u].from, read |-> request[u].read,
                 had |-> h]
<1>1. request'[u] = n
  BY RequestFields, StorageTyped DEF Commands
<1>2. n \in Commands
  BY RequestFields DEF Commands, Points
<1>3. request' = [request EXCEPT ![u] = n]
  BY <1>1, StorageTyped
<1> HIDE DEF n
<1>4. RequestIs(u, n.at, n.on, n.from, n.read, n.had)
  BY <1>2, <1>3, RequestPut
<1> QED
  BY <1>4 DEF n

LEMMA RequestReads ==
    ASSUME StorageInv, NEW u \in Requests, NEW p \in Points, NEW r \in Saved,
           \/ request' = [request EXCEPT ![u].read = r, ![u].at = p]
           \/ request' = [request EXCEPT ![u].at = p, ![u].read = r]
    PROVE  RequestIs(u, p, request[u].on, request[u].from, r, request[u].had)
<1> DEFINE n == [at |-> p, on |-> request[u].on, from |-> request[u].from, read |-> r,
                 had |-> request[u].had]
<1>1. request'[u] = n
  BY RequestFields, StorageTyped DEF Commands
<1>2. n \in Commands
  BY RequestFields DEF Commands, Points
<1>3. request' = [request EXCEPT ![u] = n]
  BY <1>1, StorageTyped
<1> HIDE DEF n
<1>4. RequestIs(u, n.at, n.on, n.from, n.read, n.had)
  BY <1>2, <1>3, RequestPut
<1> QED
  BY <1>4 DEF n

LEMMA RequestEnds ==
    ASSUME StorageInv, NEW u \in Requests, Storage!Finish(u)
    PROVE  RequestIs(u, "idle", Absent, Absent, Storage!NoProfile, {})
<1>1. PICK n : n = Storage!NoWork
  OBVIOUS
<1>2. n = [at |-> "idle", on |-> Absent, from |-> Absent, read |-> Storage!NoProfile, had |-> {}]
  BY <1>1 DEF Storage!NoWork
<1>3. n \in Commands
  BY <1>2, SavedIs DEF Commands
<1>4. request' = [request EXCEPT ![u] = n]
  BY <1>1 DEF Storage!Finish
<1>5. RequestIs(u, n.at, n.on, n.from, n.read, n.had)
  BY <1>3, <1>4, RequestPut
<1> QED
  BY <1>2, <1>5

\* A command that has ended, or that only waits, has nothing to keep.
LEMMA IdleKept ==
    ASSUME NEW u \in Requests, request'[u].at \in {"idle", "prompt", "disable"},
           request'[u].at # "idle" => request'[u].on \in Computers
    PROVE  CommandKept(u)'
BY DEF CommandKept, HolderKept, CreatorKept, CopierKept, Holds, InTransit,
       Changing, Deleting, Creating, Copying

\* Nothing of a Computer changes, only the command of one that waits.
LEMMA NothingChanges ==
    ASSUME StorageInv, NEW u \in Requests, NEW p, NEW c, NEW s, NEW r, NEW h,
           RequestIs(u, p, c, s, r, h), ~Holds(u),
           UNCHANGED <<profile, published, instance, inputs, given, retiring, lease, troubled,
                       context, departing, leaving, unclean>>,
           membership' \in Requests \cup {NoRequest}, Names(u, Absent), CommandKept(u)'
    PROVE  StorageInv'
<1>1. StorageTypes'
  BY StorageTyped DEF StorageTypes, RequestIs
<1>2. Touches(u, Absent)
  BY DEF Touches, RequestIs
<1>3. \A t \in Requests : HolderKept(t) /\ CreatorKept(t) /\ CopierKept(t)
  BY DEF StorageInv, CommandKept
<1>4. LeasesKept(u)
  BY <1>3 DEF LeasesKept, HolderKept, CopierKept, Copying
<1>5. Alone(u, Absent) /\ Sources(u, Absent)
  BY <1>3, StorageAssumed DEF Alone, Sources, HolderKept, CreatorKept, CopierKept
<1> QED
  BY <1>1, <1>2, <1>4, <1>5, StorageAssumed, CommandStep

LEMMA BeginUpdateKeeps ==
    ASSUME StorageInv, NEW u \in Requests, Storage!BeginUpdate(u)
    PROVE  StorageInv'
<1>1. PICK c \in Computers, p \in {"update", "authorize"} :
         /\ published[c] # Storage!NoProfile /\ c \notin troubled
         /\ p = "authorize" => context = "in"
         /\ lease[c] = NoRequest /\ lease' = [lease EXCEPT ![c] = u]
         /\ request' = [request EXCEPT ![u].at = p, ![u].on = c]
  BY DEF Storage!BeginUpdate, Storage!Usable, Storage!IsPublished, Storage!Lock
<1>2. /\ UNCHANGED <<profile, instance, inputs, published, given, retiring, membership,
                     context, departing, leaving, unclean, troubled>>
      /\ request[u].at = "idle"
  BY DEF Storage!BeginUpdate, Storage!disk, Storage!manager, Storage!At
<1>3. RequestIs(u, p, c, request[u].from, request[u].read, request[u].had)
  <2>1. p \in Points
    BY DEF Points, Changing
  <2> QED
    BY <1>1, <2>1, RequestTakes
<1>4. /\ lease' \in [Computers -> Requests \cup {NoRequest}] /\ lease'[c] = u
      /\ \A d \in Computers \ {c} : lease'[d] = lease[d]
  BY <1>1, StorageTyped
<1>5. StorageTypes'
  BY <1>2, <1>3, <1>4, StorageTyped DEF StorageTypes, RequestIs
<1>6. Touches(u, c)
  BY <1>2, <1>3 DEF Touches, RequestIs
<1>7. LeasesKept(u)
  BY <1>1, <1>4, LeaseKept
<1>8. Names(u, c) /\ Sources(u, c)
  BY <1>1, <1>2, <1>3 DEF Names, Sources, RequestIs
<1>9. CommandKept(u)'
  BY <1>1, <1>2, <1>3, <1>4 DEF CommandKept, HolderKept, CreatorKept, CopierKept, InTransit,
     Changing, Deleting, Creating, Copying, RequestIs
<1>10. ~Holds(u)
  BY <1>2 DEF Holds, Changing, Deleting
<1>11. ComputerKept(c)'
  <2>1. ComputerWhole(c)'
    BY <1>1, <1>2, FreeIs DEF ComputerWhole
  <2>2. ComputerRests(c)'
    BY <1>2 DEF StorageInv, ComputerKept, ComputerRests, Departs
  <2> QED
    BY <2>1, <2>2 DEF ComputerKept
<1> QED
  BY <1>1, <1>5, <1>6, <1>7, <1>8, <1>9, <1>10, <1>11, FreeIs, CommandStep

\* A Computer whose lease is held by a change is as published until the change is saved.
LEMMA HeldIs ==
    ASSUME StorageInv, NEW u \in Requests, Holds(u)
    PROVE  /\ request[u].at \notin {"apply", "authorized", "commit"} =>
                  published[request[u].on] = profile[request[u].on]
           /\ request[u].at \notin Deleting =>
                  /\ instance[request[u].on] = "here"
                  /\ inputs[request[u].on] = given[request[u].on]
                  /\ request[u].on \notin retiring
<1> DEFINE c == request[u].on
<1>1. c \in Computers /\ c \notin troubled /\ published[c] # Storage!NoProfile /\ Alone(u, c)
  BY HolderAlone
<1>2. ComputerWhole(c)
  BY <1>1 DEF StorageInv, ComputerKept
<1>3. \A t \in Requests \ {u} : request[t].on = c => request[t].at \notin Changing \cup Deleting
  BY <1>1 DEF Alone, Holds
<1> QED
  BY <1>1, <1>2, <1>3 DEF ComputerWhole, Changing, Deleting

\* The holder ends and gives the lease back.
LEMMA HolderEnds ==
    ASSUME StorageInv, NEW u \in Requests, Holds(u), NEW c, c = request[u].on,
           Storage!Finish(u), Storage!Unlock(c), Touches(u, c),
           profile' \in [Computers -> Saved], published' \in [Computers -> Saved],
           instance' \in [Computers -> {"none", "here", "trash"}],
           inputs' \in [Computers -> SUBSET Storage!InputKinds],
           given' \in [Computers -> SUBSET Storage!InputKinds],
           retiring' \subseteq Computers, troubled' \subseteq Computers,
           UNCHANGED membership,
           published'[c] = Storage!NoProfile => profile'[c] = Storage!NoProfile,
           ComputerKept(c)'
    PROVE  StorageInv'
<1>1. c \in Computers /\ lease[c] = u /\ Alone(u, c)
  BY HolderAlone
<1>2. RequestIs(u, "idle", Absent, Absent, Storage!NoProfile, {})
  BY RequestEnds
<1>3. /\ lease' \in [Computers -> Requests \cup {NoRequest}]
      /\ \A d \in Computers \ {c} : lease'[d] = lease[d]
  BY <1>1, StorageTyped DEF Storage!Unlock
<1>4. StorageTypes'
  BY <1>2, <1>3, StorageTyped DEF StorageTypes, RequestIs, Touches
<1>5. LeasesKept(u)
  BY <1>1, <1>3, LeaseKept
<1>6. Names(u, c) /\ Sources(u, c)
  BY <1>2 DEF Names, Sources, RequestIs
<1>7. CommandKept(u)'
  BY <1>2, IdleKept DEF RequestIs
<1> QED
  BY <1>1, <1>4, <1>5, <1>6, <1>7, CommandStep

\* What a change and a departure make of a profile.
LEMMA ProfilesChange ==
    ASSUME NEW p \in Storage!Profiles
    PROVE  /\ Storage!Renamed(p) \in Storage!Profiles
           /\ Storage!Renamed(p).authority = p.authority
           /\ Storage!Deselected(p) \in Storage!Profiles
           /\ Storage!Deselected(p).authority # "active"
           /\ [p EXCEPT !.authority = "active"] \in Storage!Profiles
           /\ Storage!MakeDormant(p) \in Storage!Profiles
           /\ Storage!MakeDormant(p).authority # "active"
<1>1. PICK b \in BOOLEAN : b = TRUE
  <2>1. TRUE \in BOOLEAN
    OBVIOUS
  <2> QED
    BY <2>1, Zenon
<1>2. Storage!Renamed(p) = [p EXCEPT !.setting = b]
  BY <1>1, Zenon DEF Storage!Renamed
<1>3. /\ [p EXCEPT !.setting = b] \in Storage!Profiles
      /\ [p EXCEPT !.setting = b].authority = p.authority
  BY DEF Storage!Profiles
<1>4. /\ Storage!Deselected(p) \in Storage!Profiles
      /\ Storage!Deselected(p).authority # "active"
  BY DEF Storage!Profiles, Storage!Deselected
<1>5. [p EXCEPT !.authority = "active"] \in Storage!Profiles
  BY DEF Storage!Profiles
<1>6. /\ Storage!MakeDormant(p) \in Storage!Profiles
      /\ Storage!MakeDormant(p).authority # "active"
  BY DEF Storage!Profiles, Storage!MakeDormant
<1> QED
  BY <1>2, <1>3, <1>4, <1>5, <1>6

LEMMA ProfileDisabled ==
    ASSUME NEW p \in Saved
    PROVE  /\ [p EXCEPT !.setting = FALSE] \in Saved
           /\ [p EXCEPT !.setting = FALSE].authority = p.authority
           /\ p # Storage!NoProfile => [p EXCEPT !.setting = FALSE] # Storage!NoProfile
<1>1. PICK b \in BOOLEAN : b = FALSE
  <2>1. FALSE \in BOOLEAN
    OBVIOUS
  <2> QED
    BY <2>1, Zenon
<1>2. [p EXCEPT !.setting = FALSE] = [p EXCEPT !.setting = b]
  BY <1>1, Zenon
<1>3. Storage!NoProfile = [authority |-> "deleted", setting |-> b]
  BY <1>1, Zenon DEF Storage!NoProfile
<1>4. CASE p \in Storage!Profiles
  <2>1. /\ [p EXCEPT !.setting = b] \in Storage!Profiles
        /\ [p EXCEPT !.setting = b].authority = p.authority
    BY <1>4 DEF Storage!Profiles
  <2> QED
    BY <1>2, <2>1, SavedIs
<1>5. CASE p = Storage!NoProfile
  <2>1. [p EXCEPT !.setting = b] = Storage!NoProfile
    BY <1>3, <1>5
  <2> QED
    BY <1>2, <1>5, <2>1, SavedIs
<1> QED
  BY <1>4, <1>5 DEF Saved

LEMMA SaveUpdateKeeps ==
    ASSUME StorageInv, NEW u \in Requests, Storage!SaveUpdate(u)
    PROVE  StorageInv'
<1>0. PICK c : c = request[u].on
  OBVIOUS
<1>1. /\ request[u].at \in {"update", "authorize"} /\ Holds(u)
      /\ UNCHANGED <<published, instance, inputs, given, retiring, sharing, membership,
                     context, departing, leaving, unclean, troubled>>
  BY DEF Storage!SaveUpdate, Storage!manager, Holds, Changing
<1>2. /\ c \in Computers /\ lease[c] = u /\ c \notin troubled /\ Alone(u, c)
      /\ published[c] # Storage!NoProfile /\ published[c] = profile[c]
      /\ instance[c] = "here" /\ inputs[c] = given[c] /\ c \notin retiring
      /\ profile[c] \in Storage!Profiles
  <2>1. request[u].at \notin {"apply", "authorized", "commit"} /\ request[u].at \notin Deleting
    BY <1>1 DEF Deleting
  <2>2. profile[c] \in Saved
    BY <1>0, <1>1, HolderAlone, StorageTyped
  <2> QED
    BY <1>0, <1>1, <2>1, <2>2, HolderAlone, HeldIs, SavedIs
<1>3. ComputerRests(c)
  BY <1>2 DEF StorageInv, ComputerKept
<1>4. CASE /\ \E p \in IF Storage!At(u, "authorize")
                       THEN {[profile[c] EXCEPT !.authority = "active"]}
                       ELSE {Storage!Renamed(profile[c]), Storage!Deselected(profile[c])} :
                 profile' = [profile EXCEPT ![c] = p]
           /\ request' = [request EXCEPT ![u].read = profile[c],
                              ![u].at = IF @ = "update" THEN "apply" ELSE "authorized"]
           /\ UNCHANGED lease
  <2>1. PICK p : /\ profile' = [profile EXCEPT ![c] = p]
                 /\ p \in IF request[u].at = "authorize"
                          THEN {[profile[c] EXCEPT !.authority = "active"]}
                          ELSE {Storage!Renamed(profile[c]), Storage!Deselected(profile[c])}
    BY <1>4 DEF Storage!At
  <2>2. p \in Storage!Profiles
    BY <1>2, <2>1, ProfilesChange
  <2>3. PICK a : a = IF request[u].at = "update" THEN "apply" ELSE "authorized"
    OBVIOUS
  <2>4. RequestIs(u, a, c, request[u].from, profile[c], request[u].had)
    <3>1. request' = [request EXCEPT ![u].read = profile[c], ![u].at = a]
      BY <1>4, <2>3, StorageTyped
    <3>2. a \in Points /\ profile[c] \in Saved
      BY <1>2, <2>3, SavedIs DEF Points, Changing
    <3> QED
      BY <1>0, <3>1, <3>2, RequestReads
  <2>5. /\ profile' \in [Computers -> Saved] /\ profile'[c] = p
        /\ \A d \in Computers \ {c} : profile'[d] = profile[d]
    BY <1>2, <2>1, <2>2, SavedIs, StorageTyped
  <2>6. StorageTypes'
    BY <1>1, <1>4, <2>4, <2>5, StorageTyped DEF StorageTypes, RequestIs
  <2>7. Touches(u, c)
    BY <1>1, <2>4, <2>5 DEF Touches, RequestIs
  <2>8. LeasesKept(u)
    BY <1>2, <1>4, LeaseKept
  <2>9. Names(u, c) /\ Sources(u, c)
    BY <1>1, <1>2, <2>4 DEF Names, Sources, RequestIs
  <2>10. CommandKept(u)'
    <3>1. a = "authorized" => context = "in"
      <4>1. a = "authorized" => request[u].at = "authorize"
        BY <1>1, <2>3
      <4> QED
        BY <1>1, <4>1 DEF StorageInv, CommandKept, HolderKept
    <3>2. HolderKept(u)'
      BY <1>1, <1>2, <1>4, <2>2, <2>3, <2>4, <2>5, <3>1, SavedIs
         DEF HolderKept, RequestIs, Deleting
    <3>3. a \in {"apply", "authorized"}
      BY <2>3
    <3> QED
      BY <2>4, <3>2, <3>3 DEF CommandKept, CreatorKept, CopierKept, InTransit, Creating,
         Copying, RequestIs
  <2>11. ComputerKept(c)'
    <3>1. \A t \in Requests : request'[t].on = c => request'[t].at \notin Deleting
      BY <1>2, <2>3, <2>4 DEF RequestIs, Alone, Holds, Deleting
    <3>2. ~(\A t \in Requests : request'[t].on = c =>
                request'[t].at \notin {"apply", "authorized", "commit"})
      BY <2>3, <2>4 DEF RequestIs
    <3>3. ComputerWhole(c)'
      BY <1>1, <1>2, <3>1, <3>2 DEF ComputerWhole
    <3>4. ComputerRests(c)'
      <4>1. CASE request[u].at = "authorize"
        <5>1. context = "in"
          BY <1>1, <4>1 DEF StorageInv, CommandKept, HolderKept
        <5> QED
          BY <1>1, <5>1 DEF ComputerRests, Departs
      <4>2. CASE request[u].at # "authorize"
        <5>1. p.authority \in {profile[c].authority} \/ p.authority # "active"
          BY <1>2, <2>1, <4>2, ProfilesChange
        <5> QED
          BY <1>1, <1>3, <2>5, <5>1 DEF ComputerRests, Departs
      <4> QED
        BY <4>1, <4>2
    <3> QED
      BY <3>3, <3>4 DEF ComputerKept
  <2>12. request[u].on = c
    BY <1>0
  <2> QED
    BY <1>2, <2>6, <2>7, <2>8, <2>9, <2>10, <2>11, <2>12, CommandStep
<1>5. CASE Storage!Finish(u) /\ Storage!Unlock(c) /\ UNCHANGED profile
  <2>1. Touches(u, c)
    BY <1>1, <1>5, RequestEnds DEF Touches, RequestIs
  <2>2. ComputerWhole(c)'
    BY <1>1, <1>2, <1>5 DEF ComputerWhole
  <2>3. ComputerRests(c)'
    BY <1>1, <1>3, <1>5 DEF ComputerRests, Departs
  <2> QED
    BY <1>0, <1>1, <1>2, <1>5, <2>1, <2>2, <2>3, StorageTyped, HolderEnds DEF ComputerKept
<1> QED
  BY <1>0, <1>4, <1>5 DEF Storage!SaveUpdate

LEMMA ApplyUpdateKeeps ==
    ASSUME StorageInv, NEW u \in Requests, Storage!ApplyUpdate(u)
    PROVE  StorageInv'
<1>0. PICK c : c = request[u].on
  OBVIOUS
<1>1. /\ request[u].at \in {"apply", "authorized"} /\ Holds(u)
      /\ Storage!Finish(u) /\ Storage!Unlock(c)
      /\ UNCHANGED <<instance, inputs, given, retiring, sharing, membership,
                     context, departing, leaving, unclean>>
  BY <1>0 DEF Storage!ApplyUpdate, Storage!manager, Holds, Changing
<1>2. /\ c \in Computers /\ c \notin troubled
      /\ published[c] # Storage!NoProfile /\ published[c] = request[u].read
      /\ instance[c] = "here" /\ inputs[c] = given[c] /\ c \notin retiring
      /\ profile[c] # Storage!NoProfile
  <2>1. request[u].at \notin Deleting
    BY <1>1 DEF Deleting
  <2>2. HolderKept(u)
    BY DEF StorageInv, CommandKept
  <2> QED
    BY <1>0, <1>1, <2>1, <2>2, HolderAlone, HeldIs DEF HolderKept
<1>3. ComputerRests(c)
  BY <1>2 DEF StorageInv, ComputerKept
<1>4. \/ /\ published' = [published EXCEPT ![c] = profile[c]]
         /\ UNCHANGED <<profile, troubled>>
      \/ /\ profile' = [profile EXCEPT ![c] = published[c]]
         /\ UNCHANGED <<published, troubled>>
      \/ troubled' = troubled \cup {c} /\ UNCHANGED <<profile, published>>
  BY <1>0, <1>2 DEF Storage!ApplyUpdate, Storage!RestoreProfile, Storage!Report
<1>5. /\ profile' \in [Computers -> Saved] /\ published' \in [Computers -> Saved]
      /\ troubled' \subseteq Computers
      /\ \A d \in Computers \ {c} : /\ profile'[d] = profile[d] /\ published'[d] = published[d]
                                    /\ d \in troubled' <=> d \in troubled
      /\ published'[c] # Storage!NoProfile
      /\ c \notin troubled' => published'[c] = profile'[c]
      /\ published'[c] \in {published[c], profile[c]}
      /\ profile'[c] \in {published[c], profile[c]}
  <2>1. profile[c] \in Saved /\ published[c] \in Saved
    BY <1>2, StorageTyped
  <2> QED
    BY <1>2, <1>4, <2>1, StorageTyped
<1>6. Touches(u, c)
  BY <1>1, <1>5, RequestEnds DEF Touches, RequestIs
<1>7. ComputerWhole(c)'
  BY <1>1, <1>2, <1>5 DEF ComputerWhole
<1>8. ComputerRests(c)'
  BY <1>1, <1>2, <1>3, <1>5 DEF ComputerRests, Departs
<1> QED
  BY <1>0, <1>1, <1>5, <1>6, <1>7, <1>8, StorageTyped, HolderEnds DEF ComputerKept

\* A failure of the command line disables it: in what is saved, then in what is published.
LEMMA DisableKeeps ==
    ASSUME StorageInv, NEW u \in Requests, NEW c \in Computers, lease[c] = NoRequest,
           published[c] # Storage!NoProfile, Storage!DisableCommandLine(c),
           UNCHANGED <<instance, inputs, given, retiring, lease, membership,
                       context, departing, leaving, unclean>>,
           request' \in [Requests -> Commands],
           \A t \in Requests \ {u} : request'[t] = request[t],
           request'[u].at = "idle", request[u].at \in {"idle", "disable"},
           Names(u, c)
    PROVE  StorageInv'
<1> DEFINE p == [profile[c] EXCEPT !.setting = FALSE]
<1>1. p \in Saved /\ p.authority = profile[c].authority
      /\ (profile[c] # Storage!NoProfile => p # Storage!NoProfile)
  BY StorageTyped, ProfileDisabled
<1>2. \/ /\ profile' = [profile EXCEPT ![c] = p] /\ UNCHANGED troubled
         /\ published' = [published EXCEPT ![c] = profile'[c]]
      \/ /\ profile' = [profile EXCEPT ![c] = p] /\ UNCHANGED published
         /\ troubled' = troubled \cup {c}
      \/ UNCHANGED <<profile, published, troubled>>
  BY DEF Storage!DisableCommandLine, Storage!Report
<1> HIDE DEF p
<1>3. /\ profile' \in [Computers -> Saved] /\ published' \in [Computers -> Saved]
      /\ troubled' \subseteq Computers
      /\ \A d \in Computers \ {c} : /\ profile'[d] = profile[d] /\ published'[d] = published[d]
                                    /\ d \in troubled' <=> d \in troubled
      /\ published'[c] = published[c] \/ published'[c] = profile'[c]
      /\ profile'[c].authority = profile[c].authority
      /\ c \notin troubled' =>
             /\ c \notin troubled
             /\ \/ published'[c] = profile'[c] /\ profile'[c] = p
                \/ published'[c] = published[c] /\ profile'[c] = profile[c]
  BY <1>1, <1>2, StorageTyped
<1>4. StorageTypes'
  BY <1>3, StorageTyped DEF StorageTypes
<1>5. Touches(u, c)
  BY <1>3 DEF Touches
<1>6. LeasesKept(u) /\ Alone(u, c)
  BY FreeIs, LeaseKept
<1>7. Sources(u, c)
  BY <1>3 DEF Sources
<1>8. CommandKept(u)'
  BY IdleKept
<1>9. ComputerWhole(c)'
  BY <1>1, <1>3, FreeIs DEF ComputerWhole
<1>10. ComputerRests(c)'
  BY <1>3 DEF StorageInv, ComputerKept, ComputerRests, Departs
<1>11. ~Holds(u)
  BY DEF Holds, Changing, Deleting
<1> QED
  BY <1>4, <1>5, <1>6, <1>7, <1>8, <1>9, <1>10, <1>11, CommandStep DEF ComputerKept

LEMMA BeginStartKeeps ==
    ASSUME StorageInv, NEW u \in Requests, Storage!BeginStart(u)
    PROVE  StorageInv'
<1>1. request[u].at = "idle"
      /\ UNCHANGED <<instance, inputs, given, retiring, lease, membership,
                     context, departing, leaving, unclean>>
  BY DEF Storage!BeginStart, Storage!At, Storage!manager
<1>2. PICK c \in Computers :
         /\ published[c] # Storage!NoProfile /\ c \notin troubled /\ lease[c] = NoRequest
         /\ \/ /\ published' = [published EXCEPT ![c] = profile[c]]
               /\ request' = [request EXCEPT ![u].at = "prompt", ![u].on = c]
               /\ UNCHANGED <<profile, troubled>>
            \/ Storage!DisableCommandLine(c) /\ UNCHANGED request
  BY DEF Storage!BeginStart, Storage!Usable, Storage!IsPublished
<1>3. CASE /\ published' = [published EXCEPT ![c] = profile[c]]
           /\ request' = [request EXCEPT ![u].at = "prompt", ![u].on = c]
           /\ UNCHANGED <<profile, troubled>>
  <2>1. UNCHANGED published
    BY <1>2, <1>3, FreeIs, StorageTyped
  <2>2. RequestIs(u, "prompt", c, request[u].from, request[u].read, request[u].had)
    BY <1>3, RequestTakes DEF Points
  <2>3. Names(u, Absent)
    BY <1>2, <2>2 DEF Names, RequestIs
  <2>4. CommandKept(u)'
    BY <2>2, IdleKept DEF RequestIs
  <2>5. ~Holds(u)
    BY <1>1 DEF Holds, Changing, Deleting
  <2> QED
    BY <1>1, <1>3, <2>1, <2>2, <2>3, <2>4, <2>5, StorageTyped, NothingChanges
<1>4. CASE Storage!DisableCommandLine(c) /\ UNCHANGED request
  <2>1. Names(u, c)
    BY <1>4 DEF Names
  <2> QED
    BY <1>1, <1>2, <1>4, <2>1, StorageTyped, DisableKeeps
<1> QED
  BY <1>2, <1>3, <1>4

LEMMA EndPromptKeeps ==
    ASSUME StorageInv, NEW u \in Requests, Storage!EndPrompt(u)
    PROVE  StorageInv'
<1>1. /\ request[u].at = "prompt" /\ ~Holds(u)
      /\ UNCHANGED <<profile, published, instance, inputs, given, retiring, lease, membership,
                     context, departing, leaving, unclean, troubled>>
  BY DEF Storage!EndPrompt, Storage!At, Storage!manager, Storage!disk, Holds, Changing,
     Deleting
<1>2. request[u].on \in Computers
  BY <1>1 DEF StorageInv, CommandKept
<1>3. CASE Storage!Finish(u)
  <2>1. RequestIs(u, "idle", Absent, Absent, Storage!NoProfile, {})
    BY <1>3, RequestEnds
  <2>2. Names(u, Absent) /\ CommandKept(u)'
    BY <2>1, IdleKept DEF Names, RequestIs
  <2> QED
    BY <1>1, <2>1, <2>2, StorageTyped, NothingChanges
<1>4. CASE Storage!Go(u, "disable")
  <2>1. RequestIs(u, "disable", request[u].on, request[u].from, request[u].read,
                  request[u].had)
    BY <1>4, RequestGoes DEF Points, Storage!Go
  <2>2. Names(u, Absent) /\ CommandKept(u)'
    BY <1>2, <2>1, IdleKept DEF Names, RequestIs
  <2> QED
    BY <1>1, <2>1, <2>2, StorageTyped, NothingChanges
<1> QED
  BY <1>3, <1>4 DEF Storage!EndPrompt

LEMMA EndStartKeeps ==
    ASSUME StorageInv, NEW u \in Requests, Storage!EndStart(u)
    PROVE  StorageInv'
<1>1. /\ request[u].at = "disable" /\ lease[request[u].on] = NoRequest
      /\ Storage!Finish(u)
      /\ UNCHANGED <<instance, inputs, given, retiring, lease, membership,
                     context, departing, leaving, unclean>>
  BY DEF Storage!EndStart, Storage!At, Storage!manager, Storage!locks
<1>2. request[u].on \in Computers
  BY <1>1 DEF StorageInv, CommandKept
<1>3. RequestIs(u, "idle", Absent, Absent, Storage!NoProfile, {})
  BY <1>1, RequestEnds
<1>4. Names(u, request[u].on) /\ Names(u, Absent) /\ CommandKept(u)'
  BY <1>3, IdleKept DEF Names, RequestIs
<1>5. CASE published[request[u].on] # Storage!NoProfile
  <2>1. Storage!DisableCommandLine(request[u].on)
    BY <1>5 DEF Storage!EndStart, Storage!IsPublished
  <2> QED
    BY <1>1, <1>2, <1>3, <1>4, <1>5, <2>1, DisableKeeps DEF RequestIs
<1>6. CASE published[request[u].on] = Storage!NoProfile
  <2>1. UNCHANGED <<profile, published, troubled>>
    BY <1>6 DEF Storage!EndStart, Storage!IsPublished
  <2>2. ~Holds(u)
    BY <1>1 DEF Holds, Changing, Deleting
  <2> QED
    BY <1>1, <1>3, <1>4, <2>1, <2>2, StorageTyped, NothingChanges
<1> QED
  BY <1>5, <1>6

LEMMA LeasesStay ==
    ASSUME StorageInv, NEW u \in Requests, UNCHANGED lease
    PROVE  LeasesKept(u)
<1>1. \A t \in Requests : HolderKept(t) /\ CopierKept(t)
  BY DEF StorageInv, CommandKept
<1> QED
  BY <1>1 DEF LeasesKept, HolderKept, CopierKept, Copying

\* The Computer a command creates: nobody else names it, and it has nothing yet.
LEMMA FreshIs ==
    ASSUME StorageInv, NEW u \in Requests, NEW c \in Computers, Storage!Fresh(c)
    PROVE  /\ c \notin troubled /\ published[c] = Storage!NoProfile
           /\ inputs[c] = {} /\ given[c] = {} /\ c \notin retiring
           /\ \A t \in Requests : c \notin {request[t].on, request[t].from}
           /\ Alone(u, c)
<1>1. /\ profile[c] = Storage!NoProfile /\ c \notin troubled
      /\ \A t \in Requests : c \notin {request[t].on, request[t].from}
  BY DEF Storage!Fresh
<1>2. ComputerWhole(c)
  BY DEF StorageInv, ComputerKept
<1> QED
  BY <1>1, <1>2 DEF ComputerWhole, Alone

\* Nothing published differs in a Computer that is being created.
LEMMA TransitKept ==
    ASSUME StorageInv, NEW c \in Computers, c \notin troubled,
           published[c] = Storage!NoProfile, published'[c] = Storage!NoProfile,
           inputs'[c] \in {inputs[c], {}}, given'[c] \in {given[c], {}}, UNCHANGED retiring
    PROVE  ComputerKept(c)'
<1>1. ComputerWhole(c)
  BY DEF StorageInv, ComputerKept
<1>2. inputs[c] = {} /\ given[c] = {} /\ c \notin retiring
  BY <1>1 DEF ComputerWhole
<1>3. ComputerWhole(c)'
  BY <1>2 DEF ComputerWhole
<1>4. ComputerRests(c)'
  BY DEF ComputerRests
<1> QED
  BY <1>3, <1>4 DEF ComputerKept

LEMMA CreationUndone ==
    ASSUME StorageInv, NEW u \in Requests, InTransit(u),
           Storage!RollBackCreation(u, request[u].on), LeasesKept(u),
           lease' \in [Computers -> Requests \cup {NoRequest}],
           membership' \in Requests \cup {NoRequest},
           UNCHANGED <<published, retiring, context, departing, leaving, unclean>>
    PROVE  StorageInv'
<1>0. PICK c : c = request[u].on
  OBVIOUS
<1>1. /\ c \in Computers /\ c \notin troubled /\ published[c] = Storage!NoProfile
      /\ Alone(u, c) /\ \A t \in Requests \ {u} : c \notin {request[t].on, request[t].from}
  BY <1>0, CreatorAlone
<1>2. /\ profile' = profile \/ profile' = [profile EXCEPT ![c] = Storage!NoProfile]
      /\ instance' = instance \/ instance' = [instance EXCEPT ![c] = "none"]
      /\ troubled' = troubled \/ troubled' = troubled \cup {c}
      /\ inputs' = [inputs EXCEPT ![c] = {}] /\ given' = [given EXCEPT ![c] = {}]
      /\ Storage!Finish(u)
  BY <1>0 DEF Storage!RollBackCreation, Storage!Report
<1>3. /\ profile' \in [Computers -> Saved]
      /\ instance' \in [Computers -> {"none", "here", "trash"}]
      /\ inputs' \in [Computers -> SUBSET Storage!InputKinds]
      /\ given' \in [Computers -> SUBSET Storage!InputKinds]
      /\ inputs'[c] = {} /\ given'[c] = {}
      /\ \A d \in Computers \ {c} :
             /\ profile'[d] = profile[d] /\ instance'[d] = instance[d]
             /\ inputs'[d] = inputs[d] /\ given'[d] = given[d]
             /\ d \in troubled' <=> d \in troubled
  BY <1>1, <1>2, StorageTyped, SavedIs
<1>4. RequestIs(u, "idle", Absent, Absent, Storage!NoProfile, {})
  BY <1>2, RequestEnds
<1>5. StorageTypes'
  BY <1>1, <1>2, <1>3, <1>4, StorageTyped DEF StorageTypes, RequestIs
<1>6. Touches(u, c)
  BY <1>3, <1>4 DEF Touches, RequestIs
<1>7. Names(u, c) /\ Sources(u, c) /\ CommandKept(u)'
  BY <1>1, <1>4, IdleKept DEF Names, Sources, RequestIs
<1>8. ComputerKept(c)'
  BY <1>1, <1>3, TransitKept
<1> QED
  BY <1>0, <1>1, <1>5, <1>6, <1>7, <1>8, CommandStep

LEMMA CreateProfileKeeps ==
    ASSUME StorageInv, NEW u \in Requests, Storage!CreateProfile(u)
    PROVE  StorageInv'
<1>1. /\ request[u].at = "idle" /\ ~Holds(u)
      /\ UNCHANGED <<inputs, published, given, retiring, lease, membership, troubled,
                     context, departing, leaving, unclean>>
  BY DEF Storage!CreateProfile, Storage!At, Storage!locks, Storage!manager, Holds, Changing,
     Deleting
<1>2. PICK c \in Computers :
         /\ Storage!Fresh(c)
         /\ profile' = [profile EXCEPT ![c] = [Storage!NoProfile EXCEPT !.authority = "none"]]
         /\ instance' = [instance EXCEPT ![c] = "here"]
         /\ request' = [request EXCEPT ![u].at = "createApply", ![u].on = c]
  BY DEF Storage!CreateProfile
<1>3. PICK q : q = [Storage!NoProfile EXCEPT !.authority = "none"]
  OBVIOUS
<1>4. q \in Saved /\ q # Storage!NoProfile /\ q.authority = "none"
  <2>1. PICK b \in BOOLEAN : b = FALSE
    <3>1. FALSE \in BOOLEAN
      OBVIOUS
    <3> QED
      BY <3>1, Zenon
  <2>2. Storage!NoProfile = [authority |-> "deleted", setting |-> b]
    BY <2>1, Zenon DEF Storage!NoProfile
  <2>3. q = [authority |-> "none", setting |-> b]
    BY <1>3, <2>2
  <2>4. q \in Storage!Profiles
    BY <2>3 DEF Storage!Profiles
  <2> QED
    BY <2>3, <2>4, SavedIs
<1>5. RequestIs(u, "createApply", c, request[u].from, request[u].read, request[u].had)
  <2>1. "createApply" \in Points
    BY DEF Points, Creating
  <2> QED
    BY <1>2, <2>1, RequestTakes
<1>6. /\ profile' \in [Computers -> Saved] /\ profile'[c] = q
      /\ instance' \in [Computers -> {"none", "here", "trash"}] /\ instance'[c] = "here"
      /\ \A d \in Computers \ {c} : profile'[d] = profile[d] /\ instance'[d] = instance[d]
  BY <1>2, <1>3, <1>4, StorageTyped
<1>7. StorageTypes'
  BY <1>1, <1>5, <1>6, StorageTyped DEF StorageTypes, RequestIs
<1>8. Touches(u, c)
  BY <1>1, <1>5, <1>6 DEF Touches, RequestIs
<1>9. Alone(u, c) /\ LeasesKept(u)
  BY <1>1, <1>2, FreshIs, LeasesStay
<1>10. Names(u, c) /\ Sources(u, c)
  BY <1>2, <1>5, FreshIs DEF Names, Sources, RequestIs
<1>11. CommandKept(u)'
  <2>1. CreatorKept(u)'
    BY <1>1, <1>2, <1>4, <1>5, <1>6, FreshIs DEF CreatorKept, RequestIs
  <2> QED
    BY <1>5, <2>1 DEF CommandKept, HolderKept, CopierKept, Holds, Changing, Deleting, Copying,
       RequestIs
<1>12. ComputerKept(c)'
  BY <1>1, <1>2, FreshIs, TransitKept
<1> QED
  BY <1>1, <1>7, <1>8, <1>9, <1>10, <1>11, <1>12, CommandStep

LEMMA CreateApplyKeeps ==
    ASSUME StorageInv, NEW u \in Requests, Storage!CreateApply(u)
    PROVE  StorageInv'
<1>1. /\ request[u].at = "createApply" /\ InTransit(u) /\ ~Holds(u)
      /\ UNCHANGED <<published, retiring, lease, membership,
                     context, departing, leaving, unclean>>
  BY DEF Storage!CreateApply, Storage!At, Storage!locks, Storage!manager, Holds, InTransit,
     Changing, Deleting, Creating
<1>2. CASE /\ Storage!Go(u, "createPublish")
           /\ UNCHANGED <<profile, instance, inputs, given, troubled>>
  <2>1. RequestIs(u, "createPublish", request[u].on, request[u].from, request[u].read,
                  request[u].had)
    <3>1. "createPublish" \in Points
      BY DEF Points, Creating
    <3> QED
      BY <1>2, <3>1, RequestGoes DEF Storage!Go
  <2>2. Names(u, Absent)
    BY <2>1 DEF Names, RequestIs
  <2>3. CreatorKept(u)
    BY DEF StorageInv, CommandKept
  <2>4. CreatorKept(u)'
    BY <1>1, <1>2, <2>1, <2>3 DEF CreatorKept, RequestIs, InTransit, Creating
  <2>5. CommandKept(u)'
    BY <2>1, <2>4 DEF CommandKept, HolderKept, CopierKept, Holds, Changing, Deleting, Copying,
       RequestIs
  <2> QED
    BY <1>1, <1>2, <2>1, <2>2, <2>5, StorageTyped, NothingChanges
<1>3. CASE Storage!RollBackCreation(u, request[u].on)
  BY <1>1, <1>3, StorageTyped, LeasesStay, CreationUndone
<1> QED
  BY <1>2, <1>3 DEF Storage!CreateApply

LEMMA CreatePublishKeeps ==
    ASSUME StorageInv, NEW u \in Requests, Storage!CreatePublish(u)
    PROVE  StorageInv'
<1>0. PICK c : c = request[u].on
  OBVIOUS
<1>1. /\ request[u].at = "createPublish" /\ InTransit(u) /\ ~Holds(u)
      /\ UNCHANGED <<retiring, lease, membership, context, departing, leaving, unclean>>
  BY DEF Storage!CreatePublish, Storage!At, Storage!locks, Storage!manager, Holds, InTransit,
     Changing, Deleting, Creating
<1>2. CASE /\ published' = [published EXCEPT ![c] = profile[c]] /\ Storage!Finish(u)
           /\ UNCHANGED <<profile, instance, inputs, given, troubled>>
  <2>1. /\ c \in Computers /\ c \notin troubled /\ published[c] = Storage!NoProfile
        /\ Alone(u, c) /\ \A t \in Requests \ {u} : c \notin {request[t].on, request[t].from}
    BY <1>0, <1>1, CreatorAlone
  <2>2. CreatorKept(u) /\ ComputerWhole(c)
    BY <2>1 DEF StorageInv, CommandKept, ComputerKept
  <2>3. /\ instance[c] = "here" /\ profile[c].authority = "none"
        /\ inputs[c] = {} /\ given[c] = {} /\ c \notin retiring
    BY <1>0, <1>1, <2>1, <2>2 DEF CreatorKept, ComputerWhole, Creating
  <2>4. RequestIs(u, "idle", Absent, Absent, Storage!NoProfile, {})
    BY <1>2, RequestEnds
  <2>5. /\ published' \in [Computers -> Saved] /\ published'[c] = profile[c]
        /\ \A d \in Computers \ {c} : published'[d] = published[d]
    BY <1>2, <2>1, StorageTyped
  <2>6. StorageTypes'
    BY <1>1, <1>2, <2>4, <2>5, StorageTyped DEF StorageTypes, RequestIs
  <2>7. Touches(u, c)
    BY <1>1, <1>2, <2>4, <2>5 DEF Touches, RequestIs
  <2>8. Names(u, c) /\ Sources(u, c) /\ CommandKept(u)' /\ LeasesKept(u)
    BY <1>1, <2>1, <2>4, IdleKept, LeasesStay DEF Names, Sources, RequestIs
  <2>9. ComputerKept(c)'
    BY <1>1, <1>2, <2>3, <2>5 DEF ComputerKept, ComputerWhole, ComputerRests
  <2> QED
    BY <1>0, <2>1, <2>6, <2>7, <2>8, <2>9, CommandStep
<1>3. CASE Storage!RollBackCreation(u, c) /\ UNCHANGED published
  BY <1>0, <1>1, <1>3, StorageTyped, LeasesStay, CreationUndone
<1> QED
  BY <1>0, <1>2, <1>3 DEF Storage!CreatePublish

LEMMA DuplicateReadKeeps ==
    ASSUME StorageInv, NEW u \in Requests, Storage!DuplicateRead(u)
    PROVE  StorageInv'
<1>1. /\ request[u].at = "idle" /\ ~Holds(u)
      /\ UNCHANGED <<inputs, instance, published, given, retiring, lease, membership, troubled,
                     context, departing, leaving, unclean>>
  BY DEF Storage!DuplicateRead, Storage!At, Storage!locks, Storage!manager, Holds, Changing,
     Deleting
<1>2. PICK src \in Computers, c \in Computers :
         /\ published[src] # Storage!NoProfile /\ src \notin troubled
         /\ lease[src] = NoRequest /\ Storage!Fresh(c)
         /\ request' = [request EXCEPT ![u] = [at |-> "copy", on |-> c, from |-> src,
                            read |-> [profile[src] EXCEPT !.setting = FALSE], had |-> {}]]
         /\ profile' = [profile EXCEPT ![c] = request'[u].read]
  BY DEF Storage!DuplicateRead, Storage!Usable, Storage!IsPublished
<1>3. PICK q : q = [profile[src] EXCEPT !.setting = FALSE]
  OBVIOUS
<1>4. q \in Saved /\ q # Storage!NoProfile
  <2>1. profile[src] \in Saved /\ profile[src] # Storage!NoProfile
    BY <1>2, FreeIs, StorageTyped
  <2> QED
    BY <1>3, <2>1, ProfileDisabled
<1>5. RequestIs(u, "copy", c, src, q, {})
  <2> DEFINE n == [at |-> "copy", on |-> c, from |-> src, read |-> q, had |-> {}]
  <2>1. n \in Commands
    BY <1>4 DEF Commands, Copying
  <2>2. request' = [request EXCEPT ![u] = n]
    BY <1>2, <1>3
  <2> HIDE DEF n
  <2>3. RequestIs(u, n.at, n.on, n.from, n.read, n.had)
    BY <2>1, <2>2, RequestPut
  <2> QED
    BY <2>3 DEF n
<1>6. /\ profile' \in [Computers -> Saved] /\ profile'[c] = q
      /\ \A d \in Computers \ {c} : profile'[d] = profile[d]
  BY <1>2, <1>4, <1>5, StorageTyped DEF RequestIs
<1>7. StorageTypes'
  BY <1>1, <1>5, <1>6, StorageTyped DEF StorageTypes, RequestIs
<1>8. Touches(u, c)
  BY <1>1, <1>5, <1>6 DEF Touches, RequestIs
<1>9. Alone(u, c) /\ LeasesKept(u)
  BY <1>1, <1>2, FreshIs, LeasesStay
<1>10. Names(u, c) /\ Sources(u, c)
  BY <1>2, <1>5, FreshIs DEF Names, Sources, RequestIs
<1>11. CommandKept(u)'
  <2>1. CreatorKept(u)'
    BY <1>1, <1>2, <1>4, <1>5, <1>6, FreshIs DEF CreatorKept, Creating, RequestIs
  <2>2. CopierKept(u)'
    BY <1>1, <1>2, <1>5 DEF CopierKept, RequestIs
  <2> QED
    BY <1>5, <2>1, <2>2 DEF CommandKept, HolderKept, Holds, Changing, Deleting, RequestIs
<1>12. ComputerKept(c)'
  BY <1>1, <1>2, FreshIs, TransitKept
<1> QED
  BY <1>1, <1>7, <1>8, <1>9, <1>10, <1>11, <1>12, CommandStep

LEMMA DuplicateCopyKeeps ==
    ASSUME StorageInv, NEW u \in Requests, Storage!DuplicateCopy(u)
    PROVE  StorageInv'
<1>0. PICK c : c = request[u].on
  OBVIOUS
<1>1. /\ request[u].at = "copy" /\ InTransit(u) /\ ~Holds(u)
      /\ UNCHANGED <<published, retiring, lease, membership,
                     context, departing, leaving, unclean>>
  BY DEF Storage!DuplicateCopy, Storage!At, Storage!locks, Storage!manager, Holds, InTransit,
     Changing, Deleting, Copying
<1>2. CASE /\ instance' = [instance EXCEPT ![c] = "here"] /\ Storage!Go(u, "join")
           /\ UNCHANGED <<profile, inputs, given, troubled>>
  <2>1. /\ c \in Computers /\ c \notin troubled /\ published[c] = Storage!NoProfile
        /\ Alone(u, c) /\ \A t \in Requests \ {u} : c \notin {request[t].on, request[t].from}
    BY <1>0, <1>1, CreatorAlone
  <2>2. RequestIs(u, "join", c, request[u].from, request[u].read, request[u].had)
    <3>1. "join" \in Points
      BY DEF Points, Copying
    <3> QED
      BY <1>0, <1>2, <3>1, RequestGoes DEF Storage!Go
  <2>3. /\ instance' \in [Computers -> {"none", "here", "trash"}] /\ instance'[c] = "here"
        /\ \A d \in Computers \ {c} : instance'[d] = instance[d]
    BY <1>2, <2>1, StorageTyped
  <2>4. StorageTypes'
    BY <1>1, <1>2, <2>2, <2>3, StorageTyped DEF StorageTypes, RequestIs
  <2>5. Touches(u, c)
    BY <1>1, <1>2, <2>2, <2>3 DEF Touches, RequestIs
  <2>6. Names(u, c) /\ Sources(u, c) /\ LeasesKept(u)
    BY <1>1, <2>1, <2>2, LeasesStay DEF Names, Sources, RequestIs
  <2>7. CreatorKept(u) /\ CopierKept(u)
    BY DEF StorageInv, CommandKept
  <2>8. CreatorKept(u)' /\ CopierKept(u)'
    BY <1>0, <1>1, <1>2, <2>1, <2>2, <2>3, <2>7
       DEF CreatorKept, CopierKept, RequestIs, InTransit, Creating, Copying
  <2>9. CommandKept(u)'
    BY <2>2, <2>8 DEF CommandKept, HolderKept, Holds, Changing, Deleting, RequestIs
  <2>10. ComputerKept(c)'
    BY <1>1, <1>2, <2>1, TransitKept
  <2> QED
    BY <1>0, <2>1, <2>4, <2>5, <2>6, <2>9, <2>10, CommandStep
<1>3. CASE Storage!RollBackCreation(u, c)
  BY <1>0, <1>1, <1>3, StorageTyped, LeasesStay, CreationUndone
<1> QED
  BY <1>0, <1>2, <1>3 DEF Storage!DuplicateCopy, Storage!CopyStorage

LEMMA DuplicateJoinKeeps ==
    ASSUME StorageInv, NEW u \in Requests, Storage!DuplicateJoin(u)
    PROVE  StorageInv'
<1>1. /\ request[u].at \in {"join", "joinSource"} /\ InTransit(u) /\ ~Holds(u)
      /\ UNCHANGED <<profile, published, instance, inputs, given, retiring, troubled,
                     context, departing, leaving, unclean>>
  BY DEF Storage!DuplicateJoin, Storage!At, Storage!disk, Storage!manager, Holds, InTransit,
     Changing, Deleting, Copying
<1>2. CreatorKept(u) /\ CopierKept(u)
  BY DEF StorageInv, CommandKept
<1>3. ASSUME NEW p \in {"joinSource", "refresh"},
             RequestIs(u, p, request[u].on, request[u].from, request[u].read, request[u].had),
             p = "refresh" => lease'[request[u].from] = u
      PROVE  Names(u, Absent) /\ CommandKept(u)'
  <2>1. Names(u, Absent)
    BY <1>3 DEF Names, RequestIs
  <2>2. CreatorKept(u)' /\ CopierKept(u)'
    BY <1>1, <1>2, <1>3 DEF CreatorKept, CopierKept, RequestIs, InTransit, Creating, Copying
  <2> QED
    BY <1>3, <2>1, <2>2 DEF CommandKept, HolderKept, Holds, Changing, Deleting, RequestIs
<1>4. "joinSource" \in Points /\ "refresh" \in Points
  BY DEF Points, Copying
<1>5. CASE /\ membership' = u /\ Storage!Go(u, "joinSource") /\ UNCHANGED lease
  <2>1. RequestIs(u, "joinSource", request[u].on, request[u].from, request[u].read,
                  request[u].had)
    BY <1>4, <1>5, RequestGoes DEF Storage!Go
  <2>2. Names(u, Absent) /\ CommandKept(u)'
    BY <1>3, <2>1
  <2> QED
    BY <1>1, <1>5, <2>1, <2>2, NothingChanges
<1>6. CASE /\ Storage!Lock(u, request[u].from) /\ Storage!Go(u, "refresh")
           /\ UNCHANGED membership
  <2>1. RequestIs(u, "refresh", request[u].on, request[u].from, request[u].read,
                  request[u].had)
    BY <1>4, <1>6, RequestGoes DEF Storage!Go
  <2>2. PICK s : s = request[u].from
    OBVIOUS
  <2>3. s \in Computers /\ lease[s] = NoRequest
    BY <1>1, <1>2, <1>6, <2>2 DEF CopierKept, Copying, Storage!Lock
  <2>4. /\ lease' \in [Computers -> Requests \cup {NoRequest}] /\ lease'[s] = u
        /\ \A d \in Computers \ {s} : lease'[d] = lease[d]
    BY <1>6, <2>2, <2>3, StorageTyped DEF Storage!Lock
  <2>5. Names(u, Absent) /\ CommandKept(u)'
    BY <1>3, <2>1, <2>2, <2>4
  <2>6. StorageTypes'
    BY <1>1, <1>6, <2>1, <2>4, StorageTyped DEF StorageTypes, RequestIs
  <2>7. Touches(u, Absent)
    BY <1>1, <2>1 DEF Touches, RequestIs
  <2>8. LeasesKept(u)
    BY <2>3, <2>4, LeaseKept
  <2>9. Alone(u, Absent) /\ Sources(u, Absent)
    <3>1. \A t \in Requests : HolderKept(t) /\ CreatorKept(t) /\ CopierKept(t)
      BY DEF StorageInv, CommandKept
    <3> QED
      BY <3>1, StorageAssumed DEF Alone, Sources, HolderKept, CreatorKept, CopierKept
  <2> QED
    BY <1>1, <2>5, <2>6, <2>7, <2>8, <2>9, StorageAssumed, CommandStep
<1> QED
  BY <1>5, <1>6 DEF Storage!DuplicateJoin

\* What a duplicate inherits is the authority of its source, dormant during a departure.
LEMMA InheritedIs ==
    ASSUME StorageInv, NEW u \in Requests, request[u].on \in Computers,
           request[u].from \in Computers, profile[request[u].on] # Storage!NoProfile,
           profile[request[u].from] # Storage!NoProfile
    PROVE  /\ Storage!Inherited(u) \in Storage!Profiles
           /\ Storage!Inherited(u).authority = "active" =>
                  ~departing /\ profile[request[u].from].authority = "active"
<1>1. PICK l : l = [profile[request[u].on] EXCEPT
                       !.authority = profile[request[u].from].authority]
  OBVIOUS
<1>2. profile[request[u].on] \in Storage!Profiles /\ profile[request[u].from] \in Storage!Profiles
  BY StorageTyped, SavedIs
<1>3. l \in Storage!Profiles /\ l.authority = profile[request[u].from].authority
  BY <1>1, <1>2 DEF Storage!Profiles
<1>4. Storage!Inherited(u) = IF departing THEN Storage!MakeDormant(l) ELSE l
  BY <1>1 DEF Storage!Inherited
<1>5. CASE departing
  BY <1>3, <1>4, <1>5, ProfilesChange
<1>6. CASE ~departing
  BY <1>3, <1>4, <1>6
<1> QED
  BY <1>5, <1>6

LEMMA DuplicatePublishKeeps ==
    ASSUME StorageInv, NEW u \in Requests, Storage!DuplicatePublish(u)
    PROVE  StorageInv'
<1>0. PICK c, s : c = request[u].on /\ s = request[u].from
  OBVIOUS
<1>1. /\ request[u].at = "refresh" /\ InTransit(u) /\ ~Holds(u)
      /\ membership' = NoRequest /\ lease' = [lease EXCEPT ![s] = NoRequest]
      /\ UNCHANGED <<retiring, context, departing, leaving, unclean>>
  BY <1>0 DEF Storage!DuplicatePublish, Storage!At, Storage!Unlock, Storage!manager, Holds,
     InTransit, Changing, Deleting, Copying
<1>2. CreatorKept(u) /\ CopierKept(u)
  BY DEF StorageInv, CommandKept
<1>3. /\ s \in Computers /\ lease[s] = u
      /\ published[s] = Storage!NoProfile => profile[s] = Storage!NoProfile
  BY <1>0, <1>1, <1>2 DEF CopierKept, Copying
<1>4. /\ lease' \in [Computers -> Requests \cup {NoRequest}] /\ LeasesKept(u)
  <2>1. /\ lease' \in [Computers -> Requests \cup {NoRequest}]
        /\ \A d \in Computers \ {s} : lease'[d] = lease[d]
    BY <1>1, <1>3, StorageTyped
  <2> QED
    BY <1>3, <2>1, LeaseKept
<1>5. CASE /\ profile[s] # Storage!NoProfile
           /\ profile' = [profile EXCEPT ![c] = Storage!Inherited(u)]
           /\ published' = [published EXCEPT ![c] = profile'[c]]
           /\ Storage!Finish(u) /\ UNCHANGED <<instance, inputs, given, troubled>>
  <2>1. /\ c \in Computers /\ c \notin troubled /\ published[c] = Storage!NoProfile
        /\ profile[c] # Storage!NoProfile
        /\ Alone(u, c) /\ \A t \in Requests \ {u} : c \notin {request[t].on, request[t].from}
    BY <1>0, <1>1, CreatorAlone
  <2>2. ComputerWhole(c) /\ ComputerRests(s) /\ ContextKept
    BY <1>3, <2>1 DEF StorageInv, ComputerKept
  <2>3. /\ instance[c] = "here"
        /\ inputs[c] = {} /\ given[c] = {} /\ c \notin retiring
    BY <1>0, <1>1, <1>2, <2>1, <2>2 DEF CreatorKept, ComputerWhole
  <2>4. PICK q : q = Storage!Inherited(u)
    OBVIOUS
  <2>5. /\ q \in Saved /\ q # Storage!NoProfile
        /\ q.authority = "active" => ~departing /\ profile[s].authority = "active"
    BY <1>0, <1>3, <1>5, <2>1, <2>4, InheritedIs, SavedIs
  <2>6. RequestIs(u, "idle", Absent, Absent, Storage!NoProfile, {})
    BY <1>5, RequestEnds
  <2>7. /\ profile' \in [Computers -> Saved] /\ profile'[c] = q
        /\ published' \in [Computers -> Saved] /\ published'[c] = q
        /\ \A d \in Computers \ {c} :
               profile'[d] = profile[d] /\ published'[d] = published[d]
    BY <1>5, <2>1, <2>4, <2>5, StorageTyped
  <2>8. StorageTypes'
    BY <1>1, <1>4, <1>5, <2>6, <2>7, StorageTyped DEF StorageTypes, RequestIs
  <2>9. Touches(u, c)
    BY <1>1, <1>5, <2>6, <2>7 DEF Touches, RequestIs
  <2>10. Names(u, c) /\ Sources(u, c) /\ CommandKept(u)'
    BY <2>1, <2>6, IdleKept DEF Names, Sources, RequestIs
  <2>11. ComputerWhole(c)'
    BY <1>1, <1>5, <2>3, <2>5, <2>7 DEF ComputerWhole
  <2>12. ComputerRests(c)'
    <3>1. SUFFICES ASSUME Departs, q.authority = "active" PROVE FALSE
      BY <1>1, <2>7 DEF ComputerRests, Departs
    <3>2. ~departing /\ profile[s].authority = "active"
      BY <2>5, <3>1
    <3>3. context = "out" /\ leaving = {}
      BY <2>2, <3>1, <3>2, StorageTyped DEF Departs, ContextKept
    <3> QED
      BY <1>3, <1>5, <2>2, <3>1, <3>2, <3>3 DEF ComputerRests
  <2> QED
    BY <1>0, <1>1, <1>4, <2>1, <2>8, <2>9, <2>10, <2>11, <2>12, CommandStep DEF ComputerKept
<1>6. CASE Storage!RollBackCreation(u, c) /\ UNCHANGED published
  BY <1>0, <1>1, <1>4, <1>6, StorageTyped, CreationUndone
<1> QED
  BY <1>0, <1>5, <1>6 DEF Storage!DuplicatePublish

LEMMA BeginDeleteKeeps ==
    ASSUME StorageInv, NEW u \in Requests, Storage!BeginDelete(u)
    PROVE  StorageInv'
<1>1. PICK c \in Computers :
         /\ published[c] # Storage!NoProfile /\ c \notin troubled
         /\ lease[c] = NoRequest /\ lease' = [lease EXCEPT ![c] = u]
         /\ retiring' = retiring \cup {c}
         /\ request' = [request EXCEPT ![u].at = "deleteInputs", ![u].on = c,
                                       ![u].had = inputs[c]]
  BY DEF Storage!BeginDelete, Storage!Usable, Storage!IsPublished, Storage!Lock
<1>2. /\ UNCHANGED <<profile, instance, inputs, published, given, membership,
                     context, departing, leaving, unclean, troubled>>
      /\ request[u].at = "idle"
  BY DEF Storage!BeginDelete, Storage!disk, Storage!manager, Storage!At
<1>3. RequestIs(u, "deleteInputs", c, request[u].from, request[u].read, inputs[c])
  <2>1. "deleteInputs" \in Points /\ inputs[c] \in SUBSET Storage!InputKinds
    BY StorageTyped DEF Points, Deleting
  <2> QED
    BY <1>1, <2>1, RequestDeletes
<1>4. /\ lease' \in [Computers -> Requests \cup {NoRequest}] /\ lease'[c] = u
      /\ \A d \in Computers \ {c} : lease'[d] = lease[d]
  BY <1>1, StorageTyped
<1>5. StorageTypes'
  BY <1>1, <1>2, <1>3, <1>4, StorageTyped DEF StorageTypes, RequestIs
<1>6. Touches(u, c)
  BY <1>1, <1>2, <1>3 DEF Touches, RequestIs
<1>7. LeasesKept(u)
  BY <1>1, <1>4, LeaseKept
<1>8. Names(u, c) /\ Sources(u, c)
  BY <1>1, <1>2, <1>3 DEF Names, Sources, RequestIs
<1>9. /\ Alone(u, c) /\ published[c] = profile[c] /\ instance[c] = "here"
      /\ inputs[c] = given[c]
  BY <1>1, FreeIs
<1>10. CommandKept(u)'
  <2>1. HolderKept(u)'
    BY <1>1, <1>2, <1>3, <1>4, <1>9 DEF HolderKept, RequestIs
  <2> QED
    BY <1>3, <2>1 DEF CommandKept, CreatorKept, CopierKept, InTransit, Creating, Copying,
       RequestIs
<1>11. ~Holds(u)
  BY <1>2 DEF Holds, Changing, Deleting
<1>12. ComputerKept(c)'
  <2>1. ~\A t \in Requests : request'[t].on = c => request'[t].at \notin Deleting
    BY <1>3 DEF RequestIs, Deleting
  <2>2. ComputerWhole(c)'
    BY <1>1, <1>2, <1>9, <2>1 DEF ComputerWhole
  <2>3. ComputerRests(c)'
    BY <1>2 DEF StorageInv, ComputerKept, ComputerRests, Departs
  <2> QED
    BY <2>2, <2>3 DEF ComputerKept
<1> QED
  BY <1>5, <1>6, <1>7, <1>8, <1>9, <1>10, <1>11, <1>12, CommandStep

\* A failed delete puts back what was there, or reports the Computer.
LEMMA RestoreKeeps ==
    ASSUME StorageInv, NEW u \in Requests, request[u].at \in Deleting,
           Storage!RestoreDeleted(u, request[u].on, published[request[u].on]),
           UNCHANGED <<published, given, membership, context, departing, leaving, unclean>>
    PROVE  StorageInv'
<1>0. PICK c, q : c = request[u].on /\ q = published[c]
  OBVIOUS
<1>1. Holds(u)
  BY DEF Holds
<1>2. /\ c \in Computers /\ c \notin troubled /\ q # Storage!NoProfile /\ q \in Saved
  BY <1>0, <1>1, HolderAlone, StorageTyped
<1>3. HolderKept(u) /\ ComputerRests(c)
  BY <1>2 DEF StorageInv, CommandKept, ComputerKept
<1>4. request[u].had = given[c] /\ instance[c] \in {"here", "trash"}
  BY <1>0, <1>1, <1>3 DEF HolderKept, Deleting
<1>5. PICK i : i = IF instance[c] = "trash" THEN "here" ELSE instance[c]
  OBVIOUS
<1>6. i = "here"
  BY <1>4, <1>5
<1>7. /\ \/ /\ inputs' = [inputs EXCEPT ![c] = given[c]]
            /\ profile' = [profile EXCEPT ![c] = q]
            /\ instance' = [instance EXCEPT ![c] = i]
            /\ UNCHANGED troubled
         \/ /\ troubled' = troubled \cup {c}
            /\ inputs' \in {[inputs EXCEPT ![c] = kept] : kept \in {inputs[c], given[c]}}
            /\ profile' \in {profile, [profile EXCEPT ![c] = q]}
            /\ instance' \in {instance, [instance EXCEPT ![c] = i]}
      /\ retiring' = retiring \ {c}
      /\ Storage!Finish(u) /\ Storage!Unlock(c)
  BY <1>0, <1>4, <1>5
     DEF Storage!RestoreDeleted, Storage!PutInputsBack, Storage!Report
<1>8. /\ profile' \in [Computers -> Saved] /\ profile'[c] \in {profile[c], q}
      /\ instance' \in [Computers -> {"none", "here", "trash"}]
      /\ inputs' \in [Computers -> SUBSET Storage!InputKinds]
      /\ retiring' \subseteq Computers /\ troubled' \subseteq Computers
      /\ \A d \in Computers \ {c} :
             /\ profile'[d] = profile[d] /\ instance'[d] = instance[d]
             /\ inputs'[d] = inputs[d]
             /\ d \in troubled' <=> d \in troubled
             /\ d \in retiring' <=> d \in retiring
      /\ c \notin troubled' =>
             profile'[c] = q /\ instance'[c] = "here" /\ inputs'[c] = given[c]
  <2>1. given[c] \in SUBSET Storage!InputKinds /\ inputs[c] \in SUBSET Storage!InputKinds
    BY <1>2, StorageTyped
  <2> QED
    BY <1>2, <1>6, <1>7, <2>1, StorageTyped
<1>9. Touches(u, c)
  BY <1>7, <1>8, RequestEnds DEF Touches, RequestIs
<1>10. ComputerWhole(c)'
  BY <1>0, <1>2, <1>7, <1>8 DEF ComputerWhole
<1>11. ComputerRests(c)'
  BY <1>0, <1>3, <1>8 DEF ComputerRests, Departs
<1> QED
  BY <1>0, <1>1, <1>2, <1>7, <1>8, <1>9, <1>10, <1>11, StorageTyped, HolderEnds
     DEF ComputerKept

\* A delete goes one step further.
LEMMA DeleteGoes ==
    ASSUME StorageInv, NEW u \in Requests, request[u].at \in Deleting, NEW p \in Deleting,
           NEW r, RequestIs(u, p, request[u].on, request[u].from, r, request[u].had),
           UNCHANGED <<published, given, retiring, lease, membership, troubled,
                       context, departing, leaving, unclean>>,
           profile' \in [Computers -> Saved],
           instance' \in [Computers -> {"none", "here", "trash"}],
           inputs' \in [Computers -> SUBSET Storage!InputKinds],
           \A d \in Computers \ {request[u].on} :
               /\ profile'[d] = profile[d] /\ instance'[d] = instance[d]
               /\ inputs'[d] = inputs[d],
           p # "commit" => profile'[request[u].on] = published[request[u].on],
           p = "commit" => /\ profile'[request[u].on] = Storage!NoProfile
                           /\ r = published[request[u].on],
           instance'[request[u].on] =
               IF p \in {"removeProfile", "commit"} THEN "trash" ELSE "here",
           p \in {"quarantine", "removeProfile", "commit"} => inputs'[request[u].on] = {}
    PROVE  StorageInv'
<1>0. PICK c : c = request[u].on
  OBVIOUS
<1>1. Holds(u)
  BY DEF Holds
<1>2. /\ c \in Computers /\ c \notin troubled /\ published[c] # Storage!NoProfile
      /\ lease[c] = u /\ Alone(u, c)
  BY <1>0, <1>1, HolderAlone
<1>3. HolderKept(u) /\ ComputerRests(c)
  BY <1>2 DEF StorageInv, CommandKept, ComputerKept
<1>4. request[u].had = given[c]
  BY <1>0, <1>1, <1>3 DEF HolderKept
<1>5. StorageTypes'
  BY StorageTyped DEF StorageTypes, RequestIs
<1>6. Touches(u, c)
  BY <1>0 DEF Touches, RequestIs
<1>7. Names(u, c) /\ Sources(u, c) /\ LeasesKept(u)
  BY <1>2, LeasesStay DEF Names, Sources, RequestIs
<1>8. CommandKept(u)'
  <2>1. /\ p \notin {"apply", "authorized", "authorize"}
        /\ p \in {"deleteInputs", "undoInputs", "quarantine"} =>
               p \notin {"removeProfile", "commit"}
    BY DEF Deleting
  <2>2. HolderKept(u)'
    BY <1>0, <1>2, <1>4, <2>1 DEF HolderKept, RequestIs
  <2> QED
    BY <2>2 DEF CommandKept, CreatorKept, CopierKept, InTransit, Creating, Copying, Deleting,
       RequestIs
<1>9. ComputerKept(c)'
  <2>1. ~\A t \in Requests : request'[t].on = c => request'[t].at \notin Deleting
    BY <1>0 DEF RequestIs
  <2>2. p = "commit" =>
            ~\A t \in Requests : request'[t].on = c =>
                request'[t].at \notin {"apply", "authorized", "commit"}
    BY <1>0 DEF RequestIs
  <2>3. ComputerWhole(c)'
    BY <1>0, <1>2, <2>1, <2>2 DEF ComputerWhole
  <2>4. ComputerRests(c)'
    BY <1>0, <1>3, SavedIs DEF ComputerRests, Departs
  <2> QED
    BY <2>3, <2>4 DEF ComputerKept
<1> QED
  BY <1>0, <1>2, <1>5, <1>6, <1>7, <1>8, <1>9, CommandStep

\* What a delete that has not yet removed the profile knows of its Computer.
LEMMA DeletingIs ==
    ASSUME StorageInv, NEW u \in Requests, request[u].at \in Deleting
    PROVE  /\ request[u].on \in Computers
           /\ request[u].at # "commit" => profile[request[u].on] = published[request[u].on]
           /\ request[u].at = "commit" =>
                  /\ request[u].read = published[request[u].on]
                  /\ profile[request[u].on] = Storage!NoProfile
           /\ request[u].at \in {"deleteInputs", "undoInputs", "quarantine"} =>
                  instance[request[u].on] = "here"
           /\ request[u].at \in {"removeProfile", "commit"} => instance[request[u].on] = "trash"
           /\ request[u].at \in {"quarantine", "removeProfile", "commit"} =>
                  inputs[request[u].on] = {}
<1>1. Holds(u)
  BY DEF Holds
<1>2. HolderKept(u)
  BY DEF StorageInv, CommandKept
<1>3. request[u].at \notin {"apply", "authorized"}
  BY DEF Deleting
<1> QED
  BY <1>1, <1>2, <1>3, HeldIs DEF HolderKept

LEMMA DeleteInputsKeeps ==
    ASSUME StorageInv, NEW u \in Requests, Storage!DeleteInputs(u)
    PROVE  StorageInv'
<1>0. PICK c : c = request[u].on
  OBVIOUS
<1>1. /\ request[u].at = "deleteInputs" /\ request[u].at \in Deleting
      /\ UNCHANGED <<published, given, membership, context, departing, leaving, unclean>>
  BY DEF Storage!DeleteInputs, Storage!At, Storage!manager, Deleting
<1>2. /\ c \in Computers /\ profile[c] = published[c] /\ instance[c] = "here"
      /\ inputs[c] \in SUBSET Storage!InputKinds
  BY <1>0, <1>1, DeletingIs, StorageTyped
<1>3. PICK p, kept : /\ inputs' = [inputs EXCEPT ![c] = kept] /\ Storage!Go(u, p)
                     /\ UNCHANGED <<profile, instance, lease, retiring, troubled>>
                     /\ \/ p = "quarantine" /\ kept = {}
                        \/ p = "undoInputs" /\ kept \in SUBSET inputs[c]
  BY <1>0 DEF Storage!DeleteInputs
<1>4. /\ inputs' \in [Computers -> SUBSET Storage!InputKinds]
      /\ p = "quarantine" => inputs'[c] = {}
      /\ \A d \in Computers \ {c} : inputs'[d] = inputs[d]
  BY <1>2, <1>3, StorageTyped
<1>5. p \in Points /\ p \in Deleting
  BY <1>3 DEF Points, Deleting
<1>6. RequestIs(u, p, c, request[u].from, request[u].read, request[u].had)
  BY <1>0, <1>3, <1>5, RequestGoes DEF Storage!Go
<1> QED
  BY <1>0, <1>1, <1>2, <1>3, <1>4, <1>5, <1>6, StorageTyped, DeleteGoes

LEMMA UndoInputsKeeps ==
    ASSUME StorageInv, NEW u \in Requests, Storage!UndoInputs(u)
    PROVE  StorageInv'
<1>1. /\ request[u].at = "undoInputs" /\ request[u].at \in Deleting
      /\ UNCHANGED <<published, given, membership, context, departing, leaving, unclean>>
      /\ Storage!RestoreDeleted(u, request[u].on, profile[request[u].on])
  BY DEF Storage!UndoInputs, Storage!At, Storage!manager, Deleting
<1>2. profile[request[u].on] = published[request[u].on]
  BY <1>1, DeletingIs
<1> QED
  BY <1>1, <1>2, RestoreKeeps

LEMMA QuarantineStorageKeeps ==
    ASSUME StorageInv, NEW u \in Requests, Storage!QuarantineStorage(u)
    PROVE  StorageInv'
<1>0. PICK c : c = request[u].on
  OBVIOUS
<1>1. /\ request[u].at = "quarantine" /\ request[u].at \in Deleting
      /\ UNCHANGED <<published, given, membership, context, departing, leaving, unclean>>
  BY DEF Storage!QuarantineStorage, Storage!At, Storage!manager, Deleting
<1>2. c \in Computers /\ profile[c] = published[c] /\ instance[c] = "here" /\ inputs[c] = {}
  BY <1>0, <1>1, DeletingIs
<1>3. CASE /\ instance' = [instance EXCEPT ![c] = IF @ = "here" THEN "trash" ELSE @]
           /\ Storage!Go(u, "removeProfile")
           /\ UNCHANGED <<profile, inputs, lease, retiring, troubled>>
  <2>1. /\ instance' \in [Computers -> {"none", "here", "trash"}] /\ instance'[c] = "trash"
        /\ \A d \in Computers \ {c} : instance'[d] = instance[d]
    BY <1>2, <1>3, StorageTyped
  <2>2. "removeProfile" \in Points /\ "removeProfile" \in Deleting
    BY DEF Points, Deleting
  <2>3. RequestIs(u, "removeProfile", c, request[u].from, request[u].read, request[u].had)
    BY <1>0, <1>3, <2>2, RequestGoes DEF Storage!Go
  <2> QED
    BY <1>0, <1>1, <1>2, <1>3, <2>1, <2>2, <2>3, StorageTyped, DeleteGoes
<1>4. CASE Storage!RestoreDeleted(u, c, profile[c])
  BY <1>0, <1>1, <1>2, <1>4, RestoreKeeps
<1> QED
  BY <1>0, <1>3, <1>4 DEF Storage!QuarantineStorage

LEMMA RemoveProfileKeeps ==
    ASSUME StorageInv, NEW u \in Requests, Storage!RemoveProfile(u)
    PROVE  StorageInv'
<1>0. PICK c : c = request[u].on
  OBVIOUS
<1>1. /\ request[u].at = "removeProfile" /\ request[u].at \in Deleting
      /\ UNCHANGED <<published, given, membership, context, departing, leaving, unclean>>
  BY DEF Storage!RemoveProfile, Storage!At, Storage!manager, Deleting
<1>2. c \in Computers /\ profile[c] = published[c] /\ instance[c] = "trash" /\ inputs[c] = {}
  BY <1>0, <1>1, DeletingIs
<1>3. CASE /\ profile' = [profile EXCEPT ![c] = Storage!NoProfile]
           /\ request' = [request EXCEPT ![u].at = "commit", ![u].read = profile[c]]
           /\ UNCHANGED <<instance, inputs, lease, retiring, troubled>>
  <2>1. /\ profile' \in [Computers -> Saved] /\ profile'[c] = Storage!NoProfile
        /\ \A d \in Computers \ {c} : profile'[d] = profile[d]
    BY <1>2, <1>3, StorageTyped, SavedIs
  <2>2. "commit" \in Points /\ "commit" \in Deleting /\ profile[c] \in Saved
    BY <1>2, StorageTyped DEF Points, Deleting
  <2>3. RequestIs(u, "commit", c, request[u].from, profile[c], request[u].had)
    BY <1>0, <1>3, <2>2, RequestReads
  <2> QED
    BY <1>0, <1>1, <1>2, <1>3, <2>1, <2>2, <2>3, StorageTyped, DeleteGoes
<1>4. CASE Storage!RestoreDeleted(u, c, profile[c])
  BY <1>0, <1>1, <1>2, <1>4, RestoreKeeps
<1> QED
  BY <1>0, <1>3, <1>4 DEF Storage!RemoveProfile

LEMMA CommitDeleteKeeps ==
    ASSUME StorageInv, NEW u \in Requests, Storage!CommitDelete(u)
    PROVE  StorageInv'
<1>0. PICK c : c = request[u].on
  OBVIOUS
<1>1. /\ request[u].at = "commit" /\ request[u].at \in Deleting /\ Holds(u)
      /\ UNCHANGED <<membership, context, departing, leaving, unclean>>
  BY DEF Storage!CommitDelete, Storage!At, Storage!manager, Deleting, Holds
<1>2. /\ c \in Computers /\ request[u].read = published[c] /\ profile[c] = Storage!NoProfile
      /\ inputs[c] = {}
  BY <1>0, <1>1, DeletingIs
<1>3. CASE /\ published' = [published EXCEPT ![c] = Storage!NoProfile]
           /\ instance' = [instance EXCEPT ![c] = "none"]
           /\ given' = [given EXCEPT ![c] = {}]
           /\ retiring' = retiring \ {c} /\ troubled' = troubled \ {c}
           /\ Storage!Finish(u) /\ Storage!Unlock(c) /\ UNCHANGED <<profile, inputs>>
  <2>1. /\ published' \in [Computers -> Saved] /\ published'[c] = Storage!NoProfile
        /\ instance' \in [Computers -> {"none", "here", "trash"}]
        /\ given' \in [Computers -> SUBSET Storage!InputKinds] /\ given'[c] = {}
        /\ \A d \in Computers \ {c} :
               /\ published'[d] = published[d] /\ instance'[d] = instance[d]
               /\ given'[d] = given[d]
    BY <1>2, <1>3, StorageTyped, SavedIs
  <2>2. Touches(u, c)
    BY <1>1, <1>3, <2>1, RequestEnds DEF Touches, RequestIs
  <2>3. ComputerWhole(c)' /\ ComputerRests(c)'
    BY <1>2, <1>3, <2>1 DEF ComputerWhole, ComputerRests
  <2>4. retiring' \subseteq Computers /\ troubled' \subseteq Computers
    BY <1>3, StorageTyped
  <2> QED
    BY <1>0, <1>1, <1>2, <1>3, <2>1, <2>2, <2>3, <2>4, StorageTyped, HolderEnds
       DEF ComputerKept
<1>4. CASE Storage!RestoreDeleted(u, c, request[u].read) /\ UNCHANGED <<published, given>>
  BY <1>0, <1>1, <1>2, <1>4, RestoreKeeps
<1> QED
  BY <1>0, <1>3, <1>4 DEF Storage!CommitDelete, Storage!EmptyTrash

\* The departure itself changes no Computer and no command.
LEMMA ContextMoves ==
    ASSUME StorageInv,
           UNCHANGED <<profile, published, instance, inputs, given, retiring, lease, membership,
                       troubled, request>>,
           context' \in {"in", "leaving", "out"}, departing' \in BOOLEAN, unclean' \in BOOLEAN,
           leaving' \subseteq Computers, ContextKept',
           \A t \in Requests : request[t].at \notin {"authorize", "authorized"},
           \A c \in Computers : ComputerRests(c)'
    PROVE  StorageInv'
<1>1. StorageTypes'
  BY StorageTyped DEF StorageTypes
<1>2. ASSUME NEW t \in Requests PROVE CommandKept(t)'
  <2>1. CommandKept(t)
    BY DEF StorageInv
  <2>2. HolderKept(t)' /\ CreatorKept(t)' /\ CopierKept(t)'
    BY <2>1 DEF CommandKept, HolderKept, CreatorKept, CopierKept, Holds, InTransit
  <2> QED
    BY <2>1, <2>2 DEF CommandKept
<1>3. ASSUME NEW c \in Computers PROVE ComputerKept(c)'
  <2>1. ComputerWhole(c)
    BY DEF StorageInv, ComputerKept
  <2>2. ComputerWhole(c)'
    BY <2>1 DEF ComputerWhole
  <2> QED
    BY <2>2 DEF ComputerKept
<1> QED
  BY <1>1, <1>2, <1>3 DEF StorageInv

LEMMA DepartKeeps ==
    ASSUME StorageInv, Storage!Depart
    PROVE  StorageInv'
<1>1. /\ context' = "leaving" /\ leaving' = {c \in Computers : published[c] # Storage!NoProfile}
      /\ \A t \in Requests : request[t].at \notin {"authorize", "authorized"}
      /\ UNCHANGED <<profile, published, instance, inputs, given, retiring, lease, membership,
                     troubled, request>>
  BY DEF Storage!Depart, Storage!IsPublished, Storage!disk, Storage!locks
<1>2. departing' = TRUE /\ unclean' = FALSE
  BY DEF Storage!Depart
<1>3. departing' \in BOOLEAN /\ unclean' \in BOOLEAN /\ departing'
  BY <1>2, Zenon
<1>4. ContextKept'
  BY <1>1, <1>3 DEF ContextKept
<1>5. \A c \in Computers : ComputerRests(c)'
  BY <1>1 DEF ComputerRests
<1>6. leaving' \subseteq Computers
  BY <1>1
<1> QED
  BY <1>1, <1>3, <1>4, <1>5, <1>6, ContextMoves

LEMMA DepartedKeeps ==
    ASSUME StorageInv, Storage!Departed
    PROVE  StorageInv'
<1>1. /\ context = "leaving" /\ context' = "out" /\ leaving = {} /\ departing' = unclean
      /\ UNCHANGED <<profile, published, instance, inputs, given, retiring, lease, membership,
                     troubled, request, leaving, unclean>>
  BY DEF Storage!Departed, Storage!disk, Storage!locks
<1>2. departing' \in BOOLEAN /\ unclean' \in BOOLEAN /\ leaving' \subseteq Computers
  BY <1>1, StorageTyped, Zenon
<1>3. ContextKept'
  BY <1>1 DEF ContextKept
<1>4. \A c \in Computers : ComputerRests(c)'
  BY <1>1 DEF StorageInv, ComputerKept, ComputerRests, Departs
<1>5. \A t \in Requests : request[t].at \notin {"authorize", "authorized"}
  BY <1>1 DEF StorageInv, CommandKept, HolderKept, Holds, Changing
<1> QED
  BY <1>1, <1>2, <1>3, <1>4, <1>5, ContextMoves

LEMMA CleanComputerKeeps ==
    ASSUME StorageInv, NEW c \in Computers, Storage!CleanComputer(c)
    PROVE  StorageInv'
<1>1. /\ c \in leaving /\ lease[c] = NoRequest /\ leaving' = leaving \ {c}
      /\ UNCHANGED <<instance, inputs, given, retiring, lease, membership, context, departing,
                     troubled, request>>
  BY DEF Storage!CleanComputer, Storage!locks
<1>2. leaving' \subseteq Computers /\ context # "out" /\ ContextKept'
  BY <1>1, StorageTyped DEF StorageInv, ContextKept
<1>3. CASE /\ published[c] # Storage!NoProfile /\ profile[c] # Storage!NoProfile
           /\ profile' = [profile EXCEPT ![c] = Storage!MakeDormant(@)]
           /\ published' = [published EXCEPT ![c] = profile'[c]]
           /\ UNCHANGED unclean
  <2>1. PICK q : q = Storage!MakeDormant(profile[c])
    OBVIOUS
  <2>2. q \in Saved /\ q # Storage!NoProfile /\ q.authority # "active"
    <3>1. profile[c] \in Storage!Profiles
      BY <1>3, StorageTyped, SavedIs
    <3> QED
      BY <2>1, <3>1, ProfilesChange, SavedIs
  <2>3. /\ profile' \in [Computers -> Saved] /\ profile'[c] = q
        /\ published' \in [Computers -> Saved] /\ published'[c] = q
        /\ \A d \in Computers \ {c} : profile'[d] = profile[d] /\ published'[d] = published[d]
    BY <1>3, <2>1, <2>2, StorageTyped
  <2>4. StorageTypes'
    BY <1>1, <1>2, <1>3, <2>3, StorageTyped DEF StorageTypes
  <2>5. ASSUME NEW t \in Requests PROVE CommandKept(t)'
    <3>1. CommandKept(t)
      BY DEF StorageInv
    <3>2. Holds(t) => request[t].on # c
      BY <1>1, <1>3, FreeIs
    <3>3. HolderKept(t)'
      BY <1>1, <2>3, <3>1, <3>2 DEF CommandKept, HolderKept, Holds
    <3>4. InTransit(t) => request[t].on # c
      BY <1>3, <3>1 DEF CommandKept, CreatorKept
    <3>5. CreatorKept(t)'
      BY <1>1, <2>3, <3>1, <3>4 DEF CommandKept, CreatorKept, InTransit
    <3>6. CopierKept(t)'
      <4>1. SUFFICES ASSUME request[t].at \in Copying PROVE CopierKept(t)'
        BY <1>1 DEF CopierKept
      <4>2. request[t].from = c => published'[request[t].from] # Storage!NoProfile
        BY <2>2, <2>3
      <4> QED
        BY <1>1, <2>3, <3>1, <4>1, <4>2 DEF CommandKept, CopierKept
    <3> QED
      BY <1>1, <3>1, <3>3, <3>5, <3>6 DEF CommandKept
  <2>6. ASSUME NEW d \in Computers PROVE ComputerKept(d)'
    <3>1. ComputerKept(d)
      BY DEF StorageInv
    <3>2. ComputerWhole(d)'
      BY <1>1, <1>3, <2>2, <2>3, <3>1 DEF ComputerKept, ComputerWhole
    <3>3. ComputerRests(d)'
      BY <1>1, <1>3, <2>2, <2>3, <3>1 DEF ComputerKept, ComputerRests, Departs
    <3> QED
      BY <3>2, <3>3 DEF ComputerKept
  <2> QED
    BY <1>2, <2>4, <2>5, <2>6 DEF StorageInv
<1>4. CASE /\ unclean' = (unclean \/ Storage!IsPublished(c)) /\ UNCHANGED <<profile, published>>
  <2>1. unclean' \in BOOLEAN /\ (unclean' <=> unclean \/ Storage!IsPublished(c))
    BY <1>4, StorageTyped, Zenon
  <2>2. StorageTypes'
    BY <1>1, <1>2, <1>4, <2>1, StorageTyped DEF StorageTypes
  <2>3. ASSUME NEW t \in Requests PROVE CommandKept(t)'
    <3>1. CommandKept(t)
      BY DEF StorageInv
    <3>2. HolderKept(t)' /\ CreatorKept(t)' /\ CopierKept(t)'
      BY <1>1, <1>4, <3>1 DEF CommandKept, HolderKept, CreatorKept, CopierKept, Holds, InTransit
    <3> QED
      BY <1>1, <3>1, <3>2 DEF CommandKept
  <2>4. ASSUME NEW d \in Computers PROVE ComputerKept(d)'
    <3>1. ComputerKept(d)
      BY DEF StorageInv
    <3>2. ComputerWhole(d)'
      BY <1>1, <1>4, <3>1 DEF ComputerKept, ComputerWhole
    <3>3. ComputerRests(d)'
      BY <1>1, <1>4, <2>1, <3>1 DEF ComputerKept, ComputerRests, Departs, Storage!IsPublished
    <3> QED
      BY <3>2, <3>3 DEF ComputerKept
  <2> QED
    BY <1>2, <2>2, <2>3, <2>4 DEF StorageInv
<1> QED
  BY <1>3, <1>4 DEF Storage!CleanComputer, Storage!IsPublished

LEMMA StorageStarts ==
    ASSUME Storage!StorageInit
    PROVE  StorageInv
<1>1. PICK c \in Computers, p \in Storage!Profiles :
         /\ p.authority # "dormant"
         /\ profile = [d \in Computers |-> IF d = c THEN p ELSE Storage!NoProfile]
         /\ published = profile
         /\ instance = [d \in Computers |-> IF d = c THEN "here" ELSE "none"]
         /\ inputs = [d \in Computers |-> IF d = c THEN Storage!InputKinds ELSE {}]
         /\ given = inputs
         /\ retiring = {} /\ troubled = {}
         /\ lease = [d \in Computers |-> NoRequest]
         /\ membership = NoRequest
         /\ context = "in" /\ leaving = {}
         /\ request = [t \in Requests |-> Storage!NoWork]
  BY DEF Storage!StorageInit
<1>2. departing = FALSE /\ unclean = FALSE
  BY DEF Storage!StorageInit
<1>3. departing \in BOOLEAN /\ unclean \in BOOLEAN
  BY <1>2, Zenon
<1>4. PICK n : n = Storage!NoWork
  OBVIOUS
<1>5. n = [at |-> "idle", on |-> Absent, from |-> Absent, read |-> Storage!NoProfile, had |-> {}]
  BY <1>4 DEF Storage!NoWork
<1>6. n \in Commands
  BY <1>5, SavedIs DEF Commands
<1>7. request \in [Requests -> Commands] /\ \A t \in Requests : request[t].at = "idle"
  BY <1>1, <1>4, <1>5, <1>6
<1>8. StorageTypes
  BY <1>1, <1>3, <1>7, SavedIs DEF StorageTypes
<1>9. ContextKept
  BY <1>1 DEF ContextKept
<1>10. ASSUME NEW t \in Requests PROVE CommandKept(t)
  BY <1>7 DEF CommandKept, HolderKept, CreatorKept, CopierKept, Holds, InTransit,
     Changing, Deleting, Creating, Copying
<1>11. ASSUME NEW d \in Computers PROVE ComputerKept(d)
  BY <1>1, SavedIs DEF ComputerKept, ComputerWhole, ComputerRests, Departs
<1> QED
  BY <1>8, <1>9, <1>10, <1>11 DEF StorageInv

LEMMA StorageKeeps ==
    ASSUME StorageInv, Storage!StorageNext
    PROVE  StorageInv'
BY BeginUpdateKeeps, SaveUpdateKeeps, ApplyUpdateKeeps, BeginStartKeeps, EndPromptKeeps,
   EndStartKeeps, CreateProfileKeeps, CreateApplyKeeps, CreatePublishKeeps,
   DuplicateReadKeeps, DuplicateCopyKeeps, DuplicateJoinKeeps, DuplicatePublishKeeps,
   BeginDeleteKeeps, DeleteInputsKeeps, UndoInputsKeeps, QuarantineStorageKeeps,
   RemoveProfileKeeps, CommitDeleteKeeps, DepartKeeps, CleanComputerKeeps, DepartedKeeps
   DEF Storage!StorageNext

LEMMA StorageRests ==
    ASSUME StorageInv, UNCHANGED Storage!storageVars
    PROVE  StorageInv'
BY DEF Storage!storageVars, StorageInv, StorageTypes, ContextKept, CommandKept, HolderKept,
   CreatorKept, CopierKept, Holds, InTransit, ComputerKept, ComputerWhole, ComputerRests, Departs

LEMMA StorageIsSound ==
    ASSUME StorageInv
    PROVE  Storage!StorageTypeOK /\ Storage!ComputerStorageHolds
<1>1. Storage!StorageTypeOK
  BY StorageTyped DEF Storage!StorageTypeOK, Saved
<1>2. Requests # {} => Storage!PublishedIsSaved /\ Storage!FailedDeleteKeeps
  BY FreeIs DEF Storage!PublishedIsSaved, Storage!FailedDeleteKeeps, Storage!IsPublished
<1>3. Requests = {} => Storage!PublishedIsSaved /\ Storage!FailedDeleteKeeps
  BY DEF StorageInv, ComputerKept, ComputerWhole, Storage!PublishedIsSaved,
     Storage!FailedDeleteKeeps, Storage!IsPublished
<1>4. Storage!DepartedIsDormant
  BY SavedIs DEF StorageInv, ContextKept, ComputerKept, ComputerRests, Departs,
     Storage!DepartedIsDormant
<1> QED
  BY <1>1, <1>2, <1>3, <1>4 DEF Storage!ComputerStorageHolds

-----------------------------------------------------------------------------
(* ConfigStore. *)

\* A migrated profile connects by itself to a manual target only, or to none.
NewProfiles ==
    {p \in [schema : {4}, target : {"none", "manual"}, auto : BOOLEAN,
            binding : {"none", "needs_rebind"}] :
         p.auto => p.target = "manual" \/ p.binding = "none"}
Profiles == Config!LegacyProfiles \cup NewProfiles
Wholes == [state : {"whole"}, edition : 1..MaxEditions, profile : Profiles, backup : BOOLEAN]
Entries == {Config!Missing, Config!Partial} \cup Wholes
Upto(d, e) == d \in Wholes => d.edition \in 1..e
ConfigSteps == {"idle", "recover", "recovered", "clear", "backup", "migrate", "stage",
                "marker", "moveOld", "publish", "removeOld", "remove"}

ConfigTypes ==
    /\ directory \in {Config!Missing} \cup Wholes
    /\ journal = [here |-> journal.here, marker |-> journal.marker, new |-> journal.new,
                  old |-> journal.old]
    /\ journal.marker \in {"none", "preparing", "ready"}
    /\ journal.new \in Entries /\ journal.old \in Entries
    /\ access = [op |-> access.op, step |-> access.step, then |-> access.then]
    /\ access.step \in ConfigSteps
    /\ edition \in 1..MaxEditions /\ expected \subseteq 0..edition
    /\ Upto(directory, edition) /\ Upto(journal.new, edition) /\ Upto(journal.old, edition)

\* What the next recovery makes of the directory is an edition that is expected.
Recoverable ==
    /\ directory # Config!Missing => directory.edition \in expected
    /\ directory = Config!Missing /\ journal.old = Config!Missing =>
           /\ 0 \in expected
           /\ journal.marker = "ready" /\ journal.new \in Wholes =>
                  journal.new.edition \in expected
    /\ directory = Config!Missing /\ journal.old # Config!Missing =>
           /\ journal.marker = "ready" /\ journal.old \in Wholes
           /\ journal.old.edition \in expected

\* Where the access is, and what its transaction holds.
Saving == access.step \in {"marker", "moveOld"}
              \/ (access.step = "clear" /\ access.then = "failed")
AccessKept ==
    /\ access.step # "idle" => access.op \in {"load", "add", "update", "remove"}
    /\ journal.here \/ journal = Config!NoJournal
    /\ access.step \in {"recovered", "backup", "migrate", "stage", "remove"} => ~journal.here
    /\ access.step \in {"backup", "migrate"} =>
           directory # Config!Missing /\ directory.profile \in Config!LegacyProfiles
    /\ access.step = "stage" => directory # Config!Missing \/ access.op = "add"
    /\ access.step = "stage" /\ access.op = "add" => directory = Config!Missing
    /\ access.step = "remove" => directory # Config!Missing
    /\ Saving => /\ journal.old = Config!Missing
                 /\ directory = Config!Missing => access.op = "add"
                 /\ directory # Config!Missing => directory.edition # edition
    /\ access.step \in {"marker", "moveOld", "publish"} =>
           /\ edition \in expected
           /\ journal.new # Config!Partial =>
                  journal.new \in Wholes /\ journal.new.edition = edition
    /\ access.step = "marker" /\ access.op # "add" => directory # Config!Missing
    /\ access.step \in {"moveOld", "publish"} =>
           journal.marker = "ready" /\ journal.new \in Wholes
    /\ access.step = "publish" =>
           /\ directory = Config!Missing
           /\ journal.old = Config!Missing => access.op = "add"
           /\ journal.old # Config!Missing => journal.old.edition # edition
    /\ access.step = "removeOld" => directory # Config!Missing
    /\ access.step = "clear" =>
           /\ access.then \in {"recovered", "saved", "failed"}
           /\ directory # Config!Missing \/ journal.old = Config!Missing
           /\ access.then = "saved" => directory # Config!Missing
    /\ access.step \in {"recover", "clear", "marker", "moveOld", "publish", "removeOld"} =>
           journal.here

ConfigInv == ConfigTypes /\ Recoverable /\ AccessKept

LEMMA EntriesAre ==
    /\ Config!Missing # Config!Partial
    /\ Config!Missing \notin Wholes /\ Config!Partial \notin Wholes
    /\ Config!EditionOf(Config!Missing) = 0
    /\ \A d \in Wholes : /\ d.edition \in 1..MaxEditions /\ d.profile \in Profiles
                         /\ Config!EditionOf(d) = d.edition /\ d.state = "whole"
    /\ Config!Missing.state = "missing"
<1>1. Config!Missing.state = "missing" /\ Config!Partial.state = "partial"
  BY DEF Config!Missing, Config!Partial
<1>2. \A d \in Wholes : d.state = "whole" /\ d.edition \in 1..MaxEditions /\ d.profile \in Profiles
  BY DEF Wholes
<1> QED
  BY <1>1, <1>2 DEF Config!EditionOf

LEMMA NoJournalIs ==
    /\ Config!NoJournal = [here |-> FALSE, marker |-> "none", new |-> Config!Missing,
                           old |-> Config!Missing]
    /\ ~Config!NoJournal.here /\ Config!NoJournal.marker = "none"
    /\ Config!NoJournal.new = Config!Missing /\ Config!NoJournal.old = Config!Missing
<1>1. Config!NoJournal = [here |-> FALSE, marker |-> "none", new |-> Config!Missing,
                          old |-> Config!Missing]
  BY Zenon DEF Config!NoJournal
<1>2. ~Config!NoJournal.here
  BY <1>1, Zenon
<1> QED
  BY <1>1, <1>2

LEMMA NoAccessIs ==
    Config!NoAccess = [op |-> "none", step |-> "idle", then |-> "none"]
BY DEF Config!NoAccess

LEMMA ConfigAssumption == MaxEditions \in Nat \ {0}
BY StoresAssumption DEF Config!ConfigStoreAssumption

LEMMA ConfigStarts ==
    ASSUME Config!ConfigInit
    PROVE  ConfigInv
<1>1. /\ journal = Config!NoJournal /\ access = Config!NoAccess /\ edition = 1
      /\ edition \in 1..MaxEditions
  BY ConfigAssumption DEF Config!ConfigInit
<1>2. \/ directory = Config!Missing /\ expected = {0}
      \/ directory \in Wholes /\ directory.edition = 1 /\ expected = {1}
  <2>1. directory = Config!Missing
        \/ \E p \in Config!LegacyProfiles : directory = Config!Whole(1, p, FALSE)
    BY DEF Config!ConfigInit
  <2>2. ASSUME NEW p \in Config!LegacyProfiles, directory = Config!Whole(1, p, FALSE)
        PROVE  directory \in Wholes /\ directory.edition = 1
    BY <1>1, <2>2 DEF Config!Whole, Wholes, Profiles
  <2>3. expected = IF directory = Config!Missing THEN {0} ELSE {1}
    BY DEF Config!ConfigInit
  <2> QED
    BY <2>1, <2>2, <2>3, EntriesAre
<1>3. ConfigTypes
  <2>1. access.step = "idle" /\ access = [op |-> access.op, step |-> access.step,
                                          then |-> access.then]
    BY <1>1, NoAccessIs
  <2>2. journal = [here |-> journal.here, marker |-> journal.marker, new |-> journal.new,
                   old |-> journal.old]
    BY <1>1, NoJournalIs, Zenon
  <2> QED
    BY <1>1, <1>2, <2>1, <2>2, NoJournalIs, EntriesAre
       DEF ConfigTypes, ConfigSteps, Entries, Upto
<1>4. Recoverable
  BY <1>1, <1>2, NoJournalIs, EntriesAre DEF Recoverable
<1>5. AccessKept
  <2>1. access.step = "idle"
    BY <1>1, NoAccessIs
  <2> QED
    BY <1>1, <2>1 DEF AccessKept, Saving
<1> QED
  BY <1>3, <1>4, <1>5 DEF ConfigInv

\* The access moves to another step; nothing else changes.
LEMMA AccessAt ==
    ASSUME ConfigTypes, NEW p, access' = [access EXCEPT !.step = p]
    PROVE  /\ access'.step = p /\ access'.op = access.op /\ access'.then = access.then
           /\ access' = [op |-> access'.op, step |-> access'.step, then |-> access'.then]
BY DEF ConfigTypes

LEMMA AccessClears ==
    ASSUME ConfigTypes, NEW t, access' = [access EXCEPT !.step = "clear", !.then = t]
    PROVE  /\ access'.step = "clear" /\ access'.op = access.op /\ access'.then = t
           /\ access' = [op |-> access'.op, step |-> access'.step, then |-> access'.then]
<1>1. access' = [op |-> access.op, step |-> "clear", then |-> t]
  BY DEF ConfigTypes
<1> QED
  BY <1>1

\* An access that returns leaves what the next one can recover.
LEMMA AccessReturns ==
    ASSUME ConfigInv, NEW editions \in SUBSET (0..edition),
           access' = Config!NoAccess, expected' = editions, edition' = edition,
           directory' \in {Config!Missing} \cup Wholes, Upto(directory', edition),
           \/ UNCHANGED journal
           \/ journal' = Config!NoJournal,
           Recoverable'
    PROVE  ConfigInv'
<1>1. access'.step = "idle" /\ access' = [op |-> access'.op, step |-> access'.step,
                                          then |-> access'.then]
  BY NoAccessIs
<1>2. /\ journal' = [here |-> journal'.here, marker |-> journal'.marker,
                     new |-> journal'.new, old |-> journal'.old]
      /\ journal'.marker \in {"none", "preparing", "ready"}
      /\ journal'.new \in Entries /\ journal'.old \in Entries
      /\ Upto(journal'.new, edition) /\ Upto(journal'.old, edition)
      /\ journal'.here \/ journal' = Config!NoJournal
  <2>1. CASE UNCHANGED journal
    BY <2>1 DEF ConfigInv, ConfigTypes, AccessKept
  <2>2. CASE journal' = Config!NoJournal
    <3>1. journal' = [here |-> journal'.here, marker |-> journal'.marker,
                      new |-> journal'.new, old |-> journal'.old]
      BY <2>2, NoJournalIs, Zenon
    <3> QED
      BY <2>2, <3>1, NoJournalIs, EntriesAre DEF Entries, Upto
  <2> QED
    BY <2>1, <2>2
<1>3. ConfigTypes'
  BY <1>1, <1>2 DEF ConfigInv, ConfigTypes, ConfigSteps, Upto
<1>4. AccessKept'
  BY <1>1, <1>2 DEF AccessKept, Saving
<1> QED
  BY <1>3, <1>4 DEF ConfigInv

\* An access goes on, whatever it expects, while the files stay.
LEMMA AccessGoesOn ==
    ASSUME ConfigInv, UNCHANGED <<directory, journal, edition, expected>>,
           access'.step \in ConfigSteps,
           access' = [op |-> access'.op, step |-> access'.step, then |-> access'.then],
           AccessKept'
    PROVE  ConfigInv'
<1>1. ConfigTypes'
  BY DEF ConfigInv, ConfigTypes
<1>2. Recoverable'
  BY DEF ConfigInv, Recoverable
<1> QED
  BY <1>1, <1>2 DEF ConfigInv

LEMMA BeginKeeps ==
    ASSUME ConfigInv, Config!Begin
    PROVE  ConfigInv'
<1>1. PICK op \in {"load", "add", "update", "remove"} :
         access' = [op |-> op, then |-> "none",
                    step |-> IF journal.here THEN "recover" ELSE "recovered"]
  BY DEF Config!Begin
<1>2. UNCHANGED <<directory, journal, edition, expected>>
  BY DEF Config!Begin
<1>3. /\ access' = [op |-> access'.op, step |-> access'.step, then |-> access'.then]
      /\ access'.op \in {"load", "add", "update", "remove"}
      /\ \/ access'.step = "recover" /\ journal.here
         \/ access'.step = "recovered" /\ ~journal.here
  BY <1>1
<1>4. AccessKept'
  BY <1>2, <1>3 DEF ConfigInv, AccessKept, Saving
<1> QED
  BY <1>2, <1>3, <1>4, AccessGoesOn DEF ConfigSteps

LEMMA RefuseKeeps ==
    ASSUME ConfigInv, Config!Refuse
    PROVE  ConfigInv'
<1>1. access' = Config!NoAccess /\ UNCHANGED <<directory, journal, edition, expected>>
  BY DEF Config!Refuse, Config!Answer
<1>2. Recoverable'
  BY <1>1 DEF ConfigInv, Recoverable
<1> QED
  BY <1>1, <1>2, AccessReturns DEF ConfigInv, ConfigTypes

LEMMA StopKeeps ==
    ASSUME ConfigInv, Config!Stop
    PROVE  ConfigInv'
<1>1. access' = Config!NoAccess /\ UNCHANGED <<directory, journal, edition, expected>>
  BY DEF Config!Stop
<1>2. Recoverable'
  BY <1>1 DEF ConfigInv, Recoverable
<1> QED
  BY <1>1, <1>2, AccessReturns DEF ConfigInv, ConfigTypes

\* Recovery finds an old directory to put back, or a staged one to put in place.
LEMMA RecoverKeeps ==
    ASSUME ConfigInv, Config!Recover
    PROVE  ConfigInv'
<1>1. access.step = "recover" /\ ~Config!Refused /\ UNCHANGED edition /\ journal.here
  BY DEF Config!Recover, ConfigInv, AccessKept
<1>2. CASE access' = Config!NoAccess /\ UNCHANGED <<directory, journal, expected>>
  <2>1. Recoverable'
    BY <1>2 DEF ConfigInv, Recoverable
  <2> QED
    BY <1>1, <1>2, <2>1, AccessReturns DEF ConfigInv, ConfigTypes
<1>3. CASE /\ IF journal.marker = "ready" THEN Config!PutInPlace
              ELSE UNCHANGED <<directory, journal>>
           /\ access' = [access EXCEPT !.step = "clear", !.then = "recovered"]
           /\ UNCHANGED expected
  <2>1. /\ access'.step = "clear" /\ access'.then = "recovered" /\ access'.op = access.op
        /\ access' = [op |-> access'.op, step |-> access'.step, then |-> access'.then]
    BY <1>3, AccessClears DEF ConfigInv
  <2>2. \/ UNCHANGED <<directory, journal>>
               /\ (directory # Config!Missing \/ journal.old = Config!Missing)
        \/ /\ directory = Config!Missing /\ journal.old \in Wholes
           /\ journal.old.edition \in expected
           /\ directory' = journal.old
           /\ journal' = [journal EXCEPT !.old = Config!Missing]
        \/ /\ directory = Config!Missing /\ journal.new \in Wholes
           /\ journal.new.edition \in expected /\ journal.old = Config!Missing
           /\ directory' = journal.new
           /\ journal' = [journal EXCEPT !.new = Config!Missing]
    <3>1. CASE journal.marker # "ready"
      BY <1>1, <1>3, <3>1 DEF Config!Refused
    <3>2. CASE journal.marker = "ready" /\ directory # Config!Missing
      BY <1>3, <3>2 DEF Config!PutInPlace
    <3>3. CASE journal.marker = "ready" /\ directory = Config!Missing
      <4>1. CASE journal.old # Config!Missing
        BY <1>3, <3>3, <4>1 DEF Config!PutInPlace, ConfigInv, Recoverable
      <4>2. CASE journal.old = Config!Missing
        <5>1. journal.new.state = "whole"
          BY <1>1, <3>3, <4>2 DEF Config!Refused
        <5>2. journal.new \in Wholes
          BY <5>1 DEF ConfigInv, ConfigTypes, Entries, Config!Missing, Config!Partial
        <5> QED
          BY <1>3, <3>3, <4>2, <5>2 DEF Config!PutInPlace, ConfigInv, Recoverable
      <4> QED
        BY <4>1, <4>2
    <3> QED
      BY <3>1, <3>2, <3>3
  <2>3. /\ journal' = [here |-> journal'.here, marker |-> journal'.marker,
                       new |-> journal'.new, old |-> journal'.old]
        /\ journal'.marker = journal.marker /\ journal'.here
        /\ journal'.new \in {journal.new, Config!Missing}
        /\ journal'.old \in {journal.old, Config!Missing}
        /\ directory' = Config!Missing => UNCHANGED journal
    BY <1>1, <2>2, EntriesAre DEF ConfigInv, ConfigTypes
  <2>4. /\ directory' = Config!Missing => journal'.old = Config!Missing /\ UNCHANGED directory
        /\ directory' # Config!Missing => /\ directory' \in Wholes
                                          /\ directory'.edition \in expected
                                          /\ Upto(directory', edition)
    BY <2>2, EntriesAre DEF ConfigInv, ConfigTypes, Recoverable
  <2>5. ConfigTypes'
    BY <1>1, <1>3, <2>1, <2>3, <2>4, EntriesAre
       DEF ConfigInv, ConfigTypes, ConfigSteps, Entries, Upto
  <2>6. Recoverable'
    BY <1>3, <2>3, <2>4 DEF ConfigInv, Recoverable
  <2>7. AccessKept'
    BY <1>1, <2>1, <2>3, <2>4 DEF ConfigInv, AccessKept, Saving
  <2> QED
    BY <2>5, <2>6, <2>7 DEF ConfigInv
<1> QED
  BY <1>2, <1>3 DEF Config!Recover, Config!Answer

LEMMA ClearKeeps ==
    ASSUME ConfigInv, Config!Clear
    PROVE  ConfigInv'
<1>1. access.step = "clear" /\ UNCHANGED <<directory, access, edition, expected>>
  BY DEF Config!Clear
<1>2. \/ \E e \in {"new", "old"} :
              /\ journal[e] # Config!Missing
              /\ journal' = [journal EXCEPT ![e] =
                                IF @ = Config!Partial THEN Config!Missing ELSE Config!Partial]
      \/ journal' = [journal EXCEPT !.marker = "none"]
  BY DEF Config!Clear
<1> DEFINE Whole == journal' = [here |-> journal'.here, marker |-> journal'.marker,
                                new |-> journal'.new, old |-> journal'.old]
<1>3. /\ Whole /\ journal'.here = journal.here /\ journal'.marker \in {journal.marker, "none"}
      /\ journal'.new \in {journal.new, Config!Missing, Config!Partial}
      /\ journal'.old \in {journal.old, Config!Missing, Config!Partial}
      /\ journal.old = Config!Missing => journal'.old = Config!Missing
  <2>1. CASE journal' = [journal EXCEPT !.marker = "none"]
    BY <2>1 DEF ConfigInv, ConfigTypes
  <2>2. ASSUME NEW v \in {Config!Missing, Config!Partial},
               journal' = [journal EXCEPT !.new = v]
        PROVE  Whole /\ journal'.here = journal.here /\ journal'.marker = journal.marker
               /\ journal'.new = v /\ journal'.old = journal.old
    BY <2>2 DEF ConfigInv, ConfigTypes
  <2>3. ASSUME NEW v \in {Config!Missing, Config!Partial}, journal.old # Config!Missing,
               journal' = [journal EXCEPT !.old = v]
        PROVE  Whole /\ journal'.here = journal.here /\ journal'.marker = journal.marker
               /\ journal'.new = journal.new /\ journal'.old = v
    BY <2>3 DEF ConfigInv, ConfigTypes
  <2>4. ASSUME journal.new # Config!Missing,
               journal' = [journal EXCEPT !["new"] =
                              IF @ = Config!Partial THEN Config!Missing ELSE Config!Partial]
        PROVE  \E v \in {Config!Missing, Config!Partial} : journal' = [journal EXCEPT !.new = v]
    BY <2>4
  <2>5. ASSUME journal.old # Config!Missing,
               journal' = [journal EXCEPT !["old"] =
                              IF @ = Config!Partial THEN Config!Missing ELSE Config!Partial]
        PROVE  \E v \in {Config!Missing, Config!Partial} : journal' = [journal EXCEPT !.old = v]
    BY <2>5
  <2> QED
    BY <1>2, <2>1, <2>2, <2>3, <2>4, <2>5
<1>4. ConfigTypes'
  BY <1>1, <1>3, EntriesAre DEF ConfigInv, ConfigTypes, Entries, Upto
<1>5. directory # Config!Missing \/ journal.old = Config!Missing
  BY <1>1 DEF ConfigInv, AccessKept
<1>6. Recoverable'
  BY <1>1, <1>3, <1>5, EntriesAre DEF ConfigInv, Recoverable
<1>7. AccessKept'
  BY <1>1, <1>3 DEF ConfigInv, AccessKept, Saving
<1> QED
  BY <1>4, <1>6, <1>7 DEF ConfigInv

LEMMA ClearedKeeps ==
    ASSUME ConfigInv, Config!Cleared
    PROVE  ConfigInv'
<1>1. /\ access.step = "clear" /\ UNCHANGED <<directory, edition>>
      /\ access.then \in {"recovered", "saved", "failed"}
      /\ directory # Config!Missing \/ journal.old = Config!Missing
      /\ access.then = "saved" => directory # Config!Missing
      /\ access.then = "failed" /\ directory = Config!Missing => access.op = "add"
      /\ access.then = "failed" /\ directory # Config!Missing => directory.edition # edition
  BY DEF Config!Cleared, ConfigInv, AccessKept, Saving
<1>2. Config!EditionOf(directory) \in expected /\ expected \subseteq 0..edition
      /\ edition \in 1..MaxEditions
  BY <1>1, EntriesAre DEF ConfigInv, ConfigTypes, Recoverable
<1>3. UNCHANGED journal \/ journal' = Config!NoJournal
  BY DEF Config!Cleared
<1>4. CASE access.then = "recovered" /\ journal' = Config!NoJournal
               /\ access' = [access EXCEPT !.step = "recovered"] /\ UNCHANGED expected
  <2>1. /\ access'.step = "recovered" /\ access'.op = access.op
        /\ access' = [op |-> access'.op, step |-> access'.step, then |-> access'.then]
    BY <1>4, AccessAt DEF ConfigInv
  <2>2. /\ journal' = [here |-> journal'.here, marker |-> journal'.marker,
                       new |-> journal'.new, old |-> journal'.old]
    BY <1>4, NoJournalIs, Zenon
  <2>3. ConfigTypes'
    BY <1>1, <1>4, <2>1, <2>2, NoJournalIs, EntriesAre
       DEF ConfigInv, ConfigTypes, ConfigSteps, Entries, Upto
  <2>4. Recoverable'
    BY <1>1, <1>2, <1>4, NoJournalIs, EntriesAre DEF ConfigInv, Recoverable
  <2>5. AccessKept'
    BY <1>1, <1>4, <2>1, NoJournalIs DEF ConfigInv, AccessKept, Saving
  <2> QED
    BY <2>3, <2>4, <2>5 DEF ConfigInv
<1>5. ASSUME access' = Config!NoAccess, expected' \subseteq expected,
             Config!EditionOf(directory) \in expected',
             \/ UNCHANGED expected
             \/ directory # Config!Missing
             \/ journal' = Config!NoJournal
      PROVE  ConfigInv'
  <2>1. Recoverable'
    BY <1>1, <1>2, <1>3, <1>5, NoJournalIs, EntriesAre
       DEF ConfigInv, ConfigTypes, Recoverable
  <2>2. PICK editions \in SUBSET (0..edition) : expected' = editions
    BY <1>2, <1>5
  <2> QED
    BY <1>1, <1>3, <1>5, <2>1, <2>2, AccessReturns DEF ConfigInv, ConfigTypes
<1>6. CASE /\ journal' = Config!NoJournal
           /\ CASE access.then = "recovered" -> Config!Step("recovered") /\ UNCHANGED expected
                [] access.then = "saved" -> Config!Answer({Config!EditionOf(directory)})
                [] access.then = "failed" -> Config!Answer(expected \ {edition})
  <2>1. CASE access.then = "recovered"
    BY <1>4, <1>6, <2>1 DEF Config!Step
  <2>2. CASE access.then = "saved"
    <3>1. access' = Config!NoAccess /\ expected' = {Config!EditionOf(directory)}
      BY <1>6, <2>2 DEF Config!Answer
    <3> QED
      BY <1>2, <1>5, <1>6, <3>1
  <2>3. CASE access.then = "failed"
    <3>1. access' = Config!NoAccess /\ expected' = expected \ {edition}
      BY <1>6, <2>3 DEF Config!Answer
    <3>2. Config!EditionOf(directory) # edition
      BY <1>1, <1>2, <2>3, EntriesAre DEF ConfigInv, ConfigTypes
    <3> QED
      BY <1>2, <1>5, <1>6, <3>1, <3>2
  <2> QED
    BY <1>1, <2>1, <2>2, <2>3
<1>7. CASE /\ CASE access.then = "recovered" -> Config!Answer(expected)
                [] access.then = "saved" -> Config!Answer({Config!EditionOf(directory)})
                [] access.then = "failed" ->
                     Config!Answer(IF access.op = "add" THEN expected ELSE expected \ {edition})
           /\ UNCHANGED journal
  <2>1. CASE access.then = "recovered"
    <3>1. access' = Config!NoAccess /\ expected' = expected
      BY <1>7, <2>1 DEF Config!Answer
    <3> QED
      BY <1>2, <1>5, <3>1
  <2>2. CASE access.then = "saved"
    <3>1. access' = Config!NoAccess /\ expected' = {Config!EditionOf(directory)}
      BY <1>7, <2>2 DEF Config!Answer
    <3> QED
      BY <1>1, <1>2, <1>5, <2>2, <3>1
  <2>3. CASE access.then = "failed"
    <3>1. access' = Config!NoAccess
          /\ expected' = IF access.op = "add" THEN expected ELSE expected \ {edition}
      BY <1>7, <2>3 DEF Config!Answer
    <3>2. access.op # "add" =>
              directory # Config!Missing /\ Config!EditionOf(directory) # edition
      BY <1>1, <1>2, <2>3, EntriesAre DEF ConfigInv, ConfigTypes
    <3> QED
      BY <1>2, <1>5, <3>1, <3>2
  <2> QED
    BY <1>1, <2>1, <2>2, <2>3
<1> QED
  BY <1>6, <1>7 DEF Config!Cleared

LEMMA ReadKeeps ==
    ASSUME ConfigInv, Config!Read
    PROVE  ConfigInv'
<1>1. /\ access.step = "recovered" /\ UNCHANGED <<directory, journal, edition>>
      /\ ~journal.here /\ journal = Config!NoJournal
      /\ journal.old = Config!Missing
  BY NoJournalIs DEF Config!Read, ConfigInv, AccessKept
<1>2. Config!EditionOf(directory) \in expected /\ expected \subseteq 0..edition
  BY <1>1, EntriesAre DEF ConfigInv, ConfigTypes, Recoverable
<1>3. ASSUME access' = Config!NoAccess, expected' = {Config!EditionOf(directory)}
      PROVE  ConfigInv'
  <2>1. Recoverable'
    BY <1>1, <1>2, <1>3, NoJournalIs, EntriesAre DEF ConfigInv, ConfigTypes, Recoverable
  <2>2. PICK editions \in SUBSET (0..edition) : expected' = editions
    BY <1>2, <1>3
  <2> QED
    BY <1>1, <1>3, <2>1, <2>2, AccessReturns DEF ConfigInv, ConfigTypes
<1>4. ASSUME NEW p \in {"stage", "backup", "remove"},
             access' = [access EXCEPT !.step = p], UNCHANGED expected,
             p = "backup" => directory # Config!Missing /\ directory.profile.schema = 1,
             p = "stage" => directory # Config!Missing \/ access.op = "add",
             p = "stage" /\ access.op = "add" => directory = Config!Missing,
             p = "remove" => directory # Config!Missing
      PROVE  ConfigInv'
  <2>1. /\ access'.step = p /\ access'.op = access.op
        /\ access' = [op |-> access'.op, step |-> access'.step, then |-> access'.then]
    BY <1>4, AccessAt DEF ConfigInv
  <2>2. p = "backup" => directory.profile \in Config!LegacyProfiles
    <3>1. p = "backup" => directory \in Wholes
      BY <1>4 DEF ConfigInv, ConfigTypes
    <3> QED
      BY <1>4, <3>1, EntriesAre DEF Profiles, NewProfiles
  <2>3. AccessKept'
    BY <1>1, <1>4, <2>1, <2>2 DEF ConfigInv, AccessKept, Saving
  <2> QED
    BY <1>1, <1>4, <2>1, <2>3, AccessGoesOn DEF ConfigSteps
<1>5. CASE directory = Config!Missing
  <2>1. CASE access.op = "add"
    BY <1>4, <1>5, <2>1 DEF Config!Read, Config!Step
  <2>2. CASE access.op # "add"
    BY <1>3, <1>5, <2>2, EntriesAre DEF Config!Read, Config!Answer
  <2> QED
    BY <2>1, <2>2
<1>6. CASE directory # Config!Missing
  <2>1. CASE Config!Answer({Config!EditionOf(directory)})
    BY <1>3, <2>1 DEF Config!Answer
  <2>2. CASE directory.profile.schema = 1 /\ Config!Step("backup") /\ UNCHANGED expected
    BY <1>4, <1>6, <2>2 DEF Config!Step
  <2>3. CASE /\ access.op # "add"
             /\ CASE access.op = "load" -> Config!Answer({Config!EditionOf(directory)})
                       [] access.op = "update" -> Config!Step("stage") /\ UNCHANGED expected
                       [] access.op = "remove" -> Config!Step("remove") /\ UNCHANGED expected
    <3>1. access.op \in {"load", "update", "remove"}
      BY <1>1, <2>3 DEF ConfigInv, AccessKept
    <3> QED
      BY <1>3, <1>4, <1>6, <2>3, <3>1 DEF Config!Step, Config!Answer
  <2> QED
    BY <1>6, <2>1, <2>2, <2>3 DEF Config!Read
<1> QED
  BY <1>5, <1>6

LEMMA MigrateBackupKeeps ==
    ASSUME ConfigInv, Config!MigrateBackup
    PROVE  ConfigInv'
<1>1. /\ access.step = "backup" /\ UNCHANGED <<journal, edition>>
      /\ ~journal.here /\ journal = Config!NoJournal /\ directory # Config!Missing
      /\ directory.profile \in Config!LegacyProfiles
      /\ directory \in Wholes /\ Config!EditionOf(directory) = directory.edition
      /\ directory.edition \in expected
  BY EntriesAre DEF Config!MigrateBackup, ConfigInv, ConfigTypes, AccessKept, Recoverable
<1>2. CASE Config!Answer({Config!EditionOf(directory)}) /\ UNCHANGED directory
  <2>1. access' = Config!NoAccess /\ expected' = {directory.edition}
    BY <1>1, <1>2 DEF Config!Answer
  <2>2. Recoverable'
    BY <1>1, <1>2, <2>1 DEF Recoverable
  <2>3. PICK editions \in SUBSET (0..edition) : expected' = editions
    BY <1>1, <2>1 DEF ConfigInv, ConfigTypes
  <2> QED
    BY <1>1, <1>2, <2>1, <2>2, <2>3, AccessReturns DEF ConfigInv, ConfigTypes
<1>3. CASE /\ directory' = [directory EXCEPT !.backup = TRUE]
           /\ access' = [access EXCEPT !.step = "migrate"] /\ UNCHANGED expected
  <2>1. directory' \in Wholes /\ directory'.edition = directory.edition
        /\ directory'.profile = directory.profile /\ directory' # Config!Missing
    <3>1. directory' \in Wholes /\ directory'.edition = directory.edition
          /\ directory'.profile = directory.profile
      BY <1>1, <1>3 DEF Wholes
    <3> QED
      BY <3>1, EntriesAre
  <2>2. /\ access'.step = "migrate" /\ access'.op = access.op
        /\ access' = [op |-> access'.op, step |-> access'.step, then |-> access'.then]
    BY <1>3, AccessAt DEF ConfigInv
  <2>3. ConfigTypes'
    BY <1>1, <1>3, <2>1, <2>2 DEF ConfigInv, ConfigTypes, ConfigSteps, Upto
  <2>4. Recoverable'
    BY <1>1, <1>3, <2>1 DEF Recoverable
  <2>5. AccessKept'
    BY <1>1, <2>1, <2>2 DEF ConfigInv, AccessKept, Saving
  <2> QED
    BY <2>3, <2>4, <2>5 DEF ConfigInv
<1> QED
  BY <1>2, <1>3 DEF Config!MigrateBackup, Config!Step

LEMMA MigratedIsNew ==
    ASSUME NEW p \in Config!LegacyProfiles
    PROVE  Config!Migrated(p) \in NewProfiles
<1>1. /\ p.target \in {"none", "manual", "manager"} /\ p.binding \in {"none", "same", "other"}
      /\ p.auto \in BOOLEAN
  BY DEF Config!LegacyProfiles
<1> DEFINE a == p.auto /\ (p.target = "manual" \/ (p.target = "none" /\ p.binding = "none"))
           t == IF p.target = "manual" THEN "manual" ELSE "none"
           b == IF p.binding = "none" /\ p.target # "manager" THEN "none" ELSE "needs_rebind"
<1>2. /\ a \in BOOLEAN /\ t \in {"none", "manual"} /\ b \in {"none", "needs_rebind"}
      /\ a => t = "manual" \/ b = "none"
  BY <1>1
<1>3. Config!Migrated(p) = [schema |-> 4, target |-> t, auto |-> a, binding |-> b]
  BY DEF Config!Migrated
<1> HIDE DEF a, t, b
<1> QED
  BY <1>2, <1>3 DEF NewProfiles

LEMMA MigrateProfileKeeps ==
    ASSUME ConfigInv, Config!MigrateProfile
    PROVE  ConfigInv'
<1>1. /\ access.step = "migrate" /\ UNCHANGED <<journal, edition>>
      /\ ~journal.here /\ journal = Config!NoJournal /\ directory # Config!Missing
      /\ directory.profile \in Config!LegacyProfiles
      /\ directory \in Wholes /\ Config!EditionOf(directory) = directory.edition
      /\ directory.edition \in expected
  BY EntriesAre DEF Config!MigrateProfile, ConfigInv, ConfigTypes, AccessKept, Recoverable
<1>2. CASE Config!Answer({Config!EditionOf(directory)}) /\ UNCHANGED directory
  <2>1. access' = Config!NoAccess /\ expected' = {directory.edition}
    BY <1>1, <1>2 DEF Config!Answer
  <2>2. Recoverable'
    BY <1>1, <1>2, <2>1 DEF Recoverable
  <2>3. PICK editions \in SUBSET (0..edition) : expected' = editions
    BY <1>1, <2>1 DEF ConfigInv, ConfigTypes
  <2> QED
    BY <1>1, <1>2, <2>1, <2>2, <2>3, AccessReturns DEF ConfigInv, ConfigTypes
<1>3. CASE /\ directory' = [directory EXCEPT !.profile = Config!Migrated(@)]
           /\ access' = [access EXCEPT !.step = "recovered"] /\ UNCHANGED expected
  <2>1. directory' \in Wholes /\ directory'.edition = directory.edition
        /\ directory' # Config!Missing
    <3>1. Config!Migrated(directory.profile) \in Profiles
      BY <1>1, MigratedIsNew DEF Profiles
    <3>2. directory' \in Wholes /\ directory'.edition = directory.edition
      BY <1>1, <1>3, <3>1 DEF Wholes
    <3> QED
      BY <3>2, EntriesAre
  <2>2. /\ access'.step = "recovered" /\ access'.op = access.op
        /\ access' = [op |-> access'.op, step |-> access'.step, then |-> access'.then]
    BY <1>3, AccessAt DEF ConfigInv
  <2>3. ConfigTypes'
    BY <1>1, <1>3, <2>1, <2>2 DEF ConfigInv, ConfigTypes, ConfigSteps, Upto
  <2>4. Recoverable'
    BY <1>1, <1>3, <2>1 DEF Recoverable
  <2>5. AccessKept'
    BY <1>1, <2>2 DEF ConfigInv, AccessKept, Saving
  <2> QED
    BY <2>3, <2>4, <2>5 DEF ConfigInv
<1> QED
  BY <1>2, <1>3 DEF Config!MigrateProfile, Config!Step

LEMMA StageMarkerKeeps ==
    ASSUME ConfigInv, Config!StageMarker
    PROVE  ConfigInv'
<1>1. /\ access.step = "stage" /\ edition < MaxEditions /\ edition' = edition + 1
      /\ expected' = {Config!EditionOf(directory), edition'} /\ UNCHANGED directory
      /\ directory # Config!Missing \/ access.op = "add"
      /\ access.op \in {"load", "add", "update", "remove"}
      /\ access.op = "add" => directory = Config!Missing
  BY DEF Config!StageMarker, ConfigInv, AccessKept
<1>2. \/ access' = [access EXCEPT !.step = "marker"]
      \/ access' = [access EXCEPT !.step = "clear", !.then = "failed"]
  BY DEF Config!StageMarker, Config!Step
<1>3. /\ access' = [op |-> access'.op, step |-> access'.step, then |-> access'.then]
      /\ access'.op = access.op
      /\ access'.step = "marker" \/ (access'.step = "clear" /\ access'.then = "failed")
  BY <1>2, AccessAt, AccessClears DEF ConfigInv
<1>4. edition \in Nat /\ edition' \in 1..MaxEditions /\ edition' = edition + 1
  BY <1>1, ConfigAssumption DEF ConfigInv, ConfigTypes
<1>5. /\ directory # Config!Missing => directory \in Wholes /\ directory.edition \in 1..edition
                                       /\ Config!EditionOf(directory) = directory.edition
      /\ directory = Config!Missing => Config!EditionOf(directory) = 0
  BY EntriesAre DEF ConfigInv, ConfigTypes, Upto
<1>6. expected' \subseteq 0..edition' /\ edition' \in expected' /\ Upto(directory, edition')
      /\ Config!EditionOf(directory) # edition' /\ Config!EditionOf(directory) \in expected'
  <2>1. PICK n \in 0..edition : n = Config!EditionOf(directory)
    BY <1>4, <1>5
  <2>2. expected' = {n, edition + 1}
    BY <1>1, <2>1
  <2>3. Upto(directory, edition')
    BY <1>4, <1>5, EntriesAre DEF Upto
  <2> QED
    BY <1>4, <2>1, <2>2, <2>3
<1>7. /\ journal'.here /\ journal'.marker = "none" /\ journal'.new = Config!Partial
      /\ journal'.old = Config!Missing
      /\ journal' = [here |-> journal'.here, marker |-> journal'.marker,
                     new |-> journal'.new, old |-> journal'.old]
  <2>1. PICK n, h, m, p, d : /\ n = Config!NoJournal /\ h = FALSE /\ m = Config!Missing
                             /\ p = Config!Partial /\ d = TRUE
    BY Zenon
  <2>2. n = [here |-> h, marker |-> "none", new |-> m, old |-> m]
    BY <2>1, NoJournalIs, Zenon
  <2>3. journal' = [n EXCEPT !.here = d, !.new = p]
    BY <2>1 DEF Config!StageMarker
  <2>4. journal' = [here |-> d, marker |-> "none", new |-> p, old |-> m]
    BY <2>2, <2>3
  <2> QED
    <3>1. journal'.here = d /\ journal'.marker = "none" /\ journal'.new = p /\ journal'.old = m
          /\ journal' = [here |-> journal'.here, marker |-> journal'.marker,
                         new |-> journal'.new, old |-> journal'.old]
      BY <2>4
    <3>2. journal'.here
      BY <2>1, <3>1, Zenon
    <3> QED
      BY <2>1, <3>1, <3>2
<1>8. ConfigTypes'
  BY <1>1, <1>3, <1>4, <1>5, <1>6, <1>7, EntriesAre
     DEF ConfigInv, ConfigTypes, ConfigSteps, Entries, Upto
<1>9. Recoverable'
  BY <1>1, <1>5, <1>6, <1>7, EntriesAre DEF Recoverable
<1>10. AccessKept'
  BY <1>1, <1>3, <1>5, <1>6, <1>7 DEF AccessKept, Saving
<1> QED
  BY <1>8, <1>9, <1>10 DEF ConfigInv

LEMMA StageFilesKeeps ==
    ASSUME ConfigInv, Config!StageFiles
    PROVE  ConfigInv'
<1>1. /\ access.step = "marker" /\ UNCHANGED <<directory, edition, expected>>
      /\ edition \in 1..MaxEditions /\ edition \in expected /\ journal.here
      /\ journal.old = Config!Missing
      /\ access.op \in {"load", "add", "update", "remove"}
      /\ directory = Config!Missing => access.op = "add"
      /\ access.op # "add" => directory # Config!Missing
      /\ directory # Config!Missing => directory.edition # edition
      /\ directory \in {Config!Missing} \cup Wholes
      /\ journal.new # Config!Partial => journal.new \in Wholes /\ journal.new.edition = edition
  BY DEF Config!StageFiles, ConfigInv, ConfigTypes, AccessKept, Saving
<1> DEFINE new == Config!Whole(edition, IF access.op = "add" THEN Config!FreshProfile
                                        ELSE directory.profile, FALSE)
           Whole == journal' = [here |-> journal'.here, marker |-> journal'.marker,
                                new |-> journal'.new, old |-> journal'.old]
           Same == journal'.here = journal.here /\ journal'.old = journal.old
           Put == access' = [op |-> access'.op, step |-> access'.step, then |-> access'.then]
                  /\ access'.op = access.op
<1>2. new \in Wholes /\ new.edition = edition
  <2>1. Config!FreshProfile \in Profiles
    BY DEF Config!FreshProfile, Profiles, NewProfiles
  <2>2. PICK p \in Profiles :
           p = IF access.op = "add" THEN Config!FreshProfile ELSE directory.profile
    BY <1>1, <2>1, EntriesAre
  <2>3. PICK b \in BOOLEAN : b = FALSE
    BY Zenon
  <2>4. new = [state |-> "whole", edition |-> edition, profile |-> p, backup |-> b]
    BY <2>2, <2>3, Zenon DEF Config!Whole
  <2> HIDE DEF new
  <2> QED
    BY <1>1, <2>4 DEF Wholes
<1> HIDE DEF new
<1>3. /\ Whole /\ Same /\ Put
      /\ journal'.marker \in {"none", "preparing", "ready"}
      /\ journal'.new = journal.new \/ (journal'.new = new)
      /\ \/ access'.step = "marker"
         \/ access'.step = "clear" /\ access'.then = "failed"
         \/ access'.step = "moveOld" /\ journal'.marker = "ready"
                /\ journal'.new = journal.new /\ journal.new # Config!Partial
  <2>1. CASE journal' = [journal EXCEPT !.marker = "preparing"] /\ UNCHANGED access
    BY <1>1, <2>1 DEF ConfigInv, ConfigTypes
  <2>2. CASE journal' = [journal EXCEPT !.new = new] /\ UNCHANGED access
    BY <1>1, <2>2 DEF ConfigInv, ConfigTypes
  <2>3. CASE /\ journal.new # Config!Partial
             /\ journal' = [journal EXCEPT !.marker = "ready"]
             /\ access' = [access EXCEPT !.step = "moveOld"]
    BY <1>1, <2>3, AccessAt DEF ConfigInv, ConfigTypes
  <2>4. CASE access' = [access EXCEPT !.step = "clear", !.then = "failed"] /\ UNCHANGED journal
    BY <1>1, <2>4, AccessClears DEF ConfigInv, ConfigTypes
  <2> QED
    BY <2>1, <2>2, <2>3, <2>4 DEF Config!StageFiles, Config!Step, new
<1>4. ConfigTypes'
  <2>1. journal'.new \in Entries /\ Upto(journal'.new, edition)
    BY <1>1, <1>2, <1>3 DEF ConfigInv, ConfigTypes, Entries, Upto
  <2> QED
    BY <1>1, <1>3, <2>1 DEF ConfigInv, ConfigTypes, ConfigSteps, Upto
<1>5. journal'.new = Config!Partial \/ (journal'.new \in Wholes /\ journal'.new.edition = edition)
  BY <1>1, <1>2, <1>3
<1>6. Recoverable'
  BY <1>1, <1>3, <1>5, EntriesAre DEF ConfigInv, Recoverable
<1>7. AccessKept'
  BY <1>1, <1>3, <1>5 DEF AccessKept, Saving
<1> QED
  BY <1>4, <1>6, <1>7 DEF ConfigInv

LEMMA MoveOldKeeps ==
    ASSUME ConfigInv, Config!MoveOld
    PROVE  ConfigInv'
<1>1. /\ access.step = "moveOld" /\ UNCHANGED edition /\ journal.here
      /\ edition \in expected /\ journal.old = Config!Missing
      /\ access.op \in {"load", "add", "update", "remove"}
      /\ directory = Config!Missing => access.op = "add"
      /\ directory # Config!Missing => directory.edition # edition
      /\ journal.marker = "ready" /\ journal.new \in Wholes /\ journal.new.edition = edition
      /\ directory \in {Config!Missing} \cup Wholes
  BY EntriesAre DEF Config!MoveOld, ConfigInv, ConfigTypes, AccessKept, Saving
<1>2. CASE directory # Config!Missing /\ Config!Answer(expected \ {edition})
           /\ UNCHANGED <<directory, journal>>
  <2>1. access' = Config!NoAccess /\ expected' = expected \ {edition}
    BY <1>2 DEF Config!Answer
  <2>2. Recoverable'
    BY <1>1, <1>2, <2>1 DEF ConfigInv, Recoverable
  <2>3. PICK editions \in SUBSET (0..edition) : expected' = editions
    BY <2>1 DEF ConfigInv, ConfigTypes
  <2> QED
    BY <1>1, <1>2, <2>1, <2>2, <2>3, AccessReturns DEF ConfigInv, ConfigTypes
<1>3. CASE /\ access' = [access EXCEPT !.step = "publish"]
           /\ journal' = [journal EXCEPT !.old = directory]
           /\ directory' = Config!Missing /\ UNCHANGED expected
  <2>1. /\ access'.step = "publish" /\ access'.op = access.op
        /\ access' = [op |-> access'.op, step |-> access'.step, then |-> access'.then]
    BY <1>3, AccessAt DEF ConfigInv
  <2>2. /\ journal' = [here |-> journal'.here, marker |-> journal'.marker,
                       new |-> journal'.new, old |-> journal'.old]
        /\ journal'.here = journal.here /\ journal'.marker = journal.marker
        /\ journal'.new = journal.new /\ journal'.old = directory
    BY <1>3 DEF ConfigInv, ConfigTypes
  <2>3. ConfigTypes'
    BY <1>1, <1>3, <2>1, <2>2, EntriesAre
       DEF ConfigInv, ConfigTypes, ConfigSteps, Entries, Upto
  <2>4. Recoverable'
    BY <1>1, <1>3, <2>2, EntriesAre DEF ConfigInv, Recoverable
  <2>5. AccessKept'
    BY <1>1, <1>3, <2>1, <2>2 DEF AccessKept, Saving
  <2> QED
    BY <2>3, <2>4, <2>5 DEF ConfigInv
<1> QED
  BY <1>2, <1>3 DEF Config!MoveOld, Config!Step

LEMMA PublishKeeps ==
    ASSUME ConfigInv, Config!Publish
    PROVE  ConfigInv'
<1>1. /\ access.step = "publish" /\ UNCHANGED edition /\ journal.here
      /\ edition \in expected /\ directory = Config!Missing
      /\ access.op \in {"load", "add", "update", "remove"}
      /\ journal.old = Config!Missing => access.op = "add" /\ 0 \in expected
      /\ journal.old # Config!Missing => journal.old \in Wholes /\ journal.old.edition # edition
                                         /\ journal.old.edition \in expected
      /\ journal.marker = "ready" /\ journal.new \in Wholes /\ journal.new.edition = edition
  BY EntriesAre DEF Config!Publish, ConfigInv, AccessKept, Recoverable
<1>2. CASE journal.old # Config!Missing /\ Config!Answer(expected \ {edition})
           /\ UNCHANGED <<directory, journal>>
  <2>1. access' = Config!NoAccess /\ expected' = expected \ {edition}
    BY <1>2 DEF Config!Answer
  <2>2. Recoverable'
    BY <1>1, <1>2, <2>1 DEF Recoverable
  <2>3. PICK editions \in SUBSET (0..edition) : expected' = editions
    BY <2>1 DEF ConfigInv, ConfigTypes
  <2> QED
    BY <1>1, <1>2, <2>1, <2>2, <2>3, AccessReturns DEF ConfigInv, ConfigTypes
<1>3. CASE /\ directory' = journal.new
           /\ journal' = [journal EXCEPT !.new = Config!Missing]
           /\ access' = [access EXCEPT !.step = "removeOld"] /\ UNCHANGED expected
  <2>1. /\ access'.step = "removeOld" /\ access'.op = access.op
        /\ access' = [op |-> access'.op, step |-> access'.step, then |-> access'.then]
    BY <1>3, AccessAt DEF ConfigInv
  <2>2. /\ journal' = [here |-> journal'.here, marker |-> journal'.marker,
                       new |-> journal'.new, old |-> journal'.old]
        /\ journal'.here = journal.here /\ journal'.marker = journal.marker
        /\ journal'.new = Config!Missing /\ journal'.old = journal.old
    BY <1>3 DEF ConfigInv, ConfigTypes
  <2>3. ConfigTypes'
    BY <1>1, <1>3, <2>1, <2>2, EntriesAre
       DEF ConfigInv, ConfigTypes, ConfigSteps, Entries, Upto
  <2>4. Recoverable'
    BY <1>1, <1>3, <2>2, EntriesAre DEF Recoverable
  <2>5. AccessKept'
    BY <1>1, <1>3, <2>1, <2>2, EntriesAre DEF AccessKept, Saving
  <2> QED
    BY <2>3, <2>4, <2>5 DEF ConfigInv
<1>4. CASE /\ directory' = journal.old
           /\ journal' = [journal EXCEPT !.old = Config!Missing]
           /\ access' = [access EXCEPT !.step = "clear", !.then = "failed"]
           /\ UNCHANGED expected
  <2>1. /\ access'.step = "clear" /\ access'.op = access.op /\ access'.then = "failed"
        /\ access' = [op |-> access'.op, step |-> access'.step, then |-> access'.then]
    BY <1>4, AccessClears DEF ConfigInv
  <2>2. /\ journal' = [here |-> journal'.here, marker |-> journal'.marker,
                       new |-> journal'.new, old |-> journal'.old]
        /\ journal'.here = journal.here /\ journal'.marker = journal.marker
        /\ journal'.new = journal.new /\ journal'.old = Config!Missing
    BY <1>4 DEF ConfigInv, ConfigTypes
  <2>3. ConfigTypes'
    BY <1>1, <1>4, <2>1, <2>2, EntriesAre
       DEF ConfigInv, ConfigTypes, ConfigSteps, Entries, Upto
  <2>4. Recoverable'
    BY <1>1, <1>4, <2>2, EntriesAre DEF Recoverable
  <2>5. AccessKept'
    BY <1>1, <1>4, <2>1, <2>2, EntriesAre DEF AccessKept, Saving
  <2> QED
    BY <2>3, <2>4, <2>5 DEF ConfigInv
<1> QED
  BY <1>2, <1>3, <1>4 DEF Config!Publish, Config!Step

LEMMA RemoveOldKeeps ==
    ASSUME ConfigInv, Config!RemoveOld
    PROVE  ConfigInv'
<1>1. /\ access.step = "removeOld" /\ UNCHANGED <<directory, edition>> /\ journal.here
      /\ directory \in Wholes /\ directory # Config!Missing
      /\ directory.edition \in expected
      /\ access.op \in {"load", "add", "update", "remove"}
      /\ Config!EditionOf(directory) = directory.edition
  BY EntriesAre DEF Config!RemoveOld, ConfigInv, ConfigTypes, AccessKept, Recoverable
<1>2. CASE Config!Answer({Config!EditionOf(directory)}) /\ UNCHANGED journal
  <2>1. access' = Config!NoAccess /\ expected' = {directory.edition}
    BY <1>1, <1>2 DEF Config!Answer
  <2>2. Recoverable'
    BY <1>1, <1>2, <2>1 DEF Recoverable
  <2>3. PICK editions \in SUBSET (0..edition) : expected' = editions
    BY <1>1, <2>1 DEF ConfigInv, ConfigTypes
  <2> QED
    BY <1>1, <1>2, <2>1, <2>2, <2>3, AccessReturns DEF ConfigInv, ConfigTypes
<1>3. CASE /\ journal' = [journal EXCEPT !.old = IF @ = Config!Partial THEN Config!Missing
                                                 ELSE Config!Partial]
           /\ UNCHANGED <<access, expected>>
  <2>1. /\ journal' = [here |-> journal'.here, marker |-> journal'.marker,
                       new |-> journal'.new, old |-> journal'.old]
        /\ journal'.here = journal.here /\ journal'.marker = journal.marker
        /\ journal'.new = journal.new /\ journal'.old \in {Config!Missing, Config!Partial}
    BY <1>3 DEF ConfigInv, ConfigTypes
  <2>2. ConfigTypes'
    BY <1>1, <1>3, <2>1, EntriesAre DEF ConfigInv, ConfigTypes, Entries, Upto
  <2>3. Recoverable'
    BY <1>1, <1>3, <2>1 DEF Recoverable
  <2>4. AccessKept'
    BY <1>1, <1>3, <2>1 DEF AccessKept, Saving
  <2> QED
    BY <2>2, <2>3, <2>4 DEF ConfigInv
<1>4. CASE /\ access' = [access EXCEPT !.step = "clear", !.then = "saved"]
           /\ UNCHANGED <<journal, expected>>
  <2>1. /\ access'.step = "clear" /\ access'.op = access.op /\ access'.then = "saved"
        /\ access' = [op |-> access'.op, step |-> access'.step, then |-> access'.then]
    BY <1>4, AccessClears DEF ConfigInv
  <2>2. AccessKept'
    BY <1>1, <1>4, <2>1 DEF AccessKept, Saving
  <2> QED
    BY <1>1, <1>4, <2>1, <2>2, AccessGoesOn DEF ConfigSteps
<1> QED
  BY <1>2, <1>3, <1>4 DEF Config!RemoveOld

LEMMA RemoveDirectoryKeeps ==
    ASSUME ConfigInv, Config!RemoveDirectory
    PROVE  ConfigInv'
<1>1. /\ access.step = "remove" /\ UNCHANGED <<journal, edition>>
      /\ journal = Config!NoJournal /\ directory # Config!Missing
      /\ directory \in Wholes /\ directory.edition \in expected
      /\ Config!EditionOf(directory) = directory.edition
  BY EntriesAre DEF Config!RemoveDirectory, ConfigInv, ConfigTypes, AccessKept, Recoverable
<1>2. /\ access' = Config!NoAccess
      /\ \/ directory' = Config!Missing /\ expected' = {0}
         \/ directory' = directory /\ expected' = {directory.edition}
  BY <1>1 DEF Config!RemoveDirectory, Config!Answer
<1>3. Recoverable'
  BY <1>1, <1>2, NoJournalIs, EntriesAre DEF Recoverable
<1>4. PICK editions \in SUBSET (0..edition) : expected' = editions
  BY <1>1, <1>2 DEF ConfigInv, ConfigTypes
<1>5. directory' \in {Config!Missing} \cup Wholes /\ Upto(directory', edition)
  BY <1>1, <1>2, EntriesAre DEF ConfigInv, ConfigTypes, Upto
<1> QED
  BY <1>1, <1>2, <1>3, <1>4, <1>5, AccessReturns

LEMMA ConfigKeeps ==
    ASSUME ConfigInv, Config!ConfigNext
    PROVE  ConfigInv'
BY BeginKeeps, RefuseKeeps, RecoverKeeps, ClearKeeps, ClearedKeeps, ReadKeeps,
   MigrateBackupKeeps, MigrateProfileKeeps, StageMarkerKeeps, StageFilesKeeps, MoveOldKeeps,
   PublishKeeps, RemoveOldKeeps, RemoveDirectoryKeeps, StopKeeps DEF Config!ConfigNext

LEMMA ConfigRests ==
    ASSUME ConfigInv, UNCHANGED Config!configVars
    PROVE  ConfigInv'
<1>1. UNCHANGED <<directory, journal, access, edition, expected>>
  BY DEF Config!configVars
<1>2. ConfigTypes'
  BY <1>1 DEF ConfigInv, ConfigTypes
<1>3. Recoverable'
  BY <1>1 DEF ConfigInv, Recoverable
<1>4. AccessKept'
  BY <1>1 DEF ConfigInv, AccessKept, Saving
<1> QED
  BY <1>2, <1>3, <1>4 DEF ConfigInv

LEMMA ConfigIsWhole ==
    ASSUME ConfigInv
    PROVE  Config!ConfigTypeOK /\ Config!ConfigStoreHolds
<1>1. Config!ConfigTypeOK
  BY EntriesAre, ConfigAssumption DEF ConfigInv, ConfigTypes, Config!ConfigTypeOK
<1>2. Config!DirectoryIsOldOrNew
  <2>1. access.step = "recovered" => journal = Config!NoJournal
    BY DEF ConfigInv, AccessKept
  <2> QED
    BY <2>1, EntriesAre, NoJournalIs
       DEF ConfigInv, ConfigTypes, Recoverable, Config!DirectoryIsOldOrNew
<1>3. Config!MigrationIsUnauthoritative
  <2>1. ASSUME directory \in Wholes, directory.profile.schema = 4
        PROVE  directory.profile \in NewProfiles
    BY <2>1, EntriesAre DEF Profiles, Config!LegacyProfiles
  <2> QED
    BY <2>1, EntriesAre
       DEF ConfigInv, ConfigTypes, Config!MigrationIsUnauthoritative, NewProfiles
<1> QED
  BY <1>1, <1>2, <1>3 DEF Config!ConfigStoreHolds

-----------------------------------------------------------------------------
(* SdkConfig. *)

SwapKinds == {"anchor", "raw"}
Pairs == [project : {NoDirectory} \cup Sdk!ProjectDocuments,
          user : {NoDirectory} \cup Sdk!Declarations]
Journals == [here : BOOLEAN, phase : {"none", "prepared", "moved", "committed"},
             existed : [Sdk!Scopes -> BOOLEAN], staged : Pairs, previous : Pairs]
SdkSteps == {"idle", "recover", "rollBack", "clear", "ready", "prepare", "move", "moved",
             "publish", "published"}
SdkEdits == [op : {"none", "edit", "start"}, kind : SwapKinds, step : SdkSteps,
             scope : Sdk!Scopes, after : {"none", "raw", "ready", "failed", "saved"},
             doc : Pairs, given : BOOLEAN]

SdkTypes ==
    /\ anchor \in Pairs /\ restores \in [SwapKinds -> Journals] /\ editing \in SdkEdits
    /\ promised \subseteq Pairs
    /\ client \in {"stopped", "starting", "running"}
    /\ client = "stopped" => editing.step = "idle"
    /\ \A k \in SwapKinds : restores[k].here \/ restores[k] = Sdk!NoRestore
    /\ ~restores["anchor"].here \/ ~restores["raw"].here

\* A swap that is marked and not committed can be undone to the pair b: what was moved
\* away is b's, and what was not there before is not in b.
Pending(k) == restores[k].phase \in {"prepared", "moved"}
Restorable(b, k) ==
    /\ \A s \in Sdk!Covers(k) :
           /\ restores[k].previous[s] # NoDirectory => restores[k].previous[s] = b[s]
           /\ restores[k].previous[s] = NoDirectory /\ restores[k].phase = "prepared" =>
                  anchor[s] = b[s]
           /\ ~restores[k].existed[s] => b[s] = NoDirectory
    /\ \A s \in Sdk!Scopes \ Sdk!Covers(k) : anchor[s] = b[s]
Settled(pairs) ==
    /\ \A k \in SwapKinds : Pending(k) => \E b \in pairs : Restorable(b, k)
    /\ (\A k \in SwapKinds : ~Pending(k)) => anchor \in pairs

\* What a recovery in progress has reached.
RecoveryKept ==
    /\ editing.step = "recover" => Settled(Sdk!NotSaved)
    /\ editing.step \in {"recover", "rollBack", "clear"} =>
           /\ editing.after = "raw" => editing.kind = "anchor"
           /\ editing.after = "ready" => editing.kind = "raw" /\ ~restores["anchor"].here
           /\ editing.after # "none"
           /\ editing.after = "saved" => editing.step = "clear"
    /\ editing.step = "recover" /\ editing.after = "failed" => Pending(editing.kind)
    /\ editing.step = "rollBack" =>
           /\ Pending(editing.kind)
           /\ editing.scope = "user" => editing.kind = "anchor"
           /\ \E b \in Sdk!NotSaved :
                  /\ Restorable(b, editing.kind)
                  /\ editing.scope = "user" =>
                         /\ anchor["project"] = b["project"]
                         /\ restores[editing.kind].previous["project"] = NoDirectory
    /\ editing.step = "clear" =>
           /\ restores[editing.kind].here
           /\ editing.after = "saved" => /\ anchor = editing.doc /\ ~Pending(editing.kind)
                                         /\ editing.doc \in promised
           /\ editing.after # "saved" =>
                  /\ anchor \in Sdk!NotSaved
                  /\ Pending(editing.kind) => Restorable(anchor, editing.kind)

\* What the commit in progress has moved and published.
Uncovered == editing.kind = "raw" => editing.doc["user"] = anchor["user"]
Ahead(s) == s = "user" \/ editing.scope = "project"
CommitKept ==
    /\ editing.step = "ready" =>
           /\ \A k \in SwapKinds : ~restores[k].here
           /\ promised = {anchor} /\ editing.kind = "raw"
    /\ editing.step = "prepare" =>
           /\ Uncovered
           /\ editing.op = "edit" => editing.kind = "anchor"
           /\ \A k \in SwapKinds : k # editing.kind => ~restores[k].here
           /\ \A s \in Sdk!Scopes : restores[editing.kind].previous[s] = NoDirectory
           /\ ~Pending(editing.kind) =>
                  promised = {anchor} /\ restores[editing.kind].phase = "none"
           /\ Pending(editing.kind) => /\ promised = {anchor, editing.doc}
                                       /\ Restorable(anchor, editing.kind)
                                       /\ restores[editing.kind].phase = "prepared"
                                       /\ editing.kind = "raw"
           /\ editing.kind = "anchor" /\ restores["anchor"].here =>
                  restores["anchor"].staged = editing.doc
    /\ editing.step \in {"move", "moved", "publish", "published"} =>
           /\ editing.doc \in promised /\ Uncovered
           /\ \E b \in Sdk!NotSaved : Restorable(b, editing.kind)
    /\ editing.step \in {"move", "moved"} =>
           /\ restores[editing.kind].phase = "prepared"
           /\ \A s \in Sdk!Covers(editing.kind) :
                  restores[editing.kind].staged[s] = editing.doc[s]
    /\ editing.step = "move" =>
           \A s \in Sdk!Covers(editing.kind) :
               Ahead(s) => restores[editing.kind].previous[s] = NoDirectory
    /\ editing.step \in {"move", "publish"} /\ editing.scope = "user" =>
           editing.kind = "anchor"
    /\ editing.step = "publish" =>
           /\ restores[editing.kind].phase = "moved"
           /\ \A s \in Sdk!Covers(editing.kind) :
                  IF Ahead(s) THEN restores[editing.kind].staged[s] = editing.doc[s]
                  ELSE anchor[s] = editing.doc[s]
    /\ editing.step = "published" =>
           restores[editing.kind].phase = "moved" /\ anchor = editing.doc

SdkInv ==
    /\ SdkTypes /\ RecoveryKept /\ CommitKept
    /\ editing.step = "idle" => Settled(promised)
    /\ Sdk!UsedInputsSurvive

LEMMA ScopesAre ==
    /\ Sdk!Scopes = {"project", "user"} /\ Sdk!Covers("anchor") = Sdk!Scopes
    /\ Sdk!Covers("raw") = {"project"}
    /\ \A k \in SwapKinds : Sdk!Covers(k) \subseteq Sdk!Scopes
BY DEF Sdk!Scopes, Sdk!Covers, SwapKinds

LEMMA PairsAreEqual ==
    ASSUME NEW p \in Pairs, NEW q \in Pairs, \A s \in Sdk!Scopes : p[s] = q[s]
    PROVE  p = q
BY ScopesAre DEF Pairs

\* One directory of a pair is replaced, or removed.
LEMMA PairWith ==
    ASSUME NEW p \in Pairs, NEW s \in Sdk!Scopes, NEW q \in Pairs, NEW v,
           v = q[s] \/ v = NoDirectory
    PROVE  /\ [p EXCEPT ![s] = v] \in Pairs /\ [p EXCEPT ![s] = v][s] = v
           /\ \A t \in Sdk!Scopes \ {s} : [p EXCEPT ![s] = v][t] = p[t]
<1>1. CASE s = "project"
  BY <1>1, ScopesAre DEF Pairs
<1>2. CASE s = "user"
  BY <1>2, ScopesAre DEF Pairs
<1> QED
  BY <1>1, <1>2, ScopesAre

\* The same of what a step does to the live directories.
LEMMA AnchorPut ==
    ASSUME anchor \in Pairs, NEW s \in Sdk!Scopes, NEW v,
           v \in {NoDirectory} \cup {q[s] : q \in Pairs}, anchor' = [anchor EXCEPT ![s] = v]
    PROVE  /\ anchor' \in Pairs /\ anchor'[s] = v
           /\ \A t \in Sdk!Scopes \ {s} : anchor'[t] = anchor[t]
<1>2. CASE s = "project"
  <2>1. v \in {NoDirectory} \cup Sdk!ProjectDocuments
    BY <1>2 DEF Pairs
  <2> QED
    BY <1>2, <2>1, ScopesAre DEF Pairs
<1>3. CASE s = "user"
  <2>1. v \in {NoDirectory} \cup Sdk!Declarations
    BY <1>3 DEF Pairs
  <2> QED
    BY <1>3, <2>1, ScopesAre DEF Pairs
<1> QED
  BY <1>2, <1>3, ScopesAre

LEMMA NoPairIs ==
    /\ [s \in Sdk!Scopes |-> NoDirectory] \in Pairs
    /\ \A s \in Sdk!Scopes : [t \in Sdk!Scopes |-> NoDirectory][s] = NoDirectory
<1>1. [s \in Sdk!Scopes |-> NoDirectory] = [project |-> NoDirectory, user |-> NoDirectory]
  BY ScopesAre
<1> QED
  BY <1>1 DEF Pairs

LEMMA NoRestoreIs ==
    /\ Sdk!NoRestore \in Journals /\ ~Sdk!NoRestore.here /\ Sdk!NoRestore.phase = "none"
    /\ \A s \in Sdk!Scopes : Sdk!NoRestore.previous[s] = NoDirectory
    /\ Sdk!NoRestore.staged = [s \in Sdk!Scopes |-> NoDirectory]
    /\ Sdk!NoRestore.previous = [s \in Sdk!Scopes |-> NoDirectory]
<1>1. PICK p \in Pairs, b \in BOOLEAN, e \in [Sdk!Scopes -> BOOLEAN] :
         /\ p = [s \in Sdk!Scopes |-> NoDirectory] /\ b = FALSE
         /\ e = [s \in Sdk!Scopes |-> FALSE]
  <2>1. [s \in Sdk!Scopes |-> FALSE] \in [Sdk!Scopes -> BOOLEAN]
    OBVIOUS
  <2>2. FALSE \in BOOLEAN
    OBVIOUS
  <2> QED
    BY <2>1, <2>2, NoPairIs, Zenon
<1>2. Sdk!NoRestore = [here |-> b, phase |-> "none", existed |-> e, staged |-> p, previous |-> p]
  BY <1>1, Zenon DEF Sdk!NoRestore
<1>3. Sdk!NoRestore \in Journals /\ Sdk!NoRestore.here = b /\ Sdk!NoRestore.phase = "none"
      /\ Sdk!NoRestore.staged = p /\ Sdk!NoRestore.previous = p
  BY <1>1, <1>2 DEF Journals
<1>4. ~Sdk!NoRestore.here
  BY <1>1, <1>3, Zenon
<1> QED
  BY <1>1, <1>3, <1>4, NoPairIs

LEMMA NoEditIs ==
    /\ Sdk!NoEdit \in SdkEdits /\ Sdk!NoEdit.step = "idle" /\ Sdk!NoEdit.kind = "anchor"
<1>1. PICK p \in Pairs, b \in BOOLEAN :
         p = [s \in Sdk!Scopes |-> NoDirectory] /\ b = FALSE
  <2>1. FALSE \in BOOLEAN
    OBVIOUS
  <2> QED
    BY <2>1, NoPairIs, Zenon
<1>2. Sdk!NoEdit = [op |-> "none", kind |-> "anchor", step |-> "idle", scope |-> "project",
                    after |-> "none", doc |-> p, given |-> b]
  BY <1>1, Zenon DEF Sdk!NoEdit
<1> QED
  BY <1>1, <1>2, ScopesAre DEF SdkEdits, SdkSteps, SwapKinds

\* A journal is replaced by one with another phase, or with other entries.
LEMMA JournalPut ==
    ASSUME SdkTypes, NEW k \in SwapKinds, NEW j \in Journals,
           restores' = [restores EXCEPT ![k] = j]
    PROVE  /\ restores' \in [SwapKinds -> Journals] /\ restores'[k] = j
           /\ \A i \in SwapKinds \ {k} : restores'[i] = restores[i]
BY DEF SdkTypes

LEMMA JournalPhase ==
    ASSUME NEW j \in Journals, NEW p \in {"none", "prepared", "moved", "committed"}
    PROVE  LET n == [j EXCEPT !.phase = p] IN
           /\ n \in Journals /\ n.phase = p /\ n.staged = j.staged /\ n.previous = j.previous
           /\ n.existed = j.existed /\ n.here = j.here
BY DEF Journals

LEMMA JournalPrevious ==
    ASSUME NEW j \in Journals, NEW p \in Pairs
    PROVE  LET n == [j EXCEPT !.previous = p] IN
           /\ n \in Journals /\ n.phase = j.phase /\ n.staged = j.staged /\ n.previous = p
           /\ n.existed = j.existed /\ n.here = j.here
BY DEF Journals

LEMMA JournalStaged ==
    ASSUME NEW j \in Journals, NEW p \in Pairs
    PROVE  LET n == [j EXCEPT !.staged = p] IN
           /\ n \in Journals /\ n.phase = j.phase /\ n.staged = p /\ n.previous = j.previous
           /\ n.existed = j.existed /\ n.here = j.here
BY DEF Journals

\* An operation is over: what is on disk is settled.
LEMMA OperationEnds ==
    ASSUME SdkInv, anchor' \in Pairs, restores' \in [SwapKinds -> Journals],
           \A k \in SwapKinds : restores'[k].here \/ restores'[k] = Sdk!NoRestore,
           ~restores'["anchor"].here \/ ~restores'["raw"].here,
           editing' = Sdk!NoEdit, promised' \subseteq Pairs,
           client' \in {"stopped", "starting", "running"},
           Settled(promised)'
    PROVE  SdkInv'
<1>1. SdkTypes'
  BY NoEditIs DEF SdkTypes
<1>2. RecoveryKept' /\ CommitKept'
  BY NoEditIs DEF RecoveryKept, CommitKept
<1>3. Sdk!UsedInputsSurvive'
  BY NoEditIs DEF Sdk!UsedInputsSurvive
<1> QED
  BY <1>1, <1>2, <1>3 DEF SdkInv

LEMMA RecoveryGoesOn ==
    ASSUME SdkInv, anchor' \in Pairs, restores' \in [SwapKinds -> Journals],
           \A k \in SwapKinds : restores'[k].here \/ restores'[k] = Sdk!NoRestore,
           ~restores'["anchor"].here \/ ~restores'["raw"].here,
           editing' \in SdkEdits, editing'.step \in {"recover", "rollBack", "clear"},
           client' \in {"starting", "running"}, promised' \subseteq Pairs, RecoveryKept'
    PROVE  SdkInv'
<1>1. SdkTypes'
  BY DEF SdkTypes
<1>2. CommitKept'
  BY DEF CommitKept
<1>3. Sdk!UsedInputsSurvive'
  BY DEF Sdk!UsedInputsSurvive
<1> QED
  BY <1>1, <1>2, <1>3 DEF SdkInv

LEMMA CommitGoesOn ==
    ASSUME SdkInv, anchor' \in Pairs, restores' \in [SwapKinds -> Journals],
           \A k \in SwapKinds : restores'[k].here \/ restores'[k] = Sdk!NoRestore,
           ~restores'["anchor"].here \/ ~restores'["raw"].here,
           editing' \in SdkEdits,
           editing'.step \in {"ready", "prepare", "move", "moved", "publish", "published"},
           client' \in {"starting", "running"}, promised' \subseteq Pairs,
           CommitKept', Sdk!UsedInputsSurvive'
    PROVE  SdkInv'
<1>1. SdkTypes'
  BY DEF SdkTypes
<1>2. RecoveryKept'
  BY DEF RecoveryKept
<1> QED
  BY <1>1, <1>2 DEF SdkInv

LEMMA SdkStarts ==
    ASSUME Sdk!SdkInit
    PROVE  SdkInv
<1>1. /\ restores = [k \in SwapKinds |-> Sdk!NoRestore] /\ editing = Sdk!NoEdit
      /\ client = "running" /\ promised = {anchor}
  BY DEF Sdk!SdkInit, SwapKinds
<1>2. anchor \in Pairs
  <2>1. PICK b \in BOOLEAN : b = TRUE
    BY Zenon
  <2>2. [servers |-> [s \in Servers |-> "none"], defined |-> b] \in Sdk!ProjectDocuments
    BY DEF Sdk!ProjectDocuments, Sdk!Declarations
  <2>3. [servers |-> [s \in Servers |-> "none"], defined |-> TRUE] \in Sdk!ProjectDocuments
    BY <2>1, <2>2, Zenon
  <2>4. anchor \in [project : {NoDirectory, [servers |-> [s \in Servers |-> "none"],
                                             defined |-> TRUE]},
                    user : {NoDirectory} \cup Sdk!Declarations]
    BY DEF Sdk!SdkInit
  <2> QED
    BY <2>3, <2>4 DEF Pairs
<1>3. \A k \in SwapKinds : restores[k] = Sdk!NoRestore
  BY <1>1
<1>4. SdkTypes
  BY <1>1, <1>2, <1>3, NoRestoreIs, NoEditIs DEF SdkTypes, SwapKinds
<1>5. Settled(promised)
  BY <1>1, <1>3, NoRestoreIs DEF Settled, Pending
<1>6. RecoveryKept /\ CommitKept /\ Sdk!UsedInputsSurvive
  BY <1>1, NoEditIs DEF RecoveryKept, CommitKept, Sdk!UsedInputsSurvive
<1> QED
  BY <1>4, <1>5, <1>6 DEF SdkInv

\* What the next reader may find after a failure was promised before.
LEMMA NotSavedIs ==
    /\ Sdk!NotSaved \subseteq promised
    /\ editing.step \in {"recover", "rollBack", "clear"} /\ editing.after # "failed" =>
           Sdk!NotSaved = promised
BY DEF Sdk!NotSaved

LEMMA NotSavedStays ==
    ASSUME UNCHANGED promised, editing'.doc = editing.doc,
           (editing'.step \in {"recover", "rollBack", "clear"} /\ editing'.after # "failed")
               = (editing.step \in {"recover", "rollBack", "clear"} /\ editing.after # "failed")
    PROVE  Sdk!NotSaved' = Sdk!NotSaved
BY DEF Sdk!NotSaved

LEMMA SettledMore ==
    ASSUME NEW R, NEW S, R \subseteq S, Settled(R)
    PROVE  Settled(S)
BY DEF Settled

LEMMA SettledStays ==
    ASSUME NEW R, Settled(R), UNCHANGED <<anchor, restores>>
    PROVE  Settled(R)'
BY DEF Settled, Pending, Restorable

LEMMA SdkBusy ==
    ASSUME SdkInv, editing.step # "idle"
    PROVE  client \in {"starting", "running"}
BY DEF SdkInv, SdkTypes

LEMMA SdkOnDisk ==
    ASSUME SdkInv
    PROVE  /\ anchor \in Pairs /\ restores \in [SwapKinds -> Journals] /\ editing \in SdkEdits
           /\ \A k \in SwapKinds : restores[k].here \/ restores[k] = Sdk!NoRestore
           /\ ~restores["anchor"].here \/ ~restores["raw"].here
           /\ client \in {"stopped", "starting", "running"}
           /\ \A k \in SwapKinds : Pending(k) => restores[k].here
           /\ "anchor" \in SwapKinds /\ "raw" \in SwapKinds /\ editing.kind \in SwapKinds
           /\ promised \subseteq Pairs /\ Sdk!NotSaved \subseteq Pairs /\ editing.doc \in Pairs
<1>1. promised \subseteq Pairs /\ Sdk!NotSaved \subseteq Pairs
  BY NotSavedIs DEF SdkInv, SdkTypes
<1> QED
  BY <1>1, NoRestoreIs DEF SdkInv, SdkTypes, Pending, SwapKinds, SdkEdits

LEMMA EditFields ==
    ASSUME editing \in SdkEdits
    PROVE  editing = [op |-> editing.op, kind |-> editing.kind, step |-> editing.step,
                      scope |-> editing.scope, after |-> editing.after, doc |-> editing.doc,
                      given |-> editing.given]
BY DEF SdkEdits

LEMMA EditBegins ==
    ASSUME NEW op \in {"edit", "start"},
           editing' = [Sdk!NoEdit EXCEPT !.op = op, !.step = "recover", !.after = "raw"]
    PROVE  /\ editing' \in SdkEdits /\ editing'.kind = "anchor" /\ editing'.step = "recover"
           /\ editing'.after = "raw"
<1>1. PICK p, b, n : /\ p \in Pairs /\ b \in BOOLEAN /\ n = Sdk!NoEdit
                     /\ p = [s \in Sdk!Scopes |-> NoDirectory] /\ b = FALSE
  <2>1. FALSE \in BOOLEAN
    OBVIOUS
  <2> QED
    BY <2>1, NoPairIs, Zenon
<1>2. n = [op |-> "none", kind |-> "anchor", step |-> "idle", scope |-> "project",
                    after |-> "none", doc |-> p, given |-> b]
  BY <1>1, Zenon DEF Sdk!NoEdit
<1>3. editing' = [op |-> op, kind |-> "anchor", step |-> "recover", scope |-> "project",
                    after |-> "raw", doc |-> p, given |-> b]
  <2>1. editing' = [n EXCEPT !.op = op, !.step = "recover", !.after = "raw"]
    BY <1>1
  <2> QED
    BY <1>2, <2>1
<1>4. p \in Pairs /\ b \in BOOLEAN
  BY <1>1, Zenon
<1>5. editing' \in SdkEdits
  BY <1>3, <1>4, ScopesAre DEF SdkEdits, SdkSteps, SwapKinds
<1>6. editing'.kind = "anchor"
  <2>1. editing' = [n EXCEPT !.op = op, !.step = "recover", !.after = "raw"]
    BY <1>1
  <2>2. n.kind = "anchor"
    BY <1>1, NoEditIs
  <2>3. editing'.kind = n.kind
    BY <1>2, <2>1
  <2> QED
    BY <2>2, <2>3
<1>7. editing'.step = "recover"
  BY <1>3, <1>4
<1>8. editing'.after = "raw"
  BY <1>3, <1>4
<1> QED
  BY <1>5, <1>6, <1>7, <1>8

LEMMA SdkBegins ==
    ASSUME SdkInv, NEW op \in {"edit", "start"}, editing.step = "idle",
           editing' = [Sdk!NoEdit EXCEPT !.op = op, !.step = "recover", !.after = "raw"],
           UNCHANGED <<anchor, restores, promised>>, client' \in {"starting", "running"}
    PROVE  SdkInv'
<1>1. /\ editing' \in SdkEdits /\ editing'.kind = "anchor" /\ editing'.step = "recover"
      /\ editing'.after = "raw"
  BY EditBegins
<1>2. Sdk!NotSaved' = promised
  BY <1>1 DEF Sdk!NotSaved
<1>3. PICK R : R = promised
  OBVIOUS
<1>4. Settled(R)'
  BY <1>3, SettledStays DEF SdkInv
<1>5. Settled(Sdk!NotSaved)'
  BY <1>2, <1>3, <1>4 DEF Settled, Pending, Restorable
<1>6. RecoveryKept'
  BY <1>1, <1>5 DEF RecoveryKept
<1> QED
  BY <1>1, <1>6, SdkOnDisk, RecoveryGoesOn

LEMMA RecoveredKeeps ==
    ASSUME SdkInv, editing.step \in {"recover", "clear"}, Sdk!Recovered, UNCHANGED anchor,
           restores' \in [SwapKinds -> Journals],
           \A k \in SwapKinds : restores'[k].here \/ restores'[k] = Sdk!NoRestore,
           ~restores'["anchor"].here \/ ~restores'["raw"].here,
           ~restores'[editing.kind].here,
           \A k \in SwapKinds : k # editing.kind => restores'[k] = restores[k],
           NEW R, R = Sdk!NotSaved, editing.after # "saved" => Settled(R)'
    PROVE  SdkInv'
<1>1. /\ editing.after = "raw" => editing.kind = "anchor"
      /\ editing.after = "ready" => editing.kind = "raw" /\ ~restores["anchor"].here
      /\ editing.after \in {"raw", "ready", "failed", "saved"}
      /\ editing.after = "saved" => /\ editing.step = "clear" /\ restores[editing.kind].here
                                    /\ anchor = editing.doc
  BY DEF SdkInv, RecoveryKept, SdkTypes, SdkEdits
<1>2. CASE editing.after = "raw"
  <2>1. /\ editing' = [editing EXCEPT !.kind = "raw", !.step = "recover", !.after = "ready"]
        /\ UNCHANGED <<client, promised>>
    BY <1>2 DEF Sdk!Recovered
  <2>2. editing' = [op |-> editing.op, kind |-> "raw", step |-> "recover",
                      scope |-> editing.scope, after |-> "ready", doc |-> editing.doc,
                      given |-> editing.given]
    BY <2>1, EditFields, SdkOnDisk
  <2>3. editing' \in SdkEdits /\ editing'.kind = "raw" /\ editing'.step = "recover"
        /\ editing'.after = "ready"
    BY <2>2, SdkOnDisk DEF SdkEdits, SdkSteps, SwapKinds
  <2>4. Sdk!NotSaved' = R
    BY <1>2, <2>1, <2>3, NotSavedIs DEF Sdk!NotSaved
  <2>5. Settled(Sdk!NotSaved)'
    BY <1>2, <2>4 DEF Settled, Pending, Restorable
  <2>6. RecoveryKept'
    BY <1>1, <1>2, <2>3, <2>5 DEF RecoveryKept
  <2> QED
    BY <2>1, <2>3, <2>6, SdkOnDisk, SdkBusy, RecoveryGoesOn
<1>3. CASE editing.after = "ready"
  <2>1. /\ editing' = [editing EXCEPT !.step = "ready"] /\ promised' = {anchor}
        /\ UNCHANGED client
    BY <1>3 DEF Sdk!Recovered, Sdk!At
  <2>2. editing' \in SdkEdits /\ editing'.step = "ready" /\ editing'.kind = "raw"
    BY <1>1, <1>3, <2>1, SdkOnDisk DEF SdkEdits, SdkSteps
  <2>3. \A k \in SwapKinds : ~restores'[k].here
    BY <1>1, <1>3 DEF SwapKinds
  <2>4. CommitKept'
    BY <2>1, <2>2, <2>3 DEF CommitKept
  <2>5. Sdk!UsedInputsSurvive'
    BY <2>2 DEF Sdk!UsedInputsSurvive
  <2> QED
    BY <2>1, <2>2, <2>4, <2>5, SdkOnDisk, SdkBusy, CommitGoesOn
<1>4. CASE editing.after = "failed"
  <2>1. /\ editing' = Sdk!NoEdit /\ promised' = R
        /\ client' = IF client = "starting" THEN "stopped" ELSE client
    BY <1>4 DEF Sdk!Recovered, Sdk!Fails, Sdk!Done
  <2>2. Settled(promised)'
    BY <1>4, <2>1 DEF Settled, Pending, Restorable
  <2> QED
    BY <2>1, <2>2, SdkOnDisk, OperationEnds
<1>5. CASE editing.after = "saved"
  <2>1. editing' = Sdk!NoEdit /\ promised' = {editing.doc} /\ client' = "running"
    BY <1>5 DEF Sdk!Recovered, Sdk!Saved, Sdk!Done
  <2>2. \A k \in SwapKinds : ~restores'[k].here
    BY <1>1, <1>5, SdkOnDisk DEF SwapKinds
  <2>3. \A k \in SwapKinds : ~Pending(k)'
    BY <2>2, NoRestoreIs DEF Pending
  <2>4. Settled(promised)'
    BY <1>1, <1>5, <2>1, <2>3 DEF Settled
  <2> QED
    BY <2>1, <2>4, SdkOnDisk, OperationEnds
<1> QED
  BY <1>1, <1>2, <1>3, <1>4, <1>5

LEMMA SdkFails ==
    ASSUME SdkInv, Sdk!Fails(Sdk!NotSaved), UNCHANGED <<anchor, restores>>,
           Settled(Sdk!NotSaved)
    PROVE  SdkInv'
<1>1. PICK R : R = Sdk!NotSaved
  OBVIOUS
<1>2. /\ editing' = Sdk!NoEdit /\ promised' = R
      /\ client' = IF client = "starting" THEN "stopped" ELSE client
  BY <1>1 DEF Sdk!Fails, Sdk!Done
<1>3. Settled(R)'
  BY <1>1, SettledStays
<1>4. Settled(promised)'
  BY <1>2, <1>3 DEF Settled, Pending, Restorable
<1> QED
  <2>1. promised' \subseteq Pairs
    BY <1>1, <1>2, SdkOnDisk
  <2> QED
    BY <1>2, <1>4, <2>1, SdkOnDisk, OperationEnds

LEMMA SdkRecoveryBegins ==
    ASSUME SdkInv, \/ Sdk!BeginEdit \/ Sdk!StartClient \/ Sdk!NothingToRecover
                   \/ Sdk!RefusesUnmarked
    PROVE  SdkInv'
<1>1. CASE Sdk!BeginEdit
  BY <1>1, SdkBegins DEF Sdk!BeginEdit, Sdk!Free
<1>2. CASE Sdk!StartClient
  BY <1>2, SdkBegins DEF Sdk!StartClient, SdkInv, SdkTypes
<1>3. CASE Sdk!NothingToRecover
  <2>1. /\ editing.step = "recover" /\ ~restores[editing.kind].here /\ Sdk!Recovered
        /\ UNCHANGED <<anchor, restores>>
    BY <1>3 DEF Sdk!NothingToRecover
  <2>2. PICK R : R = Sdk!NotSaved
    OBVIOUS
  <2>3. Settled(R)'
    BY <2>1, <2>2, SettledStays DEF SdkInv, RecoveryKept
  <2> QED
    BY <2>1, <2>2, <2>3, SdkOnDisk, RecoveredKeeps
<1>4. CASE Sdk!RefusesUnmarked
  BY <1>4, SdkFails DEF Sdk!RefusesUnmarked, SdkInv, RecoveryKept
<1> QED
  BY <1>1, <1>2, <1>3, <1>4

\* The operation takes a step, or turns to the other scope.
EditAt(p, s, a) ==
    /\ editing' \in SdkEdits /\ editing'.step = p /\ editing'.scope = s /\ editing'.after = a
    /\ editing'.op = editing.op /\ editing'.kind = editing.kind
    /\ editing'.doc = editing.doc /\ editing'.given = editing.given

LEMMA EditSteps ==
    ASSUME SdkInv, NEW p \in SdkSteps, NEW s \in Sdk!Scopes,
           NEW a \in {"none", "raw", "ready", "failed", "saved"},
           \/ /\ editing' = [editing EXCEPT !.step = p] /\ s = editing.scope
              /\ a = editing.after
           \/ /\ editing' = [editing EXCEPT !.scope = s] /\ p = editing.step
              /\ a = editing.after
           \/ editing' = [editing EXCEPT !.step = p, !.scope = s] /\ a = editing.after
           \/ editing' = [editing EXCEPT !.step = p, !.after = a] /\ s = editing.scope
    PROVE  EditAt(p, s, a)
<1>1. editing \in SdkEdits
  BY DEF SdkInv, SdkTypes
<1>2. editing' = [op |-> editing.op, kind |-> editing.kind, step |-> p, scope |-> s,
                  after |-> a, doc |-> editing.doc, given |-> editing.given]
  <2>1. CASE editing' = [editing EXCEPT !.step = p] /\ s = editing.scope /\ a = editing.after
    BY <1>1, <2>1, EditFields
  <2>2. CASE editing' = [editing EXCEPT !.scope = s] /\ p = editing.step /\ a = editing.after
    BY <1>1, <2>2, EditFields
  <2>3. CASE editing' = [editing EXCEPT !.step = p, !.scope = s] /\ a = editing.after
    BY <1>1, <2>3, EditFields
  <2>4. CASE editing' = [editing EXCEPT !.step = p, !.after = a] /\ s = editing.scope
    BY <1>1, <2>4, EditFields
  <2> QED
    BY <2>1, <2>2, <2>3, <2>4
<1>3. editing' \in SdkEdits
  BY <1>1, <1>2 DEF SdkEdits
<1> QED
  BY <1>2, <1>3 DEF EditAt

LEMMA NextScopeIs ==
    ASSUME SdkInv, NEW p \in SdkSteps, Sdk!NextScope(p)
    PROVE  \/ /\ editing.kind = "anchor" /\ editing.scope = "project"
              /\ EditAt(editing.step, "user", editing.after)
           \/ /\ editing.kind = "raw" \/ editing.scope = "user"
              /\ EditAt(p, editing.scope, editing.after)
<1>1. editing.step \in SdkSteps /\ editing.scope \in Sdk!Scopes
      /\ editing.after \in {"none", "raw", "ready", "failed", "saved"}
      /\ editing.kind \in {"anchor", "raw"} /\ "user" \in Sdk!Scopes
  BY ScopesAre DEF SdkInv, SdkTypes, SdkEdits, SwapKinds
<1>2. CASE editing.kind = "anchor" /\ editing.scope = "project"
  BY <1>1, <1>2, EditSteps DEF Sdk!NextScope
<1>3. CASE ~(editing.kind = "anchor" /\ editing.scope = "project")
  <2>1. editing' = [editing EXCEPT !.step = p]
    BY <1>3 DEF Sdk!NextScope
  <2>2. EditAt(p, editing.scope, editing.after)
    BY <1>1, <2>1, EditSteps
  <2> QED
    BY <1>1, <1>3, <2>2, ScopesAre
<1> QED
  BY <1>2, <1>3

LEMMA ExamineKeeps ==
    ASSUME SdkInv, Sdk!Examine
    PROVE  SdkInv'
<1> DEFINE k == editing.kind
<1>1. /\ editing.step = "recover" /\ restores[k].here
      /\ UNCHANGED <<anchor, restores, client, promised>>
      /\ Settled(Sdk!NotSaved) /\ k \in SwapKinds
      /\ editing.after \in {"raw", "ready", "failed"}
      /\ editing.after = "raw" => k = "anchor"
      /\ editing.after = "ready" => k = "raw" /\ ~restores["anchor"].here
      /\ editing.after = "failed" => Pending(k)
      /\ restores[k].phase \in {"none", "prepared", "moved", "committed"}
  BY SdkOnDisk DEF Sdk!Examine, SdkInv, RecoveryKept, SdkTypes, SdkEdits, Journals
<1>2. CASE /\ restores[k].phase \in {"none", "committed"}
           /\ editing' = [editing EXCEPT !.step = "clear"]
  <2>1. EditAt("clear", editing.scope, editing.after)
    BY <1>2, EditSteps, SdkOnDisk DEF SdkEdits, SdkSteps
  <2>2. \A i \in SwapKinds : ~Pending(i)
    BY <1>1, <1>2, SdkOnDisk DEF Pending, SwapKinds
  <2>3. anchor \in Sdk!NotSaved
    BY <1>1, <2>2 DEF Settled
  <2>4. Sdk!NotSaved' = Sdk!NotSaved
    BY <1>1, <2>1, NotSavedStays DEF EditAt
  <2>5. ~Pending(k)'
    BY <1>1, <2>1, <2>2 DEF Pending, EditAt
  <2>6. RecoveryKept'
    BY <1>1, <2>1, <2>2, <2>3, <2>4, <2>5 DEF RecoveryKept, EditAt
  <2> QED
    BY <1>1, <2>1, <2>6, SdkOnDisk, SdkBusy, RecoveryGoesOn DEF EditAt
<1>3. CASE /\ restores[k].phase \notin {"none", "committed"}
           /\ editing' = [editing EXCEPT !.step = "rollBack", !.scope = "project"]
  <2>1. EditAt("rollBack", "project", editing.after)
    BY <1>3, EditSteps, SdkOnDisk, ScopesAre DEF SdkEdits, SdkSteps
  <2>2. Pending(k)
    BY <1>1, <1>3 DEF Pending
  <2>3. PICK b \in Sdk!NotSaved : Restorable(b, k)
    BY <1>1, <2>2 DEF Settled
  <2>4. Sdk!NotSaved' = Sdk!NotSaved
    BY <1>1, <2>1, NotSavedStays DEF EditAt
  <2>5. Restorable(b, k)' /\ Pending(k)'
    BY <1>1, <2>1, <2>2, <2>3 DEF Restorable, Pending, EditAt
  <2>6. Restorable(b, editing.kind)' /\ Pending(editing.kind)'
    BY <2>1, <2>5 DEF EditAt, Restorable, Pending
  <2>7. RecoveryKept'
    BY <1>1, <2>1, <2>3, <2>4, <2>6 DEF RecoveryKept, EditAt
  <2> QED
    BY <1>1, <2>1, <2>7, SdkOnDisk, SdkBusy, RecoveryGoesOn DEF EditAt
<1> QED
  BY <1>2, <1>3 DEF Sdk!Examine, Sdk!At

LEMMA ClearEntryKeeps ==
    ASSUME SdkInv, Sdk!ClearEntry
    PROVE  SdkInv'
<1> DEFINE k == editing.kind
<1>1. /\ editing.step = "clear" /\ UNCHANGED <<anchor, editing, client, promised>>
      /\ k \in SwapKinds /\ restores[k] \in Journals /\ restores[k].here
  BY SdkOnDisk DEF Sdk!ClearEntry, SdkInv, RecoveryKept
<1> DEFINE j == restores[k]
<1>2. \E n \in Journals :
         /\ restores' = [restores EXCEPT ![k] = n] /\ n.here = j.here
         /\ n.existed = j.existed /\ n.phase \in {j.phase, "none"}
         /\ n.phase = "none" \/ n.previous = j.previous
                \/ (n.phase = j.phase /\ \A s \in Sdk!Scopes : n.previous[s] = NoDirectory)
  <2>1. CASE restores' = [restores EXCEPT ![k].phase = "none"]
    <3> DEFINE n == [j EXCEPT !.phase = "none"]
    <3>1. restores' = [restores EXCEPT ![k] = n]
      BY <2>1
    <3>2. n \in Journals /\ n.here = j.here /\ n.existed = j.existed /\ n.phase = "none"
      BY <1>1, JournalPhase
    <3> QED
      BY <3>1, <3>2
  <2>2. CASE restores' = [restores EXCEPT ![k]["staged"] = Sdk!NoRestore["staged"]]
    <3> DEFINE n == [j EXCEPT !.staged = Sdk!NoRestore.staged]
    <3>1. restores' = [restores EXCEPT ![k] = n]
      BY <2>2
    <3>2. Sdk!NoRestore.staged \in Pairs
      BY NoRestoreIs, NoPairIs
    <3>3. n \in Journals /\ n.here = j.here /\ n.existed = j.existed /\ n.phase = j.phase
          /\ n.previous = j.previous
      BY <1>1, <3>2, JournalStaged
    <3> QED
      BY <3>1, <3>3
  <2>3. CASE restores' = [restores EXCEPT ![k]["previous"] = Sdk!NoRestore["previous"]]
    <3> DEFINE n == [j EXCEPT !.previous = Sdk!NoRestore.previous]
    <3>1. restores' = [restores EXCEPT ![k] = n]
      BY <2>3
    <3>2. Sdk!NoRestore.previous \in Pairs
      BY NoRestoreIs, NoPairIs
    <3>3. n \in Journals /\ n.here = j.here /\ n.existed = j.existed /\ n.phase = j.phase
          /\ n.previous = Sdk!NoRestore.previous
      BY <1>1, <3>2, JournalPrevious
    <3> QED
      BY <3>1, <3>3, NoRestoreIs
  <2> QED
    BY <2>1, <2>2, <2>3 DEF Sdk!ClearEntry
<1>3. PICK n \in Journals :
         /\ restores' = [restores EXCEPT ![k] = n] /\ n.here = j.here
         /\ n.existed = j.existed /\ n.phase \in {j.phase, "none"}
         /\ n.phase = "none" \/ n.previous = j.previous
                \/ (n.phase = j.phase /\ \A s \in Sdk!Scopes : n.previous[s] = NoDirectory)
  BY <1>2
<1>4. /\ restores' \in [SwapKinds -> Journals] /\ restores'[k] = n
      /\ \A i \in SwapKinds \ {k} : restores'[i] = restores[i]
  BY <1>1, <1>3, JournalPut DEF SdkInv
<1>5. Pending(k)' => Pending(k)
  BY <1>1, <1>3, <1>4 DEF Pending
<1>6. ASSUME Restorable(anchor, k), Pending(k)' PROVE Restorable(anchor, k)'
  <2>1. n.phase = j.phase
    BY <1>1, <1>3, <1>4, <1>6 DEF Pending
  <2>2. \A s \in Sdk!Scopes : n.previous[s] \in {j.previous[s], NoDirectory}
    <3>1. n.phase # "none"
      BY <1>1, <1>4, <1>6 DEF Pending
    <3> QED
      BY <1>3, <3>1
  <2> QED
    BY <1>1, <1>3, <1>4, <1>6, <2>1, <2>2, ScopesAre DEF Restorable
<1>7. Sdk!NotSaved' = Sdk!NotSaved
  BY <1>1, NotSavedStays
<1>8. restores'[k].here
  BY <1>1, <1>3, <1>4
<1>9. /\ \A i \in SwapKinds : restores'[i].here \/ restores'[i] = Sdk!NoRestore
      /\ ~restores'["anchor"].here \/ ~restores'["raw"].here
      /\ \A i \in SwapKinds \ {k} : restores'[i].here = restores[i].here
  BY <1>1, <1>4, <1>8, SdkOnDisk DEF SwapKinds
<1>10. Restorable(anchor, k) /\ Pending(k)' => Restorable(anchor, editing.kind)'
  BY <1>1, <1>6 DEF Restorable
<1>11. RecoveryKept'
  BY <1>1, <1>5, <1>7, <1>8, <1>9, <1>10 DEF SdkInv, RecoveryKept, Pending, SwapKinds
<1> QED
  BY <1>1, <1>4, <1>9, <1>11, SdkOnDisk, SdkBusy, RecoveryGoesOn

LEMMA SdkClearedKeeps ==
    ASSUME SdkInv, Sdk!Cleared
    PROVE  SdkInv'
<1> DEFINE k == editing.kind
<1>1. /\ editing.step = "clear" /\ UNCHANGED anchor
      /\ k \in SwapKinds /\ restores[k] \in Journals /\ restores[k].here
      /\ editing.after = "saved" => /\ anchor = editing.doc /\ ~Pending(k)
      /\ editing.after # "saved" => /\ anchor \in Sdk!NotSaved
                                    /\ Pending(k) => Restorable(anchor, k)
      /\ \A i \in SwapKinds \ {k} : ~restores[i].here
  BY SdkOnDisk DEF Sdk!Cleared, SdkInv, RecoveryKept, SwapKinds
<1>2. \A i \in SwapKinds \ {k} : ~Pending(i)
  BY <1>1, SdkOnDisk
<1>3. CASE restores' = [restores EXCEPT ![k] = Sdk!NoRestore] /\ Sdk!Recovered
  <2>1. /\ restores' \in [SwapKinds -> Journals] /\ restores'[k] = Sdk!NoRestore
        /\ \A i \in SwapKinds \ {k} : restores'[i] = restores[i]
    BY <1>1, <1>3, JournalPut, NoRestoreIs DEF SdkInv
  <2>2. \A i \in SwapKinds : ~restores'[i].here /\ ~Pending(i)'
    BY <1>1, <1>2, <2>1, NoRestoreIs DEF Pending
  <2>3. PICK R : R = Sdk!NotSaved
    OBVIOUS
  <2>4. editing.after # "saved" => Settled(R)'
    BY <1>1, <2>2, <2>3 DEF Settled
  <2> QED
    BY <1>1, <1>3, <2>1, <2>2, <2>3, <2>4, SdkOnDisk, RecoveredKeeps DEF SwapKinds
<1>4. CASE /\ IF editing.after = "saved" THEN Sdk!Saved ELSE Sdk!Fails(Sdk!NotSaved)
           /\ UNCHANGED <<anchor, restores>>
  <2>1. CASE editing.after = "saved"
    <3>1. editing' = Sdk!NoEdit /\ promised' = {editing.doc} /\ client' = "running"
      BY <1>4, <2>1 DEF Sdk!Saved, Sdk!Done
    <3>2. Settled(promised)'
      BY <1>1, <1>2, <1>4, <2>1, <3>1 DEF Settled, Pending
    <3> QED
      BY <1>4, <3>1, <3>2, SdkOnDisk, OperationEnds
  <2>2. CASE editing.after # "saved"
    <3>1. Settled(Sdk!NotSaved)
      BY <1>1, <1>2, <2>2 DEF Settled
    <3> QED
      BY <1>4, <2>2, <3>1, SdkFails
  <2> QED
    BY <2>1, <2>2
<1> QED
  BY <1>3, <1>4 DEF Sdk!Cleared

\* The previous directory of the scope is back.
LEMMA ScopeIsBack ==
    ASSUME SdkInv, editing.step = "rollBack", NEW b \in Sdk!NotSaved,
           Restorable(b, editing.kind),
           editing.scope = "user" => anchor["project"] = b["project"]
                                  /\ restores[editing.kind].previous["project"] = NoDirectory,
           UNCHANGED <<client, promised>>, Sdk!NextScope("clear"),
           anchor' \in Pairs, anchor'[editing.scope] = b[editing.scope],
           \A t \in Sdk!Scopes \ {editing.scope} : anchor'[t] = anchor[t],
           restores' \in [SwapKinds -> Journals],
           \A i \in SwapKinds \ {editing.kind} : restores'[i] = restores[i],
           restores'[editing.kind].here = restores[editing.kind].here,
           restores'[editing.kind].phase = restores[editing.kind].phase,
           restores'[editing.kind].existed = restores[editing.kind].existed,
           restores'[editing.kind].previous[editing.scope] = NoDirectory,
           \A t \in Sdk!Scopes \ {editing.scope} :
               restores'[editing.kind].previous[t] = restores[editing.kind].previous[t]
    PROVE  SdkInv'
<1>0. PICK k, s : k = editing.kind /\ s = editing.scope
  OBVIOUS
<1>1. /\ k \in SwapKinds /\ Pending(k) /\ restores[k].here /\ s \in Sdk!Covers(k)
      /\ s \in Sdk!Scopes /\ b \in Pairs
      /\ s = "user" => k = "anchor"
      /\ editing.after \in {"raw", "ready", "failed"}
      /\ editing.after = "raw" => k = "anchor"
      /\ editing.after = "ready" => k = "raw" /\ ~restores["anchor"].here
  <2>1. k \in SwapKinds /\ s \in Sdk!Scopes /\ b \in Pairs
        /\ editing.after \in {"none", "raw", "ready", "failed", "saved"}
    BY <1>0, SdkOnDisk DEF SdkEdits
  <2>2. Pending(k) /\ (s = "user" => k = "anchor") /\ editing.after \notin {"none", "saved"}
        /\ (editing.after = "raw" => k = "anchor")
        /\ (editing.after = "ready" => k = "raw" /\ ~restores["anchor"].here)
    BY <1>0 DEF SdkInv, RecoveryKept
  <2>3. s \in Sdk!Covers(k)
    BY <2>1, <2>2, ScopesAre DEF SwapKinds
  <2> QED
    BY <2>1, <2>2, <2>3, SdkOnDisk
<1> DEFINE j == restores'[k]
<1>2. /\ restores' \in [SwapKinds -> Journals]
      /\ \A i \in SwapKinds \ {k} : restores'[i] = restores[i]
      /\ j.here = restores[k].here /\ j.phase = restores[k].phase
      /\ j.existed = restores[k].existed /\ j.previous[s] = NoDirectory
      /\ \A t \in Sdk!Scopes \ {s} : j.previous[t] = restores[k].previous[t]
      /\ anchor' \in Pairs /\ anchor'[s] = b[s] /\ Restorable(b, k)
      /\ \A t \in Sdk!Scopes \ {s} : anchor'[t] = anchor[t]
  BY <1>0
<1>3. restores'[k].here
  BY <1>1, <1>2
<1>4. /\ \A i \in SwapKinds : restores'[i].here \/ restores'[i] = Sdk!NoRestore
      /\ ~restores'["anchor"].here \/ ~restores'["raw"].here
      /\ editing.after = "ready" => ~restores'["anchor"].here
  BY <1>1, <1>2, <1>3, SdkOnDisk DEF SwapKinds
<1>5. /\ \/ /\ k = "anchor" /\ s = "project" /\ EditAt("rollBack", "user", editing.after)
         \/ (k = "raw" \/ s = "user") /\ EditAt("clear", s, editing.after)
  BY <1>0, NextScopeIs DEF SdkSteps
<1>6. editing' \in SdkEdits /\ editing'.kind = k /\ editing'.after = editing.after
  BY <1>0, <1>5 DEF EditAt
<1>7. Sdk!NotSaved' = Sdk!NotSaved
  BY <1>5, NotSavedStays DEF EditAt
<1>8. ASSUME NEW c, c = b PROVE Restorable(c, k)' /\ Restorable(c, editing.kind)'
  <2>1. \A t \in Sdk!Covers(k) :
            /\ j.previous[t] # NoDirectory => j.previous[t] = b[t]
            /\ j.previous[t] = NoDirectory /\ j.phase = "prepared" => anchor'[t] = b[t]
            /\ ~j.existed[t] => b[t] = NoDirectory
    BY <1>1, <1>2, ScopesAre DEF Restorable
  <2>2. \A t \in Sdk!Scopes \ Sdk!Covers(k) : anchor'[t] = b[t]
    BY <1>1, <1>2 DEF Restorable
  <2> QED
    BY <1>2, <1>6, <1>8, <2>1, <2>2 DEF Restorable
<1>9. Pending(editing.kind)'
  BY <1>1, <1>2, <1>6 DEF Pending
<1>10. CASE k = "anchor" /\ s = "project" /\ EditAt("rollBack", "user", editing.after)
  <2>1. anchor'["project"] = b["project"] /\ restores'[k].previous["project"] = NoDirectory
    BY <1>2, <1>10
  <2>2. /\ b \in Sdk!NotSaved' /\ Restorable(b, editing.kind)'
        /\ anchor'["project"] = b["project"]
        /\ restores'[editing'.kind].previous["project"] = NoDirectory
    BY <1>6, <1>7, <1>8, <2>1
  <2>3. RecoveryKept'
    BY <1>1, <1>4, <1>6, <1>9, <1>10, <2>2 DEF RecoveryKept, EditAt
  <2> QED
    BY <1>2, <1>4, <1>6, <1>10, <2>3, SdkOnDisk, SdkBusy, RecoveryGoesOn DEF EditAt
<1>11. CASE (k = "raw" \/ s = "user") /\ EditAt("clear", s, editing.after)
  <2>1. \A t \in Sdk!Scopes : anchor'[t] = b[t]
    BY <1>0, <1>1, <1>2, <1>11, ScopesAre DEF Restorable
  <2>2. anchor' = b
    BY <1>1, <1>2, <2>1, PairsAreEqual
  <2>3. PICK c : c = b
    OBVIOUS
  <2>4. Restorable(c, editing.kind)' /\ c = anchor'
    BY <1>8, <2>2, <2>3
  <2>5. Restorable(anchor, editing.kind)'
    BY <2>4 DEF Restorable
  <2>6. anchor' \in Sdk!NotSaved'
    BY <1>7, <2>2
  <2>7. RecoveryKept'
    BY <1>1, <1>3, <1>4, <1>6, <1>11, <2>5, <2>6 DEF RecoveryKept, EditAt
  <2> QED
    BY <1>2, <1>4, <1>6, <1>11, <2>7, SdkOnDisk, SdkBusy, RecoveryGoesOn DEF EditAt
<1> QED
  BY <1>5, <1>10, <1>11

LEMMA RollBackKeeps ==
    ASSUME SdkInv, Sdk!RollBack
    PROVE  SdkInv'
<1>0. PICK k, s : k = editing.kind /\ s = editing.scope
  OBVIOUS
<1> DEFINE j == restores[k]
<1>1. /\ editing.step = "rollBack" /\ k \in SwapKinds /\ Pending(k) /\ j.here
      /\ j \in Journals /\ s \in Sdk!Covers(k) /\ s \in Sdk!Scopes
      /\ anchor \in Pairs /\ j.phase \in {"prepared", "moved"}
  <2>1. editing.step = "rollBack" /\ k \in SwapKinds /\ s \in Sdk!Scopes
    BY <1>0, SdkOnDisk DEF Sdk!RollBack, SdkEdits
  <2>2. Pending(k) /\ (s = "user" => k = "anchor")
    BY <1>0, <2>1 DEF SdkInv, RecoveryKept
  <2>3. s \in Sdk!Covers(k)
    BY <2>1, <2>2, ScopesAre DEF SwapKinds
  <2>4. j.here /\ j \in Journals /\ anchor \in Pairs
    BY <2>1, <2>2, SdkOnDisk
  <2> QED
    BY <2>1, <2>2, <2>3, <2>4 DEF Pending
<1>2. PICK b \in Sdk!NotSaved :
         /\ Restorable(b, k)
         /\ s = "user" => anchor["project"] = b["project"]
                              /\ restores[k].previous["project"] = NoDirectory
  BY <1>0, <1>1 DEF SdkInv, RecoveryKept
<1>3. anchor \in Pairs /\ j.previous \in Pairs /\ b \in Pairs
  BY <1>1, <1>2, SdkOnDisk DEF Journals
<1>4. CASE Sdk!Fails(Sdk!NotSaved) /\ UNCHANGED <<anchor, restores>>
  <2>1. \A i \in SwapKinds : Pending(i) => i = k
    BY <1>1, SdkOnDisk DEF SwapKinds
  <2>2. Settled(Sdk!NotSaved)
    BY <1>1, <1>2, <2>1 DEF Settled
  <2> QED
    BY <1>4, <2>2, SdkFails
<1>5. CASE /\ j.previous[s] # NoDirectory
           /\ anchor' = [anchor EXCEPT ![s] = NoDirectory]
           /\ UNCHANGED <<restores, editing, client, promised>>
  <2>1. /\ anchor' \in Pairs /\ \A t \in Sdk!Scopes \ {s} : anchor'[t] = anchor[t]
    <3>1. PICK v : v = NoDirectory /\ anchor' = [anchor EXCEPT ![s] = v]
      BY <1>5
    <3>2. v \in {NoDirectory} \cup {q[s] : q \in Pairs}
      BY <3>1
    <3> QED
      BY <1>1, <3>1, <3>2, AnchorPut
  <2>2. Restorable(b, k)' /\ Restorable(b, editing.kind)'
    <3>1. \A t \in Sdk!Covers(k) : t # s => anchor'[t] = anchor[t]
      BY <2>1, <1>1, ScopesAre
    <3>2. \A t \in Sdk!Scopes \ Sdk!Covers(k) : anchor'[t] = anchor[t]
      BY <1>1, <2>1
    <3> QED
      BY <1>0, <1>2, <1>5, <3>1, <3>2 DEF Restorable
  <2>3. Sdk!NotSaved' = Sdk!NotSaved
    BY <1>5, NotSavedStays
  <2>4. s = "user" => anchor'["project"] = b["project"]
    BY <1>2, <2>1, ScopesAre
  <2>5. RecoveryKept'
    BY <1>0, <1>1, <1>2, <1>5, <2>2, <2>3, <2>4 DEF SdkInv, RecoveryKept, Pending
  <2> QED
    BY <1>1, <1>5, <2>1, <2>5, SdkOnDisk, SdkBusy, RecoveryGoesOn
<1>6. CASE /\ j.previous[s] # NoDirectory
           /\ anchor' = [anchor EXCEPT ![s] = j.previous[s]]
           /\ restores' = [restores EXCEPT ![k].previous[s] = NoDirectory]
           /\ Sdk!NextScope("clear") /\ UNCHANGED <<client, promised>>
  <2> DEFINE p == [j.previous EXCEPT ![s] = NoDirectory]
             n == [j EXCEPT !.previous = p]
  <2>1. /\ p \in Pairs /\ p[s] = NoDirectory
        /\ \A t \in Sdk!Scopes \ {s} : p[t] = j.previous[t]
    BY <1>1, <1>3, PairWith
  <2>2. /\ n \in Journals /\ n.here = j.here /\ n.phase = j.phase /\ n.existed = j.existed
        /\ n.previous = p
    BY <1>1, <2>1, JournalPrevious
  <2>3. restores' = [restores EXCEPT ![k] = n]
    BY <1>6
  <2>4. j.previous[s] = b[s]
    BY <1>1, <1>2, <1>6 DEF Restorable
  <2>5. /\ anchor' \in Pairs /\ anchor'[s] = b[s]
        /\ \A t \in Sdk!Scopes \ {s} : anchor'[t] = anchor[t]
    <3>1. PICK v : v = b[s] /\ anchor' = [anchor EXCEPT ![s] = v]
      BY <1>6, <2>4
    <3>2. v \in {NoDirectory} \cup {q[s] : q \in Pairs}
      BY <1>3, <3>1
    <3> QED
      BY <1>1, <3>1, <3>2, AnchorPut
  <2>6. /\ n.previous[s] = NoDirectory
        /\ \A t \in Sdk!Scopes \ {s} : n.previous[t] = restores[k].previous[t]
    BY <2>1, <2>2
  <2>7. /\ n \in Journals /\ n.here = restores[k].here /\ n.phase = restores[k].phase
        /\ n.existed = restores[k].existed
    BY <2>2
  <2>8. Sdk!NextScope("clear") /\ UNCHANGED <<client, promised>>
    BY <1>6
  <2>9. /\ restores' \in [SwapKinds -> Journals] /\ restores'[k] = n
        /\ \A i \in SwapKinds \ {k} : restores'[i] = restores[i]
    BY <1>1, <2>3, <2>7, JournalPut DEF SdkInv
  <2> HIDE DEF n, p
  <2> QED
    BY <1>0, <1>1, <1>2, <2>5, <2>6, <2>7, <2>8, <2>9, ScopeIsBack
<1>7. CASE /\ j.previous[s] = NoDirectory /\ ~(j.phase = "moved" /\ j.existed[s])
           /\ anchor' = [anchor EXCEPT ![s] = IF j.phase = "moved" THEN NoDirectory ELSE @]
           /\ Sdk!NextScope("clear") /\ UNCHANGED <<restores, client, promised>>
  <2>1. /\ j.phase = "moved" => b[s] = NoDirectory
        /\ j.phase # "moved" => anchor[s] = b[s]
    BY <1>1, <1>2, <1>7 DEF Restorable
  <2>2. PICK v : /\ v = IF j.phase = "moved" THEN NoDirectory ELSE anchor[s]
                 /\ anchor' = [anchor EXCEPT ![s] = v]
    BY <1>7
  <2>3. v = b[s]
    BY <2>1, <2>2
  <2>4. /\ anchor' \in Pairs /\ anchor'[s] = b[s]
        /\ \A t \in Sdk!Scopes \ {s} : anchor'[t] = anchor[t]
    <3>1. v \in {NoDirectory} \cup {q[s] : q \in Pairs}
      BY <1>3, <2>3
    <3> QED
      BY <1>1, <2>2, <2>3, <3>1, AnchorPut
  <2> QED
    BY <1>0, <1>1, <1>2, <1>7, <2>4, SdkOnDisk, ScopeIsBack
<1> QED
  BY <1>0, <1>4, <1>5, <1>6, <1>7 DEF Sdk!RollBack

\* What an edit makes of a pair is a pair.
Forms == {"none", "plain", "uses"}

\* A document is a directory.
LEMMA SdkAssumed ==
    \A o \in Sdk!ProjectDocuments : o # NoDirectory
BY StoresAssumption DEF StoresAssumption, Sdk!SdkAssumption

LEMMA ProjectOfIs ==
    ASSUME NEW p \in Pairs
    PROVE  /\ Sdk!ProjectOf(p) \in Sdk!ProjectDocuments
           /\ p.project # NoDirectory => Sdk!ProjectOf(p) = p.project
<1>1. CASE p.project = NoDirectory
  <2>1. PICK b \in BOOLEAN : b = FALSE
    <3>1. FALSE \in BOOLEAN
      OBVIOUS
    <3> QED
      BY <3>1, Zenon
  <2>2. [servers |-> [s \in Servers |-> "none"], defined |-> b] \in Sdk!ProjectDocuments
    BY DEF Sdk!ProjectDocuments, Sdk!Declarations
  <2>3. Sdk!ProjectOf(p) = [servers |-> [s \in Servers |-> "none"], defined |-> b]
    BY <1>1, <2>1, Zenon DEF Sdk!ProjectOf
  <2> QED
    BY <1>1, <2>2, <2>3
<1>2. CASE p.project # NoDirectory
  BY <1>2 DEF Pairs, Sdk!ProjectOf
<1> QED
  BY <1>1, <1>2

\* The Project directory of a pair is replaced.
LEMMA ProjectWith ==
    ASSUME NEW p \in Pairs, NEW o \in {NoDirectory} \cup Sdk!ProjectDocuments
    PROVE  /\ [p EXCEPT !.project = o] \in Pairs /\ [p EXCEPT !.project = o].project = o
           /\ [p EXCEPT !.project = o].user = p.user
BY DEF Pairs

LEMMA RedefinedIs ==
    ASSUME NEW p \in Pairs, NEW d \in BOOLEAN
    PROVE  /\ Sdk!Redefined(p, d) \in Pairs
           /\ Sdk!Redefined(p, d).project \in Sdk!ProjectDocuments
           /\ Sdk!Redefined(p, d).project.defined = d
<1> DEFINE o == [Sdk!ProjectOf(p) EXCEPT !.defined = d]
<1>1. o \in Sdk!ProjectDocuments /\ o.defined = d
  <2>1. Sdk!ProjectOf(p) \in Sdk!ProjectDocuments
    BY ProjectOfIs
  <2> QED
    BY <2>1 DEF Sdk!ProjectDocuments
<1>2. Sdk!Redefined(p, d) = [p EXCEPT !.project = o]
  BY DEF Sdk!Redefined
<1> HIDE DEF o
<1>3. /\ [p EXCEPT !.project = o] \in Pairs /\ [p EXCEPT !.project = o].project = o
  BY <1>1, ProjectWith
<1> QED
  BY <1>1, <1>2, <1>3

LEMMA DeclareIs ==
    ASSUME NEW p \in Pairs, NEW s \in Servers, NEW form \in Forms
    PROVE  /\ Sdk!Declare(p, s, form) \in Pairs
           /\ \/ Sdk!Declare(p, s, form).project = p.project
              \/ /\ Sdk!Declare(p, s, form).project \in Sdk!ProjectDocuments
                 /\ Sdk!Declare(p, s, form).project.defined = Sdk!ProjectOf(p).defined
           /\ Sdk!Import(p, s, form) \in Pairs
<1> DEFINE o == [Sdk!ProjectOf(p) EXCEPT !.servers[s] = form]
<1>1. o \in Sdk!ProjectDocuments /\ o.defined = Sdk!ProjectOf(p).defined
  <2>1. Sdk!ProjectOf(p) \in Sdk!ProjectDocuments
    BY ProjectOfIs
  <2> QED
    BY <2>1 DEF Sdk!ProjectDocuments, Sdk!Declarations, Forms
<1>2. Sdk!Import(p, s, form) = [p EXCEPT !.project = o]
  BY DEF Sdk!Import
<1> HIDE DEF o
<1>3. /\ [p EXCEPT !.project = o] \in Pairs /\ [p EXCEPT !.project = o].project = o
  BY <1>1, ProjectWith
<1>4. CASE Sdk!EffectiveScope(p, s) = "user"
  <2>1. p.user \in Sdk!Declarations
    <3>1. Sdk!DeclaredIn(p, "user", s) # "none"
      BY <1>4 DEF Sdk!EffectiveScope
    <3>2. p["user"] # NoDirectory
      BY <3>1 DEF Sdk!DeclaredIn
    <3> QED
      BY <3>2 DEF Pairs
  <2>2. Sdk!Declare(p, s, form) = [p EXCEPT !.user[s] = form]
    BY <1>4 DEF Sdk!Declare
  <2>3. [p EXCEPT !.user[s] = form] \in Pairs /\ [p EXCEPT !.user[s] = form].project = p.project
    BY <2>1 DEF Pairs, Sdk!Declarations, Forms
  <2> QED
    BY <1>2, <1>3, <2>2, <2>3
<1>5. CASE Sdk!EffectiveScope(p, s) # "user"
  <2>1. Sdk!Declare(p, s, form) = [p EXCEPT !.project = o]
    BY <1>5 DEF Sdk!Declare, o
  <2> QED
    BY <1>1, <1>2, <1>3, <2>1
<1> QED
  BY <1>4, <1>5

\* Definitions collected are not used by any declaration, hidden or not.
LEMMA CollectedIs ==
    ASSUME NEW p \in Pairs, NEW candidate \in BOOLEAN
    PROVE  /\ Sdk!Collected(p, candidate) \in Pairs
           /\ p.project # NoDirectory /\ p.project.defined =>
                  \A s \in Servers, scope \in Sdk!Scopes :
                      Sdk!DeclaredIn(Sdk!Collected(p, candidate), scope, s) = "uses" =>
                          Sdk!Collected(p, candidate).project.defined
<1>1. CASE p.project # NoDirectory /\ candidate /\ ~Sdk!Used(p)
  <2>1. PICK b \in BOOLEAN : b = FALSE
    <3>1. FALSE \in BOOLEAN
      OBVIOUS
    <3> QED
      BY <3>1, Zenon
  <2> DEFINE o == [p.project EXCEPT !.defined = b]
             c == [p EXCEPT !.project = o]
  <2>2. p.project \in Sdk!ProjectDocuments
    BY <1>1 DEF Pairs
  <2>3. o \in Sdk!ProjectDocuments /\ o.servers = p.project.servers
    BY <2>2 DEF Sdk!ProjectDocuments
  <2>4. Sdk!Collected(p, candidate) = c
    <3>1. Sdk!Collected(p, candidate) = [p EXCEPT !.project.defined = FALSE]
      BY <1>1, Zenon DEF Sdk!Collected
    <3>2. Sdk!Collected(p, candidate) = [p EXCEPT !.project.defined = b]
      BY <2>1, <3>1, Zenon
    <3> QED
      BY <3>2
  <2> HIDE DEF o
  <2>5. c \in Pairs /\ c.project = o /\ c.user = p.user
    BY <2>3, ProjectWith
  <2> HIDE DEF c
  <2>6. \A s \in Servers, scope \in Sdk!Scopes : Sdk!DeclaredIn(c, scope, s) # "uses"
    <3>1. SUFFICES ASSUME NEW s \in Servers, NEW scope \in Sdk!Scopes,
                          Sdk!DeclaredIn(c, scope, s) = "uses"
                   PROVE  Sdk!DeclaredIn(p, scope, s) = "uses"
      BY <1>1 DEF Sdk!Used
    <3>2. CASE scope = "project"
      <4>1. p["project"] # NoDirectory
        BY <1>1
      <4>2. Sdk!DeclaredIn(p, scope, s) = p.project.servers[s]
        BY <3>2, <4>1 DEF Sdk!DeclaredIn
      <4>3. c[scope] # NoDirectory => Sdk!DeclaredIn(c, scope, s) = c.project.servers[s]
        BY <3>2 DEF Sdk!DeclaredIn
      <4>4. c[scope] # NoDirectory
        BY <3>1 DEF Sdk!DeclaredIn
      <4> QED
        BY <2>3, <2>5, <3>1, <4>2, <4>3, <4>4
    <3>3. CASE scope = "user"
      <4>1. c["user"] = p["user"]
        BY <2>5 DEF Pairs
      <4> QED
        BY <2>5, <3>1, <3>3, <4>1 DEF Sdk!DeclaredIn
    <3> QED
      BY <3>2, <3>3, ScopesAre
  <2> QED
    BY <2>4, <2>5, <2>6
<1>2. CASE ~(p.project # NoDirectory /\ candidate /\ ~Sdk!Used(p))
  <2>1. Sdk!Collected(p, candidate) = p
    BY <1>2, Zenon DEF Sdk!Collected
  <2> QED
    BY <2>1, Zenon
<1> QED
  BY <1>1, <1>2

\* What the operation may rely on once both journals are recovered.
LEMMA SdkReady ==
    ASSUME SdkInv, editing.step = "ready"
    PROVE  /\ \A k \in SwapKinds : /\ ~restores[k].here /\ ~Pending(k)
                                   /\ restores[k].phase = "none"
                                   /\ \A s \in Sdk!Scopes : restores[k].previous[s] = NoDirectory
           /\ promised = {anchor} /\ editing.kind = "raw" /\ client \in {"starting", "running"}
           /\ Settled(promised)
<1>1. /\ \A k \in SwapKinds : ~restores[k].here
      /\ promised = {anchor} /\ editing.kind = "raw"
  BY DEF SdkInv, CommitKept
<1>2. \A k \in SwapKinds : restores[k] = Sdk!NoRestore
  BY <1>1, SdkOnDisk
<1>3. \A k \in SwapKinds : /\ ~Pending(k) /\ restores[k].phase = "none"
                           /\ \A s \in Sdk!Scopes : restores[k].previous[s] = NoDirectory
  BY <1>2, NoRestoreIs DEF Pending
<1>4. Settled(promised)
  BY <1>1, <1>3 DEF Settled
<1> QED
  BY <1>1, <1>3, <1>4, SdkBusy

\* An edit is prepared.
LEMMA SdkPrepared ==
    ASSUME SdkInv, editing.step = "ready", NEW doc \in Pairs, NEW d \in BOOLEAN,
           editing' = [editing EXCEPT !.doc = doc, !.given = d, !.kind = "anchor",
                                      !.step = "prepare"],
           d => \A s \in Servers, scope \in Sdk!Scopes :
                    Sdk!DeclaredIn(doc, scope, s) = "uses" => doc.project.defined,
           UNCHANGED <<anchor, restores, client, promised>>
    PROVE  SdkInv'
<1>1. editing' = [op |-> editing.op, kind |-> "anchor", step |-> "prepare",
                  scope |-> editing.scope, after |-> editing.after, doc |-> doc, given |-> d]
  BY EditFields, SdkOnDisk
<1>2. /\ editing' \in SdkEdits /\ editing'.kind = "anchor" /\ editing'.step = "prepare"
      /\ editing'.doc = doc /\ editing'.given = d
  BY <1>1, SdkOnDisk DEF SdkEdits, SdkSteps, SwapKinds
<1>3. CommitKept'
  BY <1>2, SdkReady DEF CommitKept, Uncovered, Pending, SwapKinds
<1>4. Sdk!UsedInputsSurvive'
  BY <1>2 DEF Sdk!UsedInputsSurvive
<1> QED
  BY <1>2, <1>3, <1>4, SdkReady, SdkOnDisk, CommitGoesOn

LEMMA StageUpsertKeeps ==
    ASSUME SdkInv, Sdk!StageUpsert
    PROVE  SdkInv'
<1>1. editing.step = "ready" /\ UNCHANGED <<anchor, restores, client, promised>>
  BY DEF Sdk!StageUpsert
<1>2. CASE editing' = Sdk!NoEdit
  <2>1. Settled(promised)'
    BY <1>1, SdkReady DEF Settled, Pending, Restorable
  <2> QED
    BY <1>1, <1>2, <2>1, SdkOnDisk, OperationEnds
<1>3. CASE \E s \in Servers, form \in {"plain", "uses"}, defined, candidate \in BOOLEAN :
              LET next == Sdk!Declare(Sdk!Redefined(anchor, defined), s, form) IN
              editing' = [editing EXCEPT !.doc = Sdk!Collected(next, candidate),
                                         !.given = defined, !.kind = "anchor",
                                         !.step = "prepare"]
  <2>1. PICK s \in Servers, form \in {"plain", "uses"}, d \in BOOLEAN, candidate \in BOOLEAN :
            editing' = [editing EXCEPT
                !.doc = Sdk!Collected(Sdk!Declare(Sdk!Redefined(anchor, d), s, form), candidate),
                !.given = d, !.kind = "anchor", !.step = "prepare"]
    BY <1>3
  <2> DEFINE r == Sdk!Redefined(anchor, d)
             n == Sdk!Declare(r, s, form)
             doc == Sdk!Collected(n, candidate)
  <2>2. r \in Pairs /\ r.project \in Sdk!ProjectDocuments /\ r.project.defined = d
    BY SdkOnDisk, RedefinedIs
  <2>3. r.project # NoDirectory
    BY <2>2, SdkAssumed
  <2>4. Sdk!ProjectOf(r).defined = d
    BY <2>2, <2>3, ProjectOfIs
  <2> HIDE DEF r
  <2>5. n \in Pairs /\ n.project \in Sdk!ProjectDocuments /\ n.project.defined = d
    BY <2>2, <2>4, DeclareIs DEF Forms
  <2>6. n.project # NoDirectory
    BY <2>5, SdkAssumed
  <2> HIDE DEF n
  <2>7. /\ doc \in Pairs
        /\ n.project.defined => \A i \in Servers, scope \in Sdk!Scopes :
                    Sdk!DeclaredIn(doc, scope, i) = "uses" => doc.project.defined
    BY <2>5, <2>6, CollectedIs
  <2>8. d => \A i \in Servers, scope \in Sdk!Scopes :
                    Sdk!DeclaredIn(doc, scope, i) = "uses" => doc.project.defined
    BY <2>5, <2>7, Zenon
  <2>9. editing' = [editing EXCEPT !.doc = doc, !.given = d, !.kind = "anchor",
                                   !.step = "prepare"]
    BY <2>1 DEF n, r
  <2> HIDE DEF doc
  <2> QED
    BY <1>1, <2>7, <2>8, <2>9, SdkPrepared
<1> QED
  BY <1>2, <1>3 DEF Sdk!StageUpsert

LEMMA StageRemovalKeeps ==
    ASSUME SdkInv, Sdk!StageRemoval
    PROVE  SdkInv'
<1>1. editing.step = "ready" /\ UNCHANGED <<anchor, restores, client, promised>>
  BY DEF Sdk!StageRemoval
<1>2. PICK s \in Servers, candidate \in BOOLEAN :
         editing' = [editing EXCEPT
             !.doc = Sdk!Collected(Sdk!Declare(anchor, s, "none"), candidate),
             !.given = Sdk!ProjectOf(anchor).defined, !.kind = "anchor", !.step = "prepare"]
  BY DEF Sdk!StageRemoval
<1> DEFINE n == Sdk!Declare(anchor, s, "none")
           doc == Sdk!Collected(n, candidate)
           d == Sdk!ProjectOf(anchor).defined
<1>3. anchor \in Pairs
  BY SdkOnDisk
<1>4. d \in BOOLEAN
  <2>1. Sdk!ProjectOf(anchor) \in Sdk!ProjectDocuments
    BY <1>3, ProjectOfIs
  <2> QED
    BY <2>1 DEF Sdk!ProjectDocuments
<1>5. /\ n \in Pairs
      /\ \/ n.project = anchor.project
         \/ n.project \in Sdk!ProjectDocuments /\ n.project.defined = d
  BY <1>3, DeclareIs DEF Forms
<1>6. anchor.project = NoDirectory => ~d
  BY Zenon DEF Sdk!ProjectOf
<1>7. anchor.project # NoDirectory => anchor.project.defined = d
  BY <1>3, ProjectOfIs
<1> HIDE DEF n
<1>8. d => n.project # NoDirectory /\ n.project.defined
  <2>1. CASE n.project = anchor.project
    BY <1>6, <1>7, <2>1, Zenon
  <2>2. CASE n.project \in Sdk!ProjectDocuments /\ n.project.defined = d
    <3>1. n.project # NoDirectory
      BY <2>2, SdkAssumed
    <3> QED
      BY <2>2, <3>1, Zenon
  <2> QED
    BY <1>5, <2>1, <2>2
<1>9. /\ doc \in Pairs
      /\ n.project # NoDirectory /\ n.project.defined =>
             \A i \in Servers, scope \in Sdk!Scopes :
                    Sdk!DeclaredIn(doc, scope, i) = "uses" => doc.project.defined
  BY <1>5, CollectedIs
<1>10. d => \A i \in Servers, scope \in Sdk!Scopes :
                    Sdk!DeclaredIn(doc, scope, i) = "uses" => doc.project.defined
  BY <1>8, <1>9, Zenon
<1>11. editing' = [editing EXCEPT !.doc = doc, !.given = d, !.kind = "anchor",
                                  !.step = "prepare"]
  BY <1>2 DEF n
<1> HIDE DEF doc, d
<1>12. doc \in Pairs
  BY <1>9
<1> QED
  BY <1>1, <1>4, <1>10, <1>11, <1>12, SdkPrepared

LEMMA StartedKeeps ==
    ASSUME SdkInv, Sdk!Started
    PROVE  SdkInv'
<1>1. /\ editing.step = "ready" /\ editing.op = "start"
      /\ UNCHANGED <<anchor, restores, promised>>
  BY DEF Sdk!Started
<1>2. CASE editing' = Sdk!NoEdit /\ client' = "running"
  <2>1. Settled(promised)'
    BY <1>1, SdkReady DEF Settled, Pending, Restorable
  <2> QED
    BY <1>1, <1>2, <2>1, SdkOnDisk, OperationEnds
<1>3. CASE \E doc \in {NoDirectory, Sdk!ProjectOf(anchor)} :
              /\ editing' = [editing EXCEPT !.doc = [anchor EXCEPT !.project = doc],
                                            !.step = "prepare"]
              /\ UNCHANGED client
  <2>1. PICK o \in {NoDirectory, Sdk!ProjectOf(anchor)} :
              /\ editing' = [editing EXCEPT !.doc = [anchor EXCEPT !.project = o],
                                            !.step = "prepare"]
              /\ UNCHANGED client
    BY <1>3
  <2> DEFINE doc == [anchor EXCEPT !.project = o]
  <2>2. o \in {NoDirectory} \cup Sdk!ProjectDocuments
    BY SdkOnDisk, ProjectOfIs
  <2>3. doc \in Pairs /\ doc["user"] = anchor["user"]
    BY <2>2, SdkOnDisk DEF Pairs
  <2>4. editing' = [editing EXCEPT !.doc = doc, !.step = "prepare"]
    BY <2>1
  <2> HIDE DEF doc
  <2>5. editing' = [op |-> editing.op, kind |-> editing.kind, step |-> "prepare",
                    scope |-> editing.scope, after |-> editing.after, doc |-> doc,
                    given |-> editing.given]
    BY <2>4, EditFields, SdkOnDisk
  <2>6. /\ editing' \in SdkEdits /\ editing'.kind = editing.kind /\ editing'.doc = doc
        /\ editing'.step = "prepare" /\ editing'.op = "start"
    BY <1>1, <2>3, <2>5, SdkOnDisk DEF SdkEdits, SdkSteps
  <2>7. Sdk!UsedInputsSurvive'
    BY <2>6 DEF Sdk!UsedInputsSurvive
  <2>8. CommitKept'
    BY <1>1, <2>3, <2>6, SdkReady DEF CommitKept, Uncovered, Pending, SwapKinds
  <2> QED
    BY <1>1, <2>1, <2>6, <2>7, <2>8, SdkReady, SdkOnDisk, CommitGoesOn
<1> QED
  BY <1>1, <1>2, <1>3 DEF Sdk!Started

LEMMA EditInPlaceKeeps ==
    ASSUME SdkInv, Sdk!EditInPlace
    PROVE  SdkInv'
<1>1. /\ editing.step = "idle" /\ UNCHANGED <<restores, editing, client>>
      /\ promised' = {anchor'} /\ anchor \in Pairs
      /\ \A k \in SwapKinds : restores[k].phase \in {"none", "committed"}
  BY SdkOnDisk DEF Sdk!EditInPlace, Sdk!Free, SwapKinds
<1>2. anchor' \in Pairs
  <2>1. CASE \E s \in Servers, form \in {"plain", "uses"} :
                anchor' \in {Sdk!Declare(anchor, s, form), Sdk!Import(anchor, s, form)}
    BY <1>1, <2>1, DeclareIs DEF Forms
  <2>2. CASE \E defined \in BOOLEAN : anchor' = Sdk!Redefined(anchor, defined)
    BY <1>1, <2>2, RedefinedIs
  <2> QED
    BY <2>1, <2>2 DEF Sdk!EditInPlace
<1>3. Settled(promised)'
  BY <1>1 DEF Settled, Pending
<1>4. SdkTypes'
  BY <1>1, <1>2 DEF SdkInv, SdkTypes
<1>5. RecoveryKept' /\ CommitKept'
  BY <1>1 DEF RecoveryKept, CommitKept
<1>6. Sdk!UsedInputsSurvive'
  BY <1>1 DEF Sdk!UsedInputsSurvive
<1> QED
  BY <1>3, <1>4, <1>5, <1>6 DEF SdkInv

\* While a swap is under way the pair it would be undone to settles what is on disk.
LEMMA SwapSettles ==
    ASSUME SdkInv, NEW R, NEW b \in R,
           \/ Pending(editing.kind) /\ Restorable(b, editing.kind)
           \/ ~Pending(editing.kind) /\ b = anchor,
           Pending(editing.kind) \/ \A k \in SwapKinds : k # editing.kind => ~restores[k].here
    PROVE  Settled(R)
<1>1. \A k \in SwapKinds : Pending(k) => k = editing.kind
  BY SdkOnDisk DEF SwapKinds
<1> QED
  BY <1>1, SdkOnDisk DEF Settled

\* The live directories are a rollback's target until they are moved away.
LEMMA AnchorIsNotSaved ==
    ASSUME editing.step = "prepare", promised = {anchor} \/ promised = {anchor, editing.doc}
    PROVE  anchor \in Sdk!NotSaved
BY DEF Sdk!NotSaved

LEMMA CommitSettled ==
    ASSUME SdkInv, editing.step \in {"prepare", "move", "moved", "publish", "published"}
    PROVE  Settled(Sdk!NotSaved)
<1>1. CASE editing.step = "prepare"
  <2>1. promised = {anchor} \/ promised = {anchor, editing.doc}
    BY <1>1 DEF SdkInv, CommitKept
  <2>2. Pending(editing.kind) => Restorable(anchor, editing.kind)
    BY <1>1 DEF SdkInv, CommitKept
  <2>3. \A k \in SwapKinds : k # editing.kind => ~restores[k].here
    BY <1>1 DEF SdkInv, CommitKept
  <2> QED
    BY <1>1, <2>1, <2>2, <2>3, AnchorIsNotSaved, SwapSettles
<1>2. CASE editing.step \in {"move", "moved", "publish", "published"}
  <2>1. PICK b \in Sdk!NotSaved : Restorable(b, editing.kind)
    BY <1>2 DEF SdkInv, CommitKept
  <2>2. Pending(editing.kind)
    BY <1>2 DEF SdkInv, CommitKept, Pending
  <2> QED
    BY <2>1, <2>2, SwapSettles
<1> QED
  BY <1>1, <1>2

LEMMA SdkSettled ==
    ASSUME SdkInv
    PROVE  Settled(promised)
<1>1. CASE editing.step = "idle"
  BY <1>1 DEF SdkInv
<1>2. CASE editing.step = "recover"
  BY <1>2, NotSavedIs, SettledMore DEF SdkInv, RecoveryKept
<1>3. CASE editing.step = "rollBack"
  <2>1. PICK b \in Sdk!NotSaved : Restorable(b, editing.kind)
    BY <1>3 DEF SdkInv, RecoveryKept
  <2>2. Pending(editing.kind)
    BY <1>3 DEF SdkInv, RecoveryKept
  <2> QED
    BY <2>1, <2>2, NotSavedIs, SwapSettles
<1>4. CASE editing.step = "clear"
  <2>1. /\ restores[editing.kind].here
        /\ editing.after = "saved" => /\ anchor = editing.doc /\ ~Pending(editing.kind)
                                      /\ editing.doc \in promised
        /\ editing.after # "saved" => /\ anchor \in Sdk!NotSaved
                                      /\ Pending(editing.kind) => Restorable(anchor, editing.kind)
    BY <1>4 DEF SdkInv, RecoveryKept
  <2>2. \A k \in SwapKinds : k # editing.kind => ~restores[k].here
    BY <2>1, SdkOnDisk DEF SwapKinds
  <2>3. anchor \in promised
    BY <2>1, NotSavedIs
  <2> QED
    BY <2>1, <2>2, <2>3, SwapSettles
<1>5. CASE editing.step = "ready"
  BY <1>5, SdkReady
<1>6. CASE editing.step \in {"prepare", "move", "moved", "publish", "published"}
  BY <1>6, CommitSettled, NotSavedIs, SettledMore
<1> QED
  BY <1>1, <1>2, <1>3, <1>4, <1>5, <1>6, SdkOnDisk DEF SdkEdits, SdkSteps

LEMMA StopClientKeeps ==
    ASSUME SdkInv, Sdk!StopClient
    PROVE  SdkInv'
<1>1. client' = "stopped" /\ editing' = Sdk!NoEdit /\ UNCHANGED <<anchor, restores, promised>>
  BY DEF Sdk!StopClient
<1>2. PICK R : R = promised
  OBVIOUS
<1>3. Settled(R)'
  BY <1>1, <1>2, SdkSettled, SettledStays
<1>4. Settled(promised)'
  BY <1>1, <1>2, <1>3 DEF Settled, Pending, Restorable
<1> QED
  BY <1>1, <1>4, SdkOnDisk, OperationEnds

LEMMA CommitFails ==
    ASSUME SdkInv, editing.step \in {"prepare", "move", "moved", "publish", "published"},
           Sdk!Fails(Sdk!NotSaved), UNCHANGED <<anchor, restores>>
    PROVE  SdkInv'
BY CommitSettled, SdkFails

LEMMA CommitRollsBack ==
    ASSUME SdkInv, editing.step \in {"move", "moved", "publish", "published"},
           Sdk!RollBackAfterError, UNCHANGED <<anchor, restores>>
    PROVE  SdkInv'
<1>1. EditAt("recover", editing.scope, "failed")
  BY EditSteps, SdkOnDisk DEF Sdk!RollBackAfterError, SdkEdits, SdkSteps
<1>2. UNCHANGED <<client, promised>>
  BY DEF Sdk!RollBackAfterError
<1>3. Sdk!NotSaved' = Sdk!NotSaved
  BY <1>1, <1>2, NotSavedStays DEF EditAt
<1>4. PICK R : R = Sdk!NotSaved
  OBVIOUS
<1>5. Settled(R)'
  BY <1>4, CommitSettled, SettledStays
<1>6. Settled(Sdk!NotSaved)'
  BY <1>3, <1>4, <1>5 DEF Settled, Pending, Restorable
<1>7. Pending(editing.kind)'
  BY <1>1 DEF SdkInv, CommitKept, Pending, EditAt
<1>8. RecoveryKept'
  BY <1>1, <1>6, <1>7 DEF RecoveryKept, EditAt
<1> QED
  BY <1>1, <1>2, <1>8, SdkOnDisk, SdkBusy, RecoveryGoesOn DEF EditAt

LEMMA JournalFields ==
    ASSUME NEW j \in Journals
    PROVE  j = [here |-> j.here, phase |-> j.phase, existed |-> j.existed, staged |-> j.staged,
                previous |-> j.previous]
BY DEF Journals

LEMMA JournalMarked ==
    ASSUME NEW j \in Journals, NEW e \in [Sdk!Scopes -> BOOLEAN], NEW n,
           n = [j EXCEPT !.phase = "prepared", !.existed = e]
    PROVE  n = [here |-> j.here, phase |-> "prepared", existed |-> e, staged |-> j.staged,
                previous |-> j.previous]
BY JournalFields DEF Journals

\* What an operation that prepares a swap has on disk.
LEMMA SdkPreparing ==
    ASSUME SdkInv, editing.step = "prepare"
    PROVE  /\ Uncovered /\ (editing.op = "edit" => editing.kind = "anchor")
           /\ \A k \in SwapKinds : k # editing.kind => ~restores[k].here
           /\ \A s \in Sdk!Scopes : restores[editing.kind].previous[s] = NoDirectory
           /\ restores[editing.kind].phase \in {"none", "prepared"}
           /\ restores[editing.kind].phase = "none" => promised = {anchor}
           /\ restores[editing.kind].phase = "prepared" =>
                  /\ promised = {anchor, editing.doc} /\ editing.kind = "raw"
                  /\ Restorable(anchor, editing.kind) /\ restores[editing.kind].here
           /\ editing.kind = "anchor" /\ restores["anchor"].here =>
                  restores["anchor"].staged = editing.doc
<1>1. restores[editing.kind] \in Journals
  BY SdkOnDisk
<1>2. Pending(editing.kind) => restores[editing.kind].here
  BY SdkOnDisk
<1> QED
  BY <1>1, <1>2 DEF SdkInv, CommitKept, Pending, Journals

\* The journal is made; what it stages is not read before it is marked.
LEMMA JournalMade ==
    ASSUME SdkInv, editing.step = "prepare", ~restores[editing.kind].here,
           UNCHANGED <<anchor, editing, client, promised>>,
           restores' \in [SwapKinds -> Journals],
           \A k \in SwapKinds \ {editing.kind} : restores'[k] = restores[k],
           restores'[editing.kind].here, restores'[editing.kind].phase = "none",
           restores'[editing.kind].previous = restores[editing.kind].previous,
           editing.kind = "anchor" => restores'["anchor"].staged = editing.doc
    PROVE  SdkInv'
<1>1. /\ \A k \in SwapKinds : restores'[k].here \/ restores'[k] = Sdk!NoRestore
      /\ ~restores'["anchor"].here \/ ~restores'["raw"].here
  <2>1. \A k \in SwapKinds : k # editing.kind => ~restores[k].here
    BY SdkPreparing
  <2> QED
    BY <2>1, SdkOnDisk DEF SwapKinds
<1>2. restores[editing.kind].phase = "none"
  BY SdkOnDisk, NoRestoreIs
<1>3. CommitKept'
  BY <1>1, <1>2, SdkPreparing DEF CommitKept, Uncovered, Pending
<1>4. Sdk!UsedInputsSurvive'
  BY DEF SdkInv, Sdk!UsedInputsSurvive
<1> QED
  BY <1>1, <1>3, <1>4, SdkOnDisk, SdkBusy, CommitGoesOn

\* The journal is marked: from here on an interrupted swap is undone.
LEMMA MarkIs ==
    ASSUME SdkInv, editing.step = "prepare", UNCHANGED anchor, Sdk!Mark(editing.kind),
           editing' \in SdkEdits, editing'.doc = editing.doc,
           editing'.step \in {"prepare", "move"}
    PROVE  /\ restores' \in [SwapKinds -> Journals]
           /\ \A k \in SwapKinds \ {editing.kind} : restores'[k] = restores[k]
           /\ restores'[editing.kind].here /\ restores'[editing.kind].phase = "prepared"
           /\ restores'[editing.kind].previous = restores[editing.kind].previous
           /\ restores'[editing.kind].staged = restores[editing.kind].staged
           /\ promised' = {anchor, editing.doc} /\ promised' \subseteq Pairs
           /\ \A k \in SwapKinds : restores'[k].here \/ restores'[k] = Sdk!NoRestore
           /\ ~restores'["anchor"].here \/ ~restores'["raw"].here
           /\ \A s \in Sdk!Scopes : restores'[editing.kind].existed[s]
                  = (s \in Sdk!Covers(editing.kind) /\ anchor[s] # NoDirectory)
<1> DEFINE k == editing.kind
           e == [s \in Sdk!Scopes |-> s \in Sdk!Covers(k) /\ anchor[s] # NoDirectory]
           j == restores[k]
           n == [here |-> j.here, phase |-> "prepared", existed |-> e, staged |-> j.staged,
                 previous |-> j.previous]
<1>1. k \in SwapKinds /\ j \in Journals /\ j.here /\ j.phase = "none"
      /\ promised' = promised \cup {editing.doc}
      /\ restores' = [restores EXCEPT ![k] = [@ EXCEPT !.phase = "prepared", !.existed = e]]
  BY SdkOnDisk DEF Sdk!Mark
<1>2. e \in [Sdk!Scopes -> BOOLEAN]
  OBVIOUS
<1>3. \A s \in Sdk!Scopes : e[s] = (s \in Sdk!Covers(k) /\ anchor[s] # NoDirectory)
  BY Zenon
<1> HIDE DEF e
<1>4. restores' = [restores EXCEPT ![k] = n]
  <2>1. PICK m : m = [j EXCEPT !.phase = "prepared", !.existed = e]
    OBVIOUS
  <2>2. m = n
    BY <1>1, <1>2, <2>1, JournalMarked
  <2>3. restores' = [restores EXCEPT ![k] = m]
    BY <1>1, <2>1
  <2> QED
    BY <2>2, <2>3
<1>5. n \in Journals /\ n.here = j.here /\ n.phase = "prepared" /\ n.existed = e
      /\ n.staged = j.staged /\ n.previous = j.previous
  BY <1>1, <1>2 DEF Journals
<1> HIDE DEF n
<1>6. /\ restores' \in [SwapKinds -> Journals] /\ restores'[k] = n
      /\ \A i \in SwapKinds \ {k} : restores'[i] = restores[i]
  BY <1>1, <1>4, <1>5, JournalPut DEF SdkInv
<1>7. n.here
  BY <1>1, <1>5, Zenon
<1>8. promised' = {anchor, editing.doc} /\ promised' \subseteq Pairs
  BY <1>1, SdkPreparing, SdkOnDisk
<1>9. restores'[k].here
  BY <1>6, <1>7
<1>10. /\ \A i \in SwapKinds : restores'[i].here \/ restores'[i] = Sdk!NoRestore
       /\ ~restores'["anchor"].here \/ ~restores'["raw"].here
  BY <1>1, <1>6, <1>9, SdkPreparing, SdkOnDisk DEF SwapKinds
<1>11. \A s \in Sdk!Scopes : restores'[k].existed[s]
                  = (s \in Sdk!Covers(k) /\ anchor[s] # NoDirectory)
  BY <1>3, <1>5, <1>6
<1>12. /\ restores'[k].phase = "prepared" /\ restores'[k].previous = restores[k].previous
       /\ restores'[k].staged = restores[k].staged
  BY <1>5, <1>6
<1> QED
  BY <1>6, <1>8, <1>9, <1>10, <1>11, <1>12

\* Nothing is moved yet, so the swap can be undone to what is live.
LEMMA MarkRestores ==
    ASSUME SdkInv, editing.step = "prepare", UNCHANGED anchor, Sdk!Mark(editing.kind),
           editing' \in SdkEdits, editing'.doc = editing.doc, editing'.kind = editing.kind,
           editing'.step \in {"prepare", "move"}
    PROVE  anchor' \in Sdk!NotSaved' /\ Restorable(anchor, editing.kind)'
<1>1. anchor' \in Sdk!NotSaved'
  BY MarkIs DEF Sdk!NotSaved
<1>2. \A s \in Sdk!Scopes : restores'[editing.kind].previous[s] = NoDirectory
  BY MarkIs, SdkPreparing
<1>3. \A s \in Sdk!Scopes : s \in Sdk!Covers(editing.kind)
                                /\ ~restores'[editing.kind].existed[s] => anchor[s] = NoDirectory
  BY MarkIs
<1>4. Restorable(anchor, editing.kind)'
  BY <1>2, <1>3, SdkOnDisk, ScopesAre DEF Restorable
<1> QED
  BY <1>1, <1>4

LEMMA PrepareKeeps ==
    ASSUME SdkInv, Sdk!Prepare
    PROVE  SdkInv'
<1>1. editing.step = "prepare" /\ editing.kind = "anchor" /\ UNCHANGED anchor
  BY DEF Sdk!Prepare
<1>2. CASE /\ ~restores.anchor.here
           /\ restores' = [restores EXCEPT !.anchor =
                              [@ EXCEPT !.here = TRUE, !.staged = editing.doc]]
           /\ UNCHANGED <<editing, client, promised>>
  <2>1. PICK b \in BOOLEAN : b = TRUE
    <3>1. TRUE \in BOOLEAN
      OBVIOUS
    <3> QED
      BY <3>1, Zenon
  <2> DEFINE j == restores["anchor"]
             p == editing.doc
             n == [here |-> b, phase |-> j.phase, existed |-> j.existed, staged |-> p,
                   previous |-> j.previous]
  <2>2. j \in Journals /\ p \in Pairs /\ j = Sdk!NoRestore
    BY <1>1, <1>2, SdkOnDisk
  <2>3. /\ n \in Journals /\ n.phase = j.phase /\ n.staged = editing.doc
        /\ n.previous = j.previous /\ n.here = b
    BY <2>1, <2>2 DEF Journals
  <2>4. restores' = [restores EXCEPT !["anchor"] = n]
    <3>1. PICK m : m = [j EXCEPT !.here = b, !.staged = p]
      OBVIOUS
    <3>2. b \in BOOLEAN
      BY <2>1
    <3>3. m = n
      BY <2>2, <3>1, <3>2, JournalFields DEF Journals
    <3>4. restores' = [restores EXCEPT !["anchor"] = m]
      <4>1. restores' = [restores EXCEPT !["anchor"] =
                             [@ EXCEPT !.here = b, !.staged = editing.doc]]
        BY <1>2, <2>1, Zenon
      <4> QED
        BY <3>1, <4>1
    <3> QED
      BY <3>3, <3>4
  <2> HIDE DEF n
  <2>5. /\ restores' \in [SwapKinds -> Journals] /\ restores'["anchor"] = n
        /\ \A i \in SwapKinds \ {"anchor"} : restores'[i] = restores[i]
    BY <2>3, <2>4, JournalPut DEF SdkInv, SwapKinds
  <2>6. n.here
    BY <2>1, <2>3, Zenon
  <2>7. restores'["anchor"].phase = "none"
    BY <2>2, <2>3, <2>5, NoRestoreIs
  <2> QED
    BY <1>1, <1>2, <2>3, <2>5, <2>6, <2>7, JournalMade
<1>3. CASE /\ Sdk!Mark("anchor") /\ UNCHANGED client
           /\ editing' = [editing EXCEPT !.step = "move", !.scope = "project"]
  <2>1. EditAt("move", "project", editing.after)
    BY <1>3, EditSteps, SdkOnDisk, ScopesAre DEF SdkEdits, SdkSteps
  <2>2. editing' \in SdkEdits /\ editing'.doc = editing.doc /\ editing'.kind = "anchor"
        /\ editing'.step = "move" /\ editing'.scope = "project" /\ editing'.op = editing.op
    BY <1>1, <2>1 DEF EditAt
  <2>3. anchor' \in Sdk!NotSaved' /\ Restorable(anchor, editing.kind)'
    <3>1. anchor' \in Sdk!NotSaved' /\ Restorable(anchor, "anchor")'
      BY <1>1, <1>3, <2>2, MarkRestores DEF Restorable
    <3> QED
      BY <2>2, <3>1 DEF Restorable
  <2>4. \E b \in Sdk!NotSaved' : Restorable(b, editing.kind)'
    <3>1. PICK c : c = anchor'
      OBVIOUS
    <3>2. Restorable(c, editing.kind)'
      BY <2>3, <3>1 DEF Restorable
    <3> QED
      BY <2>3, <3>1, <3>2
  <2>5. /\ restores'["anchor"].phase = "prepared"
        /\ \A s \in Sdk!Scopes : /\ restores'["anchor"].staged[s] = editing.doc[s]
                                 /\ restores'["anchor"].previous[s] = NoDirectory
        /\ editing.doc \in promised'
    <3>1. restores["anchor"].here
      BY <1>3 DEF Sdk!Mark
    <3> QED
      BY <1>1, <1>3, <2>2, <3>1, MarkIs, SdkPreparing
  <2>6. CommitKept'
    BY <2>2, <2>4, <2>5, ScopesAre DEF CommitKept, Uncovered
  <2>7. Sdk!UsedInputsSurvive'
    BY <2>2 DEF Sdk!UsedInputsSurvive
  <2> QED
    BY <1>1, <1>3, <2>2, <2>6, <2>7, MarkIs, SdkOnDisk, SdkBusy, CommitGoesOn
<1>4. CASE Sdk!Fails(Sdk!NotSaved) /\ UNCHANGED restores
  BY <1>1, <1>4, CommitFails
<1> QED
  BY <1>2, <1>3, <1>4 DEF Sdk!Prepare

LEMMA PrepareRawKeeps ==
    ASSUME SdkInv, Sdk!PrepareRaw
    PROVE  SdkInv'
<1>1. editing.step = "prepare" /\ editing.kind = "raw" /\ UNCHANGED anchor
      /\ editing \in SdkEdits
  BY SdkOnDisk DEF Sdk!PrepareRaw
<1>2. CASE /\ ~restores.raw.here
           /\ restores' = [restores EXCEPT !.raw.here = TRUE]
           /\ UNCHANGED <<editing, client, promised>>
  <2>1. PICK b \in BOOLEAN : b = TRUE
    <3>1. TRUE \in BOOLEAN
      OBVIOUS
    <3> QED
      BY <3>1, Zenon
  <2> DEFINE j == restores["raw"]
             n == [j EXCEPT !.here = b]
  <2>2. j \in Journals /\ j = Sdk!NoRestore
    BY <1>1, <1>2, SdkOnDisk
  <2>3. n \in Journals /\ n.phase = j.phase /\ n.previous = j.previous /\ n.here = b
    BY <2>2 DEF Journals
  <2>4. restores' = [restores EXCEPT !["raw"] = n]
    <3>1. restores' = [restores EXCEPT !["raw"].here = b]
      BY <1>2, <2>1, Zenon
    <3> QED
      BY <3>1
  <2> HIDE DEF n
  <2>5. /\ restores' \in [SwapKinds -> Journals] /\ restores'["raw"] = n
        /\ \A i \in SwapKinds \ {"raw"} : restores'[i] = restores[i]
    BY <2>3, <2>4, JournalPut DEF SdkInv, SwapKinds
  <2>6. n.here
    BY <2>1, <2>3, Zenon
  <2>7. restores'["raw"].phase = "none"
    BY <2>2, <2>3, <2>5, NoRestoreIs
  <2> QED
    BY <1>1, <1>2, <2>3, <2>5, <2>6, <2>7, JournalMade
<1>3. CASE Sdk!Mark("raw") /\ UNCHANGED <<editing, client>>
  <2>1. editing.op # "edit"
    BY <1>1, SdkPreparing
  <2>2. Restorable(anchor, "raw")'
    BY <1>1, <1>3, MarkRestores DEF Restorable
  <2>3. Restorable(anchor, editing.kind)'
    BY <1>1, <1>3, <2>2 DEF Restorable
  <2>4. /\ restores'["raw"].phase = "prepared" /\ promised' = {anchor, editing.doc}
        /\ \A s \in Sdk!Scopes : restores'["raw"].previous[s] = NoDirectory
        /\ \A k \in SwapKinds \ {"raw"} : ~restores'[k].here
    BY <1>1, <1>3, MarkIs, SdkPreparing
  <2>5. CommitKept'
    BY <1>1, <1>3, <2>3, <2>4, SdkPreparing DEF CommitKept, Uncovered, Pending
  <2>6. Sdk!UsedInputsSurvive'
    BY <1>3, <2>1 DEF Sdk!UsedInputsSurvive
  <2> QED
    BY <1>1, <1>3, <2>5, <2>6, MarkIs, SdkOnDisk, SdkBusy, CommitGoesOn
<1>4. CASE /\ restores.raw.phase = "prepared"
           /\ restores' = [restores EXCEPT !.raw.staged.project = editing.doc.project]
           /\ editing' = [editing EXCEPT !.step = "move", !.scope = "project"]
           /\ UNCHANGED <<client, promised>>
  <2>1. EditAt("move", "project", editing.after)
    BY <1>4, EditSteps, SdkOnDisk, ScopesAre DEF SdkEdits, SdkSteps
  <2>2. editing' \in SdkEdits /\ editing'.doc = editing.doc /\ editing'.kind = "raw"
        /\ editing'.step = "move" /\ editing'.scope = "project"
    BY <1>1, <2>1 DEF EditAt
  <2> DEFINE j == restores["raw"]
             p == [j.staged EXCEPT !.project = editing.doc.project]
             n == [j EXCEPT !.staged = p]
  <2>3. j \in Journals /\ j.staged \in Pairs /\ editing.doc \in Pairs
    BY SdkOnDisk DEF Journals
  <2>4. p \in Pairs /\ p["project"] = editing.doc["project"]
    BY <2>3 DEF Pairs
  <2>5. restores' = [restores EXCEPT !["raw"] = n]
    BY <1>4
  <2>6. /\ n \in Journals /\ n.phase = j.phase /\ n.staged = p /\ n.previous = j.previous
        /\ n.existed = j.existed /\ n.here = j.here
    BY <2>3, <2>4, JournalStaged
  <2> HIDE DEF n, p
  <2>7. /\ restores' \in [SwapKinds -> Journals] /\ restores'["raw"] = n
        /\ \A i \in SwapKinds \ {"raw"} : restores'[i] = restores[i]
    BY <2>5, <2>6, JournalPut DEF SdkInv, SwapKinds
  <2>8. /\ promised' = {anchor, editing.doc} /\ j.here /\ Restorable(anchor, "raw")
        /\ \A s \in Sdk!Scopes : j.previous[s] = NoDirectory
        /\ Uncovered
    BY <1>1, <1>4, SdkPreparing
  <2>9. n.here
    BY <2>6, <2>8
  <2>10. /\ \A i \in SwapKinds : restores'[i].here \/ restores'[i] = Sdk!NoRestore
         /\ ~restores'["anchor"].here \/ ~restores'["raw"].here
    BY <2>7, <2>8, <2>9, SdkOnDisk DEF SwapKinds
  <2>11. PICK c : c = anchor'
    OBVIOUS
  <2>12. Restorable(c, editing.kind)'
    BY <1>1, <2>2, <2>6, <2>7, <2>8, <2>11 DEF Restorable
  <2>13. c \in Sdk!NotSaved'
    BY <1>1, <2>2, <2>8, <2>11 DEF Sdk!NotSaved
  <2>14. /\ restores'["raw"].phase = "prepared" /\ editing'.doc \in promised'
         /\ restores'["raw"].staged["project"] = editing'.doc["project"]
         /\ restores'["raw"].previous["project"] = NoDirectory
    BY <1>4, <2>2, <2>4, <2>6, <2>7, <2>8, ScopesAre
  <2>15. Uncovered'
    BY <1>1, <2>2, <2>8 DEF Uncovered
  <2>16. CommitKept'
    BY <2>2, <2>12, <2>13, <2>14, <2>15, ScopesAre DEF CommitKept
  <2>17. Sdk!UsedInputsSurvive'
    BY <2>2 DEF Sdk!UsedInputsSurvive
  <2> QED
    BY <1>1, <1>4, <2>2, <2>7, <2>10, <2>16, <2>17, SdkOnDisk, SdkBusy, CommitGoesOn
<1>5. CASE Sdk!Fails(Sdk!NotSaved) /\ UNCHANGED restores
  BY <1>1, <1>5, CommitFails
<1> QED
  BY <1>2, <1>3, <1>4, <1>5 DEF Sdk!PrepareRaw

\* What a swap under way relies on.
LEMMA SdkSwapping ==
    ASSUME SdkInv, editing.step \in {"move", "moved", "publish", "published"}
    PROVE  /\ editing.kind \in SwapKinds /\ restores[editing.kind] \in Journals
           /\ Pending(editing.kind) /\ restores[editing.kind].here
           /\ editing.doc \in promised /\ Uncovered
           /\ \E b \in Sdk!NotSaved : Restorable(b, editing.kind)
           /\ editing.step \in {"move", "publish"} =>
                  editing.scope \in Sdk!Covers(editing.kind)
<1>1. Pending(editing.kind)
  BY DEF SdkInv, CommitKept, Pending
<1>2. editing.step \in {"move", "publish"} => editing.scope \in Sdk!Covers(editing.kind)
  <2>1. editing.scope \in Sdk!Scopes /\ editing.kind \in {"anchor", "raw"}
    BY SdkOnDisk DEF SdkEdits, SwapKinds
  <2>2. editing.step \in {"move", "publish"} /\ editing.scope = "user" =>
            editing.kind = "anchor"
    BY DEF SdkInv, CommitKept
  <2> QED
    BY <2>1, <2>2, ScopesAre
<1> QED
  BY <1>1, <1>2, SdkOnDisk DEF SdkInv, CommitKept

\* A step of a swap changes the journal of its kind and leaves the other alone.
LEMMA SwapGoesOn ==
    ASSUME SdkInv, editing.step \in {"move", "moved", "publish", "published"},
           anchor' \in Pairs, restores' \in [SwapKinds -> Journals],
           \A k \in SwapKinds \ {editing.kind} : restores'[k] = restores[k],
           restores'[editing.kind].here = restores[editing.kind].here,
           editing' \in SdkEdits, editing'.doc = editing.doc, editing'.kind = editing.kind,
           editing'.step \in {"move", "moved", "publish", "published"},
           UNCHANGED <<client, promised>>, CommitKept'
    PROVE  SdkInv'
<1>1. /\ \A k \in SwapKinds : restores'[k].here \/ restores'[k] = Sdk!NoRestore
      /\ ~restores'["anchor"].here \/ ~restores'["raw"].here
  <2>1. restores'[editing.kind].here
    BY SdkSwapping
  <2> QED
    BY <2>1, SdkSwapping, SdkOnDisk DEF SwapKinds
<1>2. Sdk!UsedInputsSurvive'
  BY DEF Sdk!UsedInputsSurvive
<1> QED
  BY <1>1, <1>2, SdkOnDisk, SdkBusy, CommitGoesOn

LEMMA MoveKeeps ==
    ASSUME SdkInv, Sdk!Move
    PROVE  SdkInv'
<1>0. PICK k, s : k = editing.kind /\ s = editing.scope
  OBVIOUS
<1> DEFINE j == restores[k]
<1>1. /\ editing.step = "move" /\ k \in SwapKinds /\ j \in Journals /\ s \in Sdk!Covers(k)
      /\ s \in Sdk!Scopes /\ anchor \in Pairs /\ j.phase = "prepared"
      /\ j.previous \in Pairs /\ Uncovered /\ editing.doc \in promised
      /\ \A t \in Sdk!Covers(k) : j.staged[t] = editing.doc[t]
      /\ \A t \in Sdk!Covers(k) : Ahead(t) => j.previous[t] = NoDirectory
  <2>1. editing.step = "move"
    BY DEF Sdk!Move
  <2>2. k \in SwapKinds /\ j \in Journals /\ s \in Sdk!Covers(k) /\ Uncovered
        /\ editing.doc \in promised
    BY <1>0, <2>1, SdkSwapping
  <2>3. /\ j.phase = "prepared" /\ \A t \in Sdk!Covers(k) : j.staged[t] = editing.doc[t]
        /\ \A t \in Sdk!Covers(k) : Ahead(t) => j.previous[t] = NoDirectory
    BY <1>0, <2>1 DEF SdkInv, CommitKept
  <2> QED
    BY <2>1, <2>2, <2>3, SdkOnDisk, ScopesAre DEF Journals
<1>2. CASE /\ anchor' = [anchor EXCEPT ![s] = NoDirectory]
           /\ restores' = [restores EXCEPT ![k].previous[s] = anchor[s]]
           /\ Sdk!NextScope("moved") /\ UNCHANGED <<client, promised>>
  <2> DEFINE p == [j.previous EXCEPT ![s] = anchor[s]]
             n == [j EXCEPT !.previous = p]
  <2>1. /\ p \in Pairs /\ p[s] = anchor[s]
        /\ \A t \in Sdk!Scopes \ {s} : p[t] = j.previous[t]
    BY <1>1, PairWith
  <2>2. /\ n \in Journals /\ n.here = j.here /\ n.phase = j.phase /\ n.existed = j.existed
        /\ n.previous = p /\ n.staged = j.staged
    BY <1>1, <2>1, JournalPrevious
  <2>3. restores' = [restores EXCEPT ![k] = n]
    BY <1>2
  <2> HIDE DEF n
  <2>4. /\ restores' \in [SwapKinds -> Journals] /\ restores'[k] = n
        /\ \A i \in SwapKinds \ {k} : restores'[i] = restores[i]
    BY <1>1, <2>2, <2>3, JournalPut DEF SdkInv
  <2> HIDE DEF p
  <2>5. /\ anchor' \in Pairs /\ anchor'[s] = NoDirectory
        /\ \A t \in Sdk!Scopes \ {s} : anchor'[t] = anchor[t]
    <3>1. PICK v : v = NoDirectory /\ anchor' = [anchor EXCEPT ![s] = v]
      BY <1>2
    <3>2. v \in {NoDirectory} \cup {q[s] : q \in Pairs}
      BY <3>1
    <3> QED
      BY <1>1, <3>1, <3>2, AnchorPut
  <2>6. PICK b \in Sdk!NotSaved : Restorable(b, k)
    BY <1>0, <1>1, SdkSwapping
  <2>7. \/ /\ k = "anchor" /\ s = "project" /\ EditAt("move", "user", editing.after)
        \/ (k = "raw" \/ s = "user") /\ EditAt("moved", s, editing.after)
    BY <1>0, <1>1, <1>2, NextScopeIs DEF SdkSteps
  <2>8. editing' \in SdkEdits /\ editing'.kind = k /\ editing'.doc = editing.doc
        /\ editing'.step \in {"move", "moved"}
    BY <1>0, <2>7 DEF EditAt
  <2>9. Sdk!NotSaved' = Sdk!NotSaved
    BY <1>1, <1>2, <2>8, NotSavedStays
  <2>10. b[s] = anchor[s]
    <3>1. j.previous[s] = NoDirectory
      BY <1>0, <1>1, ScopesAre DEF Ahead
    <3> QED
      BY <1>1, <2>6, <3>1 DEF Restorable
  <2>11. Restorable(b, editing.kind)'
    <3>1. \A t \in Sdk!Covers(k) :
            /\ n.previous[t] # NoDirectory => n.previous[t] = b[t]
            /\ n.previous[t] = NoDirectory /\ n.phase = "prepared" => anchor'[t] = b[t]
            /\ ~n.existed[t] => b[t] = NoDirectory
      <4>1. SUFFICES ASSUME NEW t \in Sdk!Covers(k)
                     PROVE  /\ n.previous[t] # NoDirectory => n.previous[t] = b[t]
                            /\ n.previous[t] = NoDirectory /\ n.phase = "prepared" =>
                                   anchor'[t] = b[t]
                            /\ ~n.existed[t] => b[t] = NoDirectory
        OBVIOUS
      <4>2. t \in Sdk!Scopes
        BY <1>1, ScopesAre
      <4>3. ~n.existed[t] => b[t] = NoDirectory
        BY <2>2, <2>6 DEF Restorable
      <4>4. CASE t = s
        BY <2>1, <2>2, <2>5, <2>10, <4>3, <4>4
      <4>5. CASE t # s
        BY <2>1, <2>2, <2>5, <2>6, <4>2, <4>3, <4>5 DEF Restorable
      <4> QED
        BY <4>4, <4>5
    <3>2. \A t \in Sdk!Scopes \ Sdk!Covers(k) : anchor'[t] = b[t]
      BY <1>1, <2>5, <2>6 DEF Restorable
    <3> QED
      BY <2>4, <2>8, <3>1, <3>2 DEF Restorable
  <2>12. Uncovered'
    BY <1>0, <1>1, <2>5, <2>8, ScopesAre DEF Uncovered
  <2>13. /\ restores'[editing'.kind].phase = "prepared"
         /\ \A t \in Sdk!Covers(editing.kind)' :
                restores'[editing'.kind].staged[t] = editing'.doc[t]
    BY <1>1, <2>2, <2>4, <2>8 DEF Sdk!Covers
  <2>14. editing'.step = "move" =>
             /\ editing'.scope = "user" /\ k = "anchor" /\ s = "project"
             /\ restores'[k].previous["user"] = NoDirectory
    <3>1. ASSUME editing'.step = "move"
          PROVE  editing'.scope = "user" /\ k = "anchor" /\ s = "project"
      BY <2>7, <3>1 DEF EditAt
    <3>2. ASSUME k = "anchor", s = "project" PROVE restores'[k].previous["user"] = NoDirectory
      BY <1>1, <2>1, <2>2, <2>4, <3>2, ScopesAre DEF Ahead
    <3> QED
      BY <3>1, <3>2
  <2>15. CommitKept'
    BY <1>1, <1>2, <2>8, <2>9, <2>11, <2>12, <2>13, <2>14, ScopesAre DEF CommitKept, Ahead
  <2>16. restores'[k].here = restores[k].here
    BY <2>2, <2>4
  <2> QED
    BY <1>0, <1>1, <1>2, <2>4, <2>5, <2>8, <2>15, <2>16, SwapGoesOn
<1>3. CASE /\ IF k = "anchor" THEN Sdk!RollBackAfterError ELSE Sdk!Fails(Sdk!NotSaved)
           /\ UNCHANGED <<anchor, restores>>
  BY <1>1, <1>3, CommitFails, CommitRollsBack
<1> QED
  BY <1>0, <1>2, <1>3 DEF Sdk!Move

LEMMA MarkMovedKeeps ==
    ASSUME SdkInv, Sdk!MarkMoved
    PROVE  SdkInv'
<1>0. PICK k : k = editing.kind
  OBVIOUS
<1> DEFINE j == restores[k]
<1>1. /\ editing.step = "moved" /\ k \in SwapKinds /\ j \in Journals /\ UNCHANGED anchor
      /\ Uncovered /\ editing.doc \in promised
      /\ \A t \in Sdk!Covers(k) : j.staged[t] = editing.doc[t]
  <2>1. editing.step = "moved" /\ UNCHANGED anchor
    BY DEF Sdk!MarkMoved
  <2>2. \A t \in Sdk!Covers(k) : j.staged[t] = editing.doc[t]
    BY <1>0, <2>1 DEF SdkInv, CommitKept
  <2> QED
    BY <1>0, <2>1, <2>2, SdkSwapping
<1>2. CASE /\ restores' = [restores EXCEPT ![k].phase = "moved"]
           /\ editing' = [editing EXCEPT !.step = "publish", !.scope = "project"]
           /\ UNCHANGED <<client, promised>>
  <2> DEFINE n == [j EXCEPT !.phase = "moved"]
  <2>1. /\ n \in Journals /\ n.here = j.here /\ n.phase = "moved" /\ n.existed = j.existed
        /\ n.previous = j.previous /\ n.staged = j.staged
    BY <1>1, JournalPhase
  <2>2. restores' = [restores EXCEPT ![k] = n]
    BY <1>2
  <2> HIDE DEF n
  <2>3. /\ restores' \in [SwapKinds -> Journals] /\ restores'[k] = n
        /\ \A i \in SwapKinds \ {k} : restores'[i] = restores[i]
    BY <1>1, <2>1, <2>2, JournalPut DEF SdkInv
  <2>4. EditAt("publish", "project", editing.after)
    BY <1>2, EditSteps, SdkOnDisk, ScopesAre DEF SdkEdits, SdkSteps
  <2>5. editing' \in SdkEdits /\ editing'.kind = k /\ editing'.doc = editing.doc
        /\ editing'.step = "publish" /\ editing'.scope = "project"
    BY <1>0, <2>4 DEF EditAt
  <2>6. PICK b \in Sdk!NotSaved : Restorable(b, k)
    BY <1>0, <1>1, SdkSwapping
  <2>7. Sdk!NotSaved' = Sdk!NotSaved
    BY <1>1, <1>2, <2>5, NotSavedStays
  <2>8. Restorable(b, editing.kind)'
    BY <1>1, <2>1, <2>3, <2>5, <2>6 DEF Restorable
  <2>9. /\ restores'[k].phase = "moved"
        /\ \A t \in Sdk!Covers(k) : restores'[k].staged[t] = editing.doc[t]
        /\ restores'[k].here = restores[k].here
    BY <1>1, <2>1, <2>3
  <2>10. Uncovered'
    BY <1>0, <1>1, <2>5 DEF Uncovered
  <2>11. CommitKept'
    BY <1>1, <1>2, <2>5, <2>7, <2>8, <2>9, <2>10 DEF CommitKept, Ahead
  <2> QED
    BY <1>0, <1>1, <1>2, <2>3, <2>5, <2>9, <2>11, SdkOnDisk, SwapGoesOn
<1>3. CASE Sdk!RollBackAfterError /\ UNCHANGED restores
  BY <1>1, <1>3, CommitRollsBack
<1> QED
  BY <1>0, <1>2, <1>3 DEF Sdk!MarkMoved

LEMMA PutLiveKeeps ==
    ASSUME SdkInv, editing.step = "publish", Sdk!PutLive(editing.scope)
    PROVE  SdkInv'
<1>0. PICK k, s : k = editing.kind /\ s = editing.scope
  OBVIOUS
<1> DEFINE j == restores[k]
<1>1. /\ k \in SwapKinds /\ j \in Journals /\ s \in Sdk!Covers(k) /\ s \in Sdk!Scopes
      /\ anchor \in Pairs /\ j.phase = "moved" /\ j.staged \in Pairs
      /\ Uncovered /\ editing.doc \in promised /\ editing.doc \in Pairs
      /\ s = "user" => k = "anchor"
      /\ \A t \in Sdk!Covers(k) : IF Ahead(t) THEN j.staged[t] = editing.doc[t]
                                  ELSE anchor[t] = editing.doc[t]
  <2>1. k \in SwapKinds /\ j \in Journals /\ s \in Sdk!Covers(k) /\ Uncovered
        /\ editing.doc \in promised
    BY <1>0, SdkSwapping
  <2>2. /\ j.phase = "moved" /\ (s = "user" => k = "anchor")
        /\ \A t \in Sdk!Covers(k) : IF Ahead(t) THEN j.staged[t] = editing.doc[t]
                                    ELSE anchor[t] = editing.doc[t]
    BY <1>0 DEF SdkInv, CommitKept
  <2> QED
    BY <2>1, <2>2, SdkOnDisk, ScopesAre DEF Journals
<1>2. /\ anchor' = [anchor EXCEPT ![s] = j.staged[s]]
      /\ restores' = [restores EXCEPT ![k].staged[s] = NoDirectory]
      /\ Sdk!NextScope("published") /\ UNCHANGED <<client, promised>>
  BY <1>0 DEF Sdk!PutLive
<1> DEFINE p == [j.staged EXCEPT ![s] = NoDirectory]
           n == [j EXCEPT !.staged = p]
<1>3. p \in Pairs /\ \A t \in Sdk!Scopes \ {s} : p[t] = j.staged[t]
  BY <1>1, PairWith
<1>4. /\ n \in Journals /\ n.here = j.here /\ n.phase = j.phase /\ n.existed = j.existed
      /\ n.previous = j.previous /\ n.staged = p
  BY <1>1, <1>3, JournalStaged
<1>5. restores' = [restores EXCEPT ![k] = n]
  BY <1>2
<1> HIDE DEF n, p
<1>6. /\ restores' \in [SwapKinds -> Journals] /\ restores'[k] = n
      /\ \A i \in SwapKinds \ {k} : restores'[i] = restores[i]
  BY <1>1, <1>4, <1>5, JournalPut DEF SdkInv
<1>7. j.staged[s] = editing.doc[s]
  BY <1>0, <1>1, ScopesAre DEF Ahead
<1>8. /\ anchor' \in Pairs /\ anchor'[s] = editing.doc[s]
      /\ \A t \in Sdk!Scopes \ {s} : anchor'[t] = anchor[t]
  <2>1. PICK v : v = editing.doc[s] /\ anchor' = [anchor EXCEPT ![s] = v]
    BY <1>2, <1>7
  <2>2. v \in {NoDirectory} \cup {q[s] : q \in Pairs}
    BY <1>1, <2>1
  <2> QED
    BY <1>1, <2>1, <2>2, AnchorPut
<1>9. PICK b \in Sdk!NotSaved : Restorable(b, k)
  BY <1>0, SdkSwapping
<1>10. \/ /\ k = "anchor" /\ s = "project" /\ EditAt("publish", "user", editing.after)
       \/ (k = "raw" \/ s = "user") /\ EditAt("published", s, editing.after)
  BY <1>0, <1>2, NextScopeIs DEF SdkSteps
<1>11. editing' \in SdkEdits /\ editing'.kind = k /\ editing'.doc = editing.doc
       /\ editing'.step \in {"publish", "published"}
  BY <1>0, <1>10 DEF EditAt
<1>12. Sdk!NotSaved' = Sdk!NotSaved
  BY <1>2, <1>11, NotSavedStays
<1>13. Restorable(b, editing.kind)'
  <2>1. \A t \in Sdk!Scopes \ Sdk!Covers(k) : anchor'[t] = b[t]
    BY <1>1, <1>8, <1>9 DEF Restorable
  <2> QED
    BY <1>1, <1>4, <1>6, <1>9, <1>11, <2>1 DEF Restorable
<1>14. Uncovered'
  BY <1>0, <1>1, <1>8, <1>11, ScopesAre DEF Uncovered
<1>15. restores'[k].phase = "moved" /\ restores'[k].here = restores[k].here
  BY <1>1, <1>4, <1>6
<1>16. CASE k = "anchor" /\ s = "project" /\ EditAt("publish", "user", editing.after)
  <2>1. editing'.step = "publish" /\ editing'.scope = "user"
    BY <1>16 DEF EditAt
  <2>2. restores'[k].staged["user"] = editing.doc["user"]
    BY <1>1, <1>3, <1>4, <1>6, <1>16, ScopesAre DEF Ahead
  <2>3. anchor'["project"] = editing.doc["project"]
    BY <1>8, <1>16
  <2>4. CommitKept'
    BY <1>1, <1>2, <1>11, <1>12, <1>13, <1>14, <1>15, <1>16, <2>1, <2>2, <2>3, ScopesAre
       DEF CommitKept, Ahead
  <2> QED
    BY <1>0, <1>2, <1>6, <1>8, <1>11, <1>15, <2>4, SwapGoesOn
<1>17. CASE (k = "raw" \/ s = "user") /\ EditAt("published", s, editing.after)
  <2>1. editing'.step = "published"
    BY <1>17 DEF EditAt
  <2>2. \A t \in Sdk!Scopes : anchor'[t] = editing.doc[t]
    <3>1. CASE k = "raw"
      BY <1>0, <1>1, <1>8, <3>1, ScopesAre DEF Uncovered
    <3>2. CASE s = "user"
      BY <1>0, <1>1, <1>8, <3>2, ScopesAre DEF Ahead
    <3> QED
      BY <1>17, <3>1, <3>2
  <2>3. anchor' = editing.doc
    BY <1>1, <1>8, <2>2, PairsAreEqual
  <2>4. CommitKept'
    BY <1>1, <1>2, <1>11, <1>12, <1>13, <1>14, <1>15, <2>1, <2>3 DEF CommitKept
  <2> QED
    BY <1>0, <1>2, <1>6, <1>8, <1>11, <1>15, <2>4, SwapGoesOn
<1> QED
  BY <1>10, <1>16, <1>17

LEMMA SdkPublishKeeps ==
    ASSUME SdkInv, Sdk!Publish \/ Sdk!PublishRaw
    PROVE  SdkInv'
<1>1. editing.step = "publish"
  BY DEF Sdk!Publish, Sdk!PublishRaw
<1>2. CASE Sdk!Publish
  BY <1>1, <1>2, PutLiveKeeps, CommitRollsBack DEF Sdk!Publish
<1>3. CASE Sdk!PublishRaw
  <2>1. editing.scope = "project"
    <3>1. editing.scope \in Sdk!Covers("raw")
      BY <1>1, <1>3, SdkSwapping DEF Sdk!PublishRaw
    <3> QED
      BY <3>1, ScopesAre
  <2> QED
    BY <1>1, <1>3, <2>1, PutLiveKeeps, CommitRollsBack, CommitFails DEF Sdk!PublishRaw
<1> QED
  BY <1>2, <1>3

LEMMA MarkCommittedKeeps ==
    ASSUME SdkInv, Sdk!MarkCommitted
    PROVE  SdkInv'
<1>0. PICK k : k = editing.kind
  OBVIOUS
<1> DEFINE j == restores[k]
<1>1. /\ editing.step = "published" /\ k \in SwapKinds /\ j \in Journals /\ UNCHANGED anchor
      /\ editing.doc \in promised /\ anchor = editing.doc /\ j.here
  <2>1. editing.step = "published" /\ UNCHANGED anchor
    BY DEF Sdk!MarkCommitted
  <2>2. anchor = editing.doc
    BY <2>1 DEF SdkInv, CommitKept
  <2> QED
    BY <1>0, <2>1, <2>2, SdkSwapping
<1>2. CASE /\ restores' = [restores EXCEPT ![k].phase = "committed"]
           /\ editing' = [editing EXCEPT !.step = "clear", !.after = "saved"]
           /\ UNCHANGED <<client, promised>>
  <2> DEFINE n == [j EXCEPT !.phase = "committed"]
  <2>1. n \in Journals /\ n.here = j.here /\ n.phase = "committed"
    BY <1>1, JournalPhase
  <2>2. restores' = [restores EXCEPT ![k] = n]
    BY <1>2
  <2> HIDE DEF n
  <2>3. /\ restores' \in [SwapKinds -> Journals] /\ restores'[k] = n
        /\ \A i \in SwapKinds \ {k} : restores'[i] = restores[i]
    BY <1>1, <2>1, <2>2, JournalPut DEF SdkInv
  <2>4. EditAt("clear", editing.scope, "saved")
    BY <1>2, EditSteps, SdkOnDisk DEF SdkEdits, SdkSteps
  <2>5. editing' \in SdkEdits /\ editing'.kind = k /\ editing'.doc = editing.doc
        /\ editing'.step = "clear" /\ editing'.after = "saved"
    BY <1>0, <2>4 DEF EditAt
  <2>6. restores'[k].here /\ restores'[k].phase = "committed"
    BY <1>1, <2>1, <2>3
  <2>7. /\ \A i \in SwapKinds : restores'[i].here \/ restores'[i] = Sdk!NoRestore
        /\ ~restores'["anchor"].here \/ ~restores'["raw"].here
    BY <1>1, <2>3, <2>6, SdkOnDisk DEF SwapKinds
  <2>8. RecoveryKept'
    BY <1>1, <1>2, <2>5, <2>6 DEF RecoveryKept, Pending
  <2> QED
    BY <1>1, <1>2, <2>3, <2>5, <2>7, <2>8, SdkOnDisk, SdkBusy, RecoveryGoesOn
<1>3. CASE Sdk!RollBackAfterError /\ UNCHANGED restores
  BY <1>1, <1>3, CommitRollsBack
<1> QED
  BY <1>0, <1>2, <1>3 DEF Sdk!MarkCommitted

LEMMA SdkKeeps ==
    ASSUME SdkInv, Sdk!SdkNext
    PROVE  SdkInv'
BY SdkRecoveryBegins, ExamineKeeps, RollBackKeeps, ClearEntryKeeps, SdkClearedKeeps,
   StageUpsertKeeps, StageRemovalKeeps, StartedKeeps, EditInPlaceKeeps, PrepareKeeps,
   PrepareRawKeeps, MoveKeeps, MarkMovedKeeps, SdkPublishKeeps, MarkCommittedKeeps,
   StopClientKeeps
   DEF Sdk!SdkNext

LEMMA SdkRests ==
    ASSUME SdkInv, UNCHANGED Sdk!sdkVars
    PROVE  SdkInv'
<1>1. UNCHANGED <<anchor, restores, editing, client, promised>>
  BY DEF Sdk!sdkVars
<1>2. Sdk!NotSaved' = Sdk!NotSaved
  BY <1>1, NotSavedStays
<1>3. SdkTypes' /\ Sdk!UsedInputsSurvive'
  BY <1>1 DEF SdkInv, SdkTypes, Sdk!UsedInputsSurvive
<1>4. \A k \in SwapKinds : Pending(k)' = Pending(k)
  BY <1>1 DEF Pending
<1>5. ASSUME NEW R, Settled(R) PROVE Settled(R)'
  BY <1>1, <1>5, SettledStays
<1>6. editing.step = "idle" => Settled(promised)'
  BY <1>1, <1>5 DEF SdkInv
<1>7. RecoveryKept'
  BY <1>1, <1>2, <1>4, <1>5 DEF SdkInv, RecoveryKept, Settled, Pending, Restorable
<1>8. CommitKept'
  BY <1>1, <1>2, <1>4 DEF SdkInv, CommitKept, Uncovered, Ahead, Pending, Restorable
<1> QED
  BY <1>1, <1>3, <1>6, <1>7, <1>8 DEF SdkInv

LEMMA SdkIsSound ==
    ASSUME SdkInv
    PROVE  Sdk!SdkTypeOK /\ Sdk!SdkConfigHolds
<1>1. Sdk!SdkTypeOK
  BY SdkOnDisk DEF Sdk!SdkTypeOK, Pairs, Journals, SdkEdits, SwapKinds
<1>2. Sdk!ScopesAreOfOneCommit
  <2>1. ASSUME editing.step = "idle", \A k \in {"anchor", "raw"} : ~restores[k].here
        PROVE  anchor \in promised
    BY <2>1, SdkOnDisk DEF SdkInv, Settled, SwapKinds
  <2> QED
    BY <2>1 DEF Sdk!ScopesAreOfOneCommit
<1> QED
  BY <1>1, <1>2 DEF SdkInv, Sdk!SdkConfigHolds
=============================================================================
