---------------------------- MODULE StoresProofs ----------------------------
(***************************************************************************)
(* Proofs about what the client keeps on disk and how it starts over it,   *)
(* for any values, Computers, requests, servers and numbers of editions:   *)
(* the inductive invariants of what leaves a Computer, its packages, the   *)
(* settings, the migration and the start, and then the theorems about the  *)
(* specification of the run, with what ComputerProofs shows of the rest.   *)
(***************************************************************************)
EXTENDS ComputerProofs

-----------------------------------------------------------------------------
(* ConfigImport. *)

ImportPair == [inputs : 0..MaxImports, servers : 0..MaxImports]
ImportRedo == [phase : {"none", "pending", "aborted", "committed"}, edition : 0..MaxImports,
               inputs : BOOLEAN, complete : BOOLEAN]
ImportReplaying == {"replayInputs", "replayServers", "replayed"}
ImportWriting == {"inputs", "servers", "finish", "restore", "abort"}
ImportStep(forms) ==
              [step : {"idle", "built", "load", "preflight"}
                      \cup ImportReplaying \cup ImportWriting,
               edition : 0..MaxImports, inputs : BOOLEAN,
               form : forms, before : ImportPair]

ImportTypes ==
    /\ stored \in ImportPair /\ redo \in ImportRedo
    /\ importing \in ImportStep(IF importing.step = "built" THEN Importing!ExternalForms
                                 ELSE {"none"})
    /\ program \in {"stopped", "starting", "running"} /\ issued \in 0..MaxImports

\* Where an operation may be, and when the journal has to be there.
ImportPlaces ==
    /\ program = "stopped" => importing.step = "idle"
    /\ program = "starting" => importing.step \in {"load"} \cup ImportReplaying
    /\ importing.step \in ImportReplaying \cup ImportWriting => redo.phase = "pending"

\* What the two stores hold at each step of an import or a replay.
ImportHolds ==
    /\ importing.step \in {"idle", "built", "load", "preflight"} =>
           stored \in foreseen \/ (program # "running" /\ redo.phase = "pending")
    /\ importing.step = "replayServers" /\ redo.inputs => stored.inputs = redo.edition
    /\ importing.step = "replayed" => stored = Importing!With(stored, redo.edition, redo.inputs)
    /\ importing.step \in {"inputs", "abort"} => stored = importing.before
    /\ importing.step \in {"servers", "restore"} =>
           stored = [inputs |-> IF importing.inputs THEN importing.edition
                                ELSE importing.before.inputs,
                     servers |-> importing.before.servers]
    /\ importing.step = "finish" =>
           stored = Importing!With(importing.before, importing.edition, importing.inputs)
    /\ importing.step = "built" => Importing!AcceptsExternal(importing.form)

ImportExported == exported.file \in exported.among

ImportInv == ImportTypes /\ ImportPlaces /\ ImportHolds /\ ImportExported

LEMMA ImportStarts ==
    ASSUME Importing!ImportInit
    PROVE  ImportInv
<1> USE DEF Importing!ImportInit, Importing!NoRedo, Importing!NoImport
<1>1. 0 \in 0..MaxImports
  BY StoresAssumption DEF Importing!ImportAssumption
<1>2. ImportTypes
  BY <1>1 DEF ImportTypes, ImportPair, ImportRedo, ImportStep
<1>3. ImportPlaces /\ ImportHolds
  BY DEF ImportPlaces, ImportHolds, ImportReplaying, ImportWriting
<1>4. ImportExported
  BY DEF ImportExported
<1> QED
  BY <1>2, <1>3, <1>4 DEF ImportInv

LEMMA ImportGoesTo ==
    ASSUME ImportInv, NEW s \in {"load", "preflight"} \cup ImportReplaying \cup ImportWriting,
           importing.step # "built", Importing!To(s)
    PROVE  /\ importing' \in ImportStep({"none"}) /\ importing'.step = s
           /\ importing'.edition = importing.edition
           /\ importing'.inputs = importing.inputs /\ importing'.before = importing.before
BY DEF ImportInv, ImportTypes, ImportStep, Importing!To

LEMMA NoImportTyped ==
    /\ Importing!NoImport \in ImportStep({"none"}) /\ Importing!NoImport.step = "idle"
    /\ Importing!NoRedo \in ImportRedo /\ Importing!NoRedo.phase = "none"
BY StoresAssumption
DEF Importing!NoImport, Importing!NoRedo, ImportStep, ImportRedo, ImportPair,
    Importing!ImportAssumption

LEMMA ImportPairs ==
    ASSUME NEW p \in ImportPair, NEW e \in 0..MaxImports, NEW b \in BOOLEAN
    PROVE  /\ Importing!With(p, e, b) \in ImportPair
           /\ [p EXCEPT !.inputs = e] \in ImportPair
           /\ [p EXCEPT !.servers = e] \in ImportPair
           /\ [p EXCEPT !.inputs = e] = [inputs |-> e, servers |-> p.servers]
           /\ [p EXCEPT !.servers = e] = [inputs |-> p.inputs, servers |-> e]
           /\ p = [inputs |-> p.inputs, servers |-> p.servers]
BY DEF ImportPair, Importing!With

LEMMA BeginImportKeeps ==
    ASSUME ImportInv, Importing!BeginImport
    PROVE  ImportInv'
<1>1. /\ program = "running" /\ importing.step = "idle" /\ issued \in 0..MaxImports
      /\ UNCHANGED <<stored, redo, program, foreseen, exported>> /\ stored \in foreseen
      /\ issued' = issued + 1 /\ issued < MaxImports
  BY DEF Importing!BeginImport, Importing!LeaseFree, ImportInv, ImportHolds, ImportTypes
<1>2. issued + 1 \in 0..MaxImports
  BY <1>1, StoresAssumption DEF Importing!ImportAssumption
<1>3. CASE \E inputs_ \in BOOLEAN :
                importing' = [Importing!NoImport EXCEPT !.step = "load",
                                  !.edition = issued + 1, !.inputs = inputs_]
  <2>1. importing' \in ImportStep({"none"}) /\ importing'.step = "load"
    BY <1>2, <1>3, NoImportTyped DEF ImportStep
  <2>2. ImportTypes'
    BY <1>1, <1>2, <2>1 DEF ImportInv, ImportTypes
  <2> QED
    BY <1>1, <2>1, <2>2 DEF ImportInv, ImportPlaces, ImportHolds, ImportExported,
       ImportReplaying, ImportWriting
<1>4. ASSUME NEW form \in Importing!ExternalForms, Importing!AcceptsExternal(form),
             importing' = [Importing!NoImport EXCEPT !.step = "built",
                               !.edition = issued + 1, !.form = form]
      PROVE  ImportInv'
  <2>1. /\ importing' \in ImportStep(Importing!ExternalForms) /\ importing'.step = "built"
        /\ importing'.form = form
    BY <1>2, <1>4, NoImportTyped DEF ImportStep
  <2>2. ImportTypes'
    BY <1>1, <1>2, <2>1 DEF ImportInv, ImportTypes
  <2>3. Importing!AcceptsExternal(importing'.form)
    BY <1>4, <2>1
  <2> QED
    BY <1>1, <2>1, <2>2, <2>3 DEF ImportInv, ImportPlaces, ImportHolds, ImportExported,
       ImportReplaying, ImportWriting
<1> QED
  BY <1>3, <1>4 DEF Importing!BeginImport

LEMMA PrepareExternalKeeps ==
    ASSUME ImportInv, Importing!PrepareExternal
    PROVE  ImportInv'
<1>1. /\ importing.step = "built" /\ importing \in ImportStep(Importing!ExternalForms)
      /\ importing' = [importing EXCEPT !.step = "load", !.form = "none"]
      /\ UNCHANGED <<stored, redo, program, issued, foreseen, exported>>
  BY DEF Importing!PrepareExternal, ImportInv, ImportTypes
<1>2. importing' \in ImportStep({"none"}) /\ importing'.step = "load"
  BY <1>1 DEF ImportStep
<1>3. ImportTypes'
  BY <1>1, <1>2 DEF ImportInv, ImportTypes
<1> QED
  BY <1>1, <1>2, <1>3
  DEF ImportInv, ImportPlaces, ImportHolds, ImportExported, ImportReplaying, ImportWriting

LEMMA ImportEditKeeps ==
    ASSUME ImportInv, Importing!EditStores
    PROVE  ImportInv'
<1>1. /\ program = "running" /\ importing.step = "idle" /\ issued \in 0..MaxImports
      /\ UNCHANGED <<redo, importing, program, exported>> /\ stored \in ImportPair
      /\ issued' = issued + 1 /\ issued < MaxImports /\ stored' \in foreseen'
      /\ stored' \in {[stored EXCEPT !.inputs = issued'], [stored EXCEPT !.servers = issued']}
  BY DEF Importing!EditStores, Importing!LeaseFree, ImportInv, ImportHolds, ImportTypes
<1>2. issued' \in 0..MaxImports
  BY <1>1, StoresAssumption DEF Importing!ImportAssumption
<1>3. stored' \in ImportPair
  BY <1>1, <1>2 DEF ImportPair
<1>4. ImportTypes'
  BY <1>1, <1>2, <1>3 DEF ImportInv, ImportTypes
<1> QED
  BY <1>1, <1>4
  DEF ImportInv, ImportPlaces, ImportHolds, ImportExported, ImportReplaying, ImportWriting

LEMMA ExportKeeps ==
    ASSUME ImportInv, Importing!Export
    PROVE  ImportInv'
<1>1. /\ UNCHANGED <<stored, redo, importing, program, issued, foreseen>>
      /\ exported' = [file |-> stored, among |-> foreseen] /\ stored \in foreseen
  BY DEF Importing!Export, Importing!LeaseFree, ImportInv, ImportHolds
<1>2. ImportExported'
  BY <1>1 DEF ImportExported
<1> QED
  BY <1>1, <1>2 DEF ImportInv, ImportTypes, ImportPlaces, ImportHolds

\* Operations that end, or stop: what they leave is foreseen, or the journal waits.
LEMMA ImportReturns ==
    ASSUME ImportInv, importing' = Importing!NoImport, stored' \in ImportPair,
           redo' \in ImportRedo, issued' = issued, exported' = exported,
           program' \in {"stopped", "running"},
           stored' \in foreseen' \/ (program' = "stopped" /\ redo'.phase = "pending")
    PROVE  ImportInv'
<1>1. ImportTypes'
  BY NoImportTyped DEF ImportInv, ImportTypes
<1>2. ImportPlaces' /\ ImportHolds' /\ ImportExported'
  BY NoImportTyped DEF ImportInv, ImportPlaces, ImportHolds, ImportExported,
     ImportReplaying, ImportWriting
<1> QED
  BY <1>1, <1>2 DEF ImportInv


LEMMA ImportTyped ==
    ASSUME ImportInv
    PROVE  /\ stored \in ImportPair /\ redo \in ImportRedo
           /\ program \in {"stopped", "starting", "running"} /\ issued \in 0..MaxImports
           /\ importing.step # "built" => importing \in ImportStep({"none"})
           /\ importing.edition \in 0..MaxImports /\ importing.inputs \in BOOLEAN
           /\ importing.before \in ImportPair
BY DEF ImportInv, ImportTypes, ImportStep

\* An operation goes to its next step.
LEMMA ImportGoesOn ==
    ASSUME ImportInv, stored' \in ImportPair, redo' \in ImportRedo,
           importing' \in ImportStep({"none"}), importing'.step # "built",
           program' = program, issued' = issued, exported' = exported,
           ImportPlaces', ImportHolds'
    PROVE  ImportInv'
BY DEF ImportInv, ImportTypes, ImportExported

LEMMA StartProgramKeeps ==
    ASSUME ImportInv, Importing!StartProgram
    PROVE  ImportInv'
<1>1. /\ UNCHANGED <<stored, redo, issued, foreseen, exported>> /\ program' = "starting"
      /\ program = "stopped" /\ importing.step = "idle"
      /\ stored \in foreseen \/ redo.phase = "pending"
      /\ importing' = [Importing!NoImport EXCEPT !.step = "load"]
  BY DEF Importing!StartProgram, ImportInv, ImportPlaces, ImportHolds
<1>2. importing' \in ImportStep({"none"}) /\ importing'.step = "load"
  BY <1>1, NoImportTyped DEF ImportStep
<1>3. ImportTypes'
  BY <1>1, <1>2, ImportTyped DEF ImportTypes
<1>4. ImportPlaces' /\ ImportHolds' /\ ImportExported'
  BY <1>1, <1>2 DEF ImportInv, ImportPlaces, ImportHolds, ImportExported,
     ImportReplaying, ImportWriting
<1> QED
  BY <1>3, <1>4 DEF ImportInv

\* A recovery that is over lets the import go on, or the application run.
LEMMA RecoveryDoneKeeps ==
    ASSUME ImportInv, Importing!RecoveryDone, stored' = stored, stored \in foreseen',
           redo' \in ImportRedo, issued' = issued, exported' = exported,
           importing.step \in {"load", "replayed"}
    PROVE  ImportInv'
<1>1. CASE program = "starting"
  BY <1>1, ImportTyped, ImportReturns DEF Importing!RecoveryDone
<1>2. CASE program # "starting"
  <2>1. Importing!To("preflight") /\ program' = program /\ importing.step # "built"
    BY <1>2 DEF Importing!RecoveryDone
  <2>2. importing' \in ImportStep({"none"}) /\ importing'.step = "preflight"
    BY <2>1, ImportGoesTo
  <2>3. program = "running"
    BY <1>2, ImportTyped DEF ImportInv, ImportPlaces
  <2>4. ImportPlaces' /\ ImportHolds'
    BY <2>1, <2>2, <2>3 DEF ImportPlaces, ImportHolds, ImportReplaying, ImportWriting
  <2> QED
    BY <2>1, <2>2, <2>4, ImportTyped, ImportGoesOn
<1> QED
  BY <1>1, <1>2

LEMMA LoadRedoKeeps ==
    ASSUME ImportInv, Importing!LoadRedo
    PROVE  ImportInv'
<1>1. /\ importing.step = "load" /\ UNCHANGED <<stored, issued, exported>>
      /\ program \in {"starting", "running"}
      /\ stored \in foreseen \/ (program # "running" /\ redo.phase = "pending")
  BY ImportTyped DEF Importing!LoadRedo, ImportInv, ImportPlaces, ImportHolds
<1>2. CASE redo.phase # "pending"
  <2>1. redo' \in {redo, Importing!NoRedo} /\ Importing!RecoveryDone /\ foreseen' = foreseen
    BY <1>2 DEF Importing!LoadRedo
  <2>2. redo' \in ImportRedo
    BY <2>1, ImportTyped, NoImportTyped
  <2> QED
    BY <1>1, <1>2, <2>1, <2>2, RecoveryDoneKeeps
<1>3. CASE redo.phase = "pending" /\ Importing!To("replayInputs")
           /\ UNCHANGED <<program, foreseen, redo>>
  <2>1. importing' \in ImportStep({"none"}) /\ importing'.step = "replayInputs"
    BY <1>1, <1>3, ImportGoesTo DEF ImportReplaying
  <2>2. ImportPlaces' /\ ImportHolds'
    BY <1>1, <1>3, <2>1 DEF ImportPlaces, ImportHolds, ImportReplaying, ImportWriting
  <2> QED
    BY <1>1, <1>3, <2>1, <2>2, ImportTyped, ImportGoesOn
<1>4. CASE redo.phase = "pending" /\ Importing!Returns(foreseen) /\ Importing!Stops
           /\ UNCHANGED redo
  BY <1>1, <1>4, ImportTyped, ImportReturns DEF Importing!Returns, Importing!Stops
<1> QED
  BY <1>2, <1>3, <1>4 DEF Importing!LoadRedo

\* A replay that fails says that what is pending waits for recovery.
LEMMA ReplayFails ==
    ASSUME ImportInv, importing.step \in ImportReplaying, Importing!Unsure, Importing!Stops,
           stored' \in ImportPair, UNCHANGED <<redo, issued, exported>>
    PROVE  ImportInv'
<1>1. redo.phase = "pending" /\ program \in {"starting", "running"}
  BY ImportTyped DEF ImportInv, ImportPlaces, ImportReplaying
<1> QED
  BY <1>1, ImportTyped, ImportReturns DEF Importing!Unsure, Importing!Returns, Importing!Stops

LEMMA ReplayInputsKeeps ==
    ASSUME ImportInv, Importing!ReplayInputs
    PROVE  ImportInv'
<1>1. /\ importing.step = "replayInputs" /\ UNCHANGED <<redo, issued, exported>>
      /\ stored \in ImportPair /\ redo \in ImportRedo /\ redo.phase = "pending"
      /\ program # "stopped"
  BY ImportTyped DEF Importing!ReplayInputs, ImportInv, ImportPlaces, ImportReplaying
<1>2. [stored EXCEPT !.inputs = redo.edition] \in ImportPair
      /\ [stored EXCEPT !.inputs = redo.edition].inputs = redo.edition
  BY <1>1 DEF ImportPair, ImportRedo
<1>3. CASE /\ stored' = IF redo.inputs THEN [stored EXCEPT !.inputs = redo.edition] ELSE stored
           /\ Importing!To("replayServers") /\ UNCHANGED <<program, foreseen>>
  <2>1. importing' \in ImportStep({"none"}) /\ importing'.step = "replayServers"
    BY <1>1, <1>3, ImportGoesTo DEF ImportReplaying
  <2>2. ImportPlaces' /\ ImportHolds'
    BY <1>1, <1>2, <1>3, <2>1 DEF ImportPlaces, ImportHolds, ImportReplaying, ImportWriting
  <2>3. stored' \in ImportPair
    BY <1>1, <1>2, <1>3
  <2> QED
    BY <1>1, <1>3, <2>1, <2>2, <2>3, ImportTyped, ImportGoesOn
<1>4. CASE /\ stored' \in {stored, [stored EXCEPT !.inputs = redo.edition]}
           /\ Importing!Unsure /\ Importing!Stops
  <2>1. stored' \in ImportPair
    BY <1>1, <1>2, <1>4
  <2> QED
    BY <1>1, <1>4, <2>1, ReplayFails DEF ImportReplaying
<1> QED
  BY <1>3, <1>4 DEF Importing!ReplayInputs

LEMMA ReplayServersKeeps ==
    ASSUME ImportInv, Importing!ReplayServers
    PROVE  ImportInv'
<1>1. /\ importing.step = "replayServers" /\ UNCHANGED <<redo, issued, exported>>
      /\ stored \in ImportPair /\ redo \in ImportRedo /\ redo.phase = "pending"
      /\ program # "stopped"
      /\ redo.inputs => stored.inputs = redo.edition
  BY ImportTyped
  DEF Importing!ReplayServers, ImportInv, ImportPlaces, ImportReplaying, ImportHolds
<1>2. CASE /\ stored' = [stored EXCEPT !.servers = redo.edition] /\ Importing!To("replayed")
           /\ UNCHANGED <<program, foreseen>>
  <2>1. importing' \in ImportStep({"none"}) /\ importing'.step = "replayed"
    BY <1>1, <1>2, ImportGoesTo DEF ImportReplaying
  <2>2. /\ stored' \in ImportPair
        /\ stored' = [inputs |-> stored.inputs, servers |-> redo.edition]
    BY <1>1, <1>2, ImportPairs DEF ImportRedo
  <2>3. stored' = Importing!With(stored', redo.edition, redo.inputs)
    BY <1>1, <2>2 DEF Importing!With
  <2>4. Importing!With(stored', redo'.edition, redo'.inputs)
            = Importing!With(stored', redo.edition, redo.inputs)
    BY <1>1
  <2>5. ImportPlaces'
    BY <1>1, <1>2, <2>1 DEF ImportPlaces, ImportReplaying, ImportWriting
  <2>6. ImportHolds'
    <3>1. Importing!With(stored, redo.edition, redo.inputs)'
              = Importing!With(stored', redo'.edition, redo'.inputs)
      BY DEF Importing!With
    <3> QED
      BY <2>1, <2>3, <2>4, <3>1 DEF ImportHolds
  <2> QED
    BY <1>1, <1>2, <2>1, <2>2, <2>5, <2>6, ImportTyped, ImportGoesOn
<1>3. CASE stored' = stored /\ Importing!Unsure /\ Importing!Stops
  BY <1>1, <1>3, ReplayFails DEF ImportReplaying
<1> QED
  BY <1>2, <1>3 DEF Importing!ReplayServers

LEMMA MarkReplayedKeeps ==
    ASSUME ImportInv, Importing!MarkReplayed
    PROVE  ImportInv'
<1>1. /\ importing.step = "replayed" /\ UNCHANGED <<stored, issued, exported>>
      /\ stored = Importing!With(stored, redo.edition, redo.inputs)
      /\ stored \in ImportPair /\ redo \in ImportRedo
  BY ImportTyped DEF Importing!MarkReplayed, ImportInv, ImportHolds
<1>2. CASE /\ redo' \in {Importing!NoRedo, [redo EXCEPT !.phase = "committed"]}
           /\ foreseen' = {Importing!With(stored, redo.edition, redo.inputs)}
           /\ Importing!RecoveryDone
  <2>1. redo' \in ImportRedo
    BY <1>1, <1>2, NoImportTyped DEF ImportRedo
  <2> QED
    BY <1>1, <1>2, <2>1, RecoveryDoneKeeps
<1>3. CASE redo' = redo /\ Importing!Unsure /\ Importing!Stops
  BY <1>1, <1>3, ReplayFails DEF ImportReplaying
<1> QED
  BY <1>2, <1>3 DEF Importing!MarkReplayed


LEMMA PersistRedoKeeps ==
    ASSUME ImportInv, Importing!PersistRedo
    PROVE  ImportInv'
<1>1. /\ importing.step = "preflight" /\ UNCHANGED <<stored, program, issued, exported>>
      /\ stored \in ImportPair /\ redo \in ImportRedo
      /\ program = "running" /\ stored \in foreseen
  BY ImportTyped
  DEF Importing!PersistRedo, ImportInv, ImportPlaces, ImportReplaying, ImportHolds
<1>2. CASE /\ redo' = [phase |-> "pending", edition |-> importing.edition,
                       inputs |-> importing.inputs, complete |-> FALSE]
           /\ importing' = [importing EXCEPT !.step = "inputs", !.before = stored]
  <2>1. redo' \in ImportRedo /\ redo'.phase = "pending"
    BY <1>2, ImportTyped DEF ImportRedo
  <2>2. /\ importing' \in ImportStep({"none"}) /\ importing'.step = "inputs"
        /\ importing'.before = stored
    BY <1>1, <1>2, ImportTyped DEF ImportStep, ImportWriting
  <2>3. ImportPlaces' /\ ImportHolds'
    BY <1>1, <2>1, <2>2 DEF ImportPlaces, ImportHolds, ImportReplaying, ImportWriting
  <2> QED
    BY <1>1, <2>1, <2>2, <2>3, ImportGoesOn
<1>3. CASE Importing!Returns(foreseen) /\ UNCHANGED redo
  BY <1>1, <1>3, ImportReturns DEF Importing!Returns
<1> QED
  BY <1>2, <1>3 DEF Importing!PersistRedo

\* While an import writes the application runs, and the journal is pending.
LEMMA ImportWrites ==
    ASSUME ImportInv, importing.step \in ImportWriting
    PROVE  /\ program = "running" /\ redo.phase = "pending" /\ stored \in ImportPair
           /\ redo \in ImportRedo /\ importing \in ImportStep({"none"})
           /\ importing.before \in ImportPair /\ importing.step # "built"
BY ImportTyped DEF ImportInv, ImportPlaces, ImportWriting, ImportReplaying

LEMMA ImportInputsKeeps ==
    ASSUME ImportInv, Importing!ImportInputs
    PROVE  ImportInv'
<1>1. /\ importing.step = "inputs" /\ UNCHANGED <<redo, program, issued, exported>>
      /\ stored = importing.before
  BY DEF Importing!ImportInputs, ImportInv, ImportHolds
<1>2. /\ program = "running" /\ redo.phase = "pending" /\ stored \in ImportPair
      /\ redo \in ImportRedo /\ importing.before \in ImportPair /\ importing.step # "built"
  BY <1>1, ImportWrites DEF ImportWriting
<1>3. [stored EXCEPT !.inputs = importing.edition] \in ImportPair
      /\ [stored EXCEPT !.inputs = importing.edition] =
             [inputs |-> importing.edition, servers |-> stored.servers]
      /\ stored = [inputs |-> stored.inputs, servers |-> stored.servers]
  BY <1>2, ImportTyped, ImportPairs
<1>4. CASE /\ stored' = IF importing.inputs
                        THEN [stored EXCEPT !.inputs = importing.edition] ELSE stored
           /\ Importing!To("servers") /\ UNCHANGED foreseen
  <2>1. /\ importing' \in ImportStep({"none"}) /\ importing'.step = "servers"
        /\ importing'.edition = importing.edition
        /\ importing'.inputs = importing.inputs /\ importing'.before = importing.before
    BY <1>2, <1>4, ImportGoesTo DEF ImportWriting
  <2>2. stored' = [inputs |-> IF importing'.inputs THEN importing'.edition
                              ELSE importing'.before.inputs,
                   servers |-> importing'.before.servers]
    BY <1>1, <1>3, <1>4, <2>1
  <2>3. ImportPlaces' /\ ImportHolds'
    BY <1>1, <1>2, <2>1, <2>2 DEF ImportPlaces, ImportHolds, ImportReplaying, ImportWriting
  <2>4. stored' \in ImportPair
    BY <1>2, <1>3, <1>4
  <2> QED
    BY <1>1, <1>2, <2>1, <2>3, <2>4, ImportGoesOn
<1>5. CASE Importing!To("abort") /\ UNCHANGED <<stored, foreseen>>
  <2>1. /\ importing' \in ImportStep({"none"}) /\ importing'.step = "abort"
        /\ importing'.before = importing.before
    BY <1>2, <1>5, ImportGoesTo DEF ImportWriting
  <2>2. ImportPlaces' /\ ImportHolds'
    BY <1>1, <1>2, <1>5, <2>1 DEF ImportPlaces, ImportHolds, ImportReplaying, ImportWriting
  <2> QED
    BY <1>1, <1>2, <1>5, <2>1, <2>2, ImportGoesOn
<1>6. CASE stored' \in {stored, [stored EXCEPT !.inputs = importing.edition]}
           /\ Importing!Unsure
  <2>1. stored' \in ImportPair
    BY <1>2, <1>3, <1>6
  <2> QED
    BY <1>1, <1>2, <1>6, <2>1, ImportReturns DEF Importing!Unsure, Importing!Returns
<1> QED
  BY <1>4, <1>5, <1>6 DEF Importing!ImportInputs

LEMMA ImportServersKeeps ==
    ASSUME ImportInv, Importing!ImportServers
    PROVE  ImportInv'
<1>1. /\ importing.step = "servers" /\ UNCHANGED <<redo, program, issued, foreseen, exported>>
      /\ stored = [inputs |-> IF importing.inputs THEN importing.edition
                              ELSE importing.before.inputs,
                   servers |-> importing.before.servers]
  BY DEF Importing!ImportServers, ImportInv, ImportHolds
<1>2. /\ program = "running" /\ redo.phase = "pending" /\ stored \in ImportPair
      /\ redo \in ImportRedo /\ importing.before \in ImportPair /\ importing.step # "built"
  BY <1>1, ImportWrites DEF ImportWriting
<1>3. CASE stored' = [stored EXCEPT !.servers = importing.edition] /\ Importing!To("finish")
  <2>1. /\ importing' \in ImportStep({"none"}) /\ importing'.step = "finish"
        /\ importing'.edition = importing.edition
        /\ importing'.inputs = importing.inputs /\ importing'.before = importing.before
    BY <1>2, <1>3, ImportGoesTo DEF ImportWriting
  <2>2. /\ stored' \in ImportPair
        /\ stored' = Importing!With(importing.before, importing.edition, importing.inputs)
    BY <1>1, <1>2, <1>3, ImportTyped, ImportPairs DEF Importing!With
  <2>3. stored' = Importing!With(importing'.before, importing'.edition, importing'.inputs)
    BY <2>1, <2>2
  <2>4. ImportPlaces' /\ ImportHolds'
    BY <1>1, <1>2, <2>1, <2>3
    DEF ImportPlaces, ImportHolds, ImportReplaying, ImportWriting, Importing!With
  <2> QED
    BY <1>1, <1>2, <2>1, <2>2, <2>4, ImportGoesOn
<1>4. CASE UNCHANGED stored /\ Importing!To("restore")
  <2>1. /\ importing' \in ImportStep({"none"}) /\ importing'.step = "restore"
        /\ importing'.edition = importing.edition
        /\ importing'.inputs = importing.inputs /\ importing'.before = importing.before
    BY <1>2, <1>4, ImportGoesTo DEF ImportWriting
  <2>2. ImportPlaces' /\ ImportHolds'
    BY <1>1, <1>2, <1>4, <2>1 DEF ImportPlaces, ImportHolds, ImportReplaying, ImportWriting
  <2> QED
    BY <1>1, <1>2, <1>4, <2>1, <2>2, ImportGoesOn
<1> QED
  BY <1>1, <1>3, <1>4 DEF Importing!ImportServers

LEMMA RestoreInputsKeeps ==
    ASSUME ImportInv, Importing!RestoreInputs
    PROVE  ImportInv'
<1>1. /\ importing.step = "restore" /\ UNCHANGED <<redo, program, issued, exported>>
      /\ stored = [inputs |-> IF importing.inputs THEN importing.edition
                              ELSE importing.before.inputs,
                   servers |-> importing.before.servers]
  BY DEF Importing!RestoreInputs, ImportInv, ImportHolds
<1>2. /\ program = "running" /\ redo.phase = "pending" /\ stored \in ImportPair
      /\ redo \in ImportRedo /\ importing.before \in ImportPair /\ importing.step # "built"
  BY <1>1, ImportWrites DEF ImportWriting
<1>3. CASE stored' = [stored EXCEPT !.inputs = importing.before.inputs]
           /\ Importing!To("abort") /\ UNCHANGED foreseen
  <2>1. /\ importing' \in ImportStep({"none"}) /\ importing'.step = "abort"
        /\ importing'.before = importing.before
    BY <1>2, <1>3, ImportGoesTo DEF ImportWriting
  <2>2. stored' = importing.before
    BY <1>1, <1>2, <1>3 DEF ImportPair
  <2>3. ImportPlaces' /\ ImportHolds'
    BY <1>1, <1>2, <2>1, <2>2 DEF ImportPlaces, ImportHolds, ImportReplaying, ImportWriting
  <2> QED
    BY <1>1, <1>2, <1>3, <2>1, <2>2, <2>3, ImportGoesOn
<1>4. CASE UNCHANGED stored /\ Importing!Unsure
  BY <1>1, <1>2, <1>4, ImportReturns DEF Importing!Unsure, Importing!Returns
<1> QED
  BY <1>3, <1>4 DEF Importing!RestoreInputs

LEMMA ImportConcludes ==
    ASSUME ImportInv, Importing!AbortImport \/ Importing!FinishImport
    PROVE  ImportInv'
<1>1. /\ importing.step \in ImportWriting
      /\ UNCHANGED <<stored, program, issued, exported>>
  BY DEF Importing!AbortImport, Importing!FinishImport, ImportWriting
<1>2. /\ program = "running" /\ stored \in ImportPair /\ redo \in ImportRedo
  BY <1>1, ImportWrites
<1>3. redo' \in ImportRedo
  BY <1>2, NoImportTyped DEF Importing!AbortImport, Importing!FinishImport, ImportRedo
<1>4. importing' = Importing!NoImport /\ stored' \in foreseen'
  BY <1>1 DEF Importing!AbortImport, Importing!FinishImport, Importing!Unsure,
     Importing!Returns, ImportInv, ImportHolds
<1> QED
  BY <1>1, <1>2, <1>3, <1>4, ImportReturns

LEMMA StopProgramKeeps ==
    ASSUME ImportInv, Importing!StopProgram
    PROVE  ImportInv'
<1>1. stored \in foreseen \/ redo.phase = "pending"
  BY DEF ImportInv, ImportPlaces, ImportHolds, ImportTypes, ImportStep
<1> QED
  BY <1>1, ImportTyped, ImportReturns DEF Importing!StopProgram

LEMMA ImportRests ==
    ASSUME ImportInv, UNCHANGED Importing!importVars
    PROVE  ImportInv'
BY DEF Importing!importVars, ImportInv, ImportTypes, ImportPlaces, ImportHolds,
       ImportExported

LEMMA ImportKeeps ==
    ASSUME ImportInv, Importing!ImportNext
    PROVE  ImportInv'
BY BeginImportKeeps, PrepareExternalKeeps, ImportEditKeeps, ExportKeeps, StartProgramKeeps,
   LoadRedoKeeps, ReplayInputsKeeps, ReplayServersKeeps, MarkReplayedKeeps,
   PersistRedoKeeps, ImportInputsKeeps, ImportServersKeeps, RestoreInputsKeeps,
   ImportConcludes, StopProgramKeeps
DEF Importing!ImportNext

LEMMA ImportIsSound ==
    ASSUME ImportInv
    PROVE  Importing!ImportTypeOK /\ Importing!ConfigImportHolds
<1>1. Importing!ImportTypeOK
  BY DEF ImportInv, ImportTypes, ImportPair, ImportRedo, Importing!ImportTypeOK
<1>2. Importing!ImportIsAllOrNothing
  BY DEF ImportInv, ImportHolds, ImportExported, Importing!ImportIsAllOrNothing,
     Importing!LeaseFree
<1>3. ASSUME importing.step = "built"
      PROVE  LET form == importing.form
                 built == Importing!Built(form) IN
             /\ form.local = built.local
             /\ form.headers = built.headers
             /\ form.oauth = "on" => built.negotiates
             /\ form.oauth = "off" => ~built.negotiates
             /\ form.transport \in {"none", built.transport}
  <2>1. importing.form \in Importing!ExternalForms
        /\ Importing!AcceptsExternal(importing.form)
    BY <1>3 DEF ImportInv, ImportTypes, ImportStep, ImportHolds
  <2> QED
    BY <2>1 DEF Importing!ExternalForms, Importing!AcceptsExternal, Importing!Built
<1> QED
  BY <1>1, <1>2, <1>3 DEF Importing!ConfigImportHolds, Importing!ExternalSettingsAreKept


-----------------------------------------------------------------------------
(* PortablePackage. *)

PortableStamps == [Portable!Groups -> 0..MaxEdits]
PortablePackages ==
    [groups : SUBSET Portable!Groups, valid : BOOLEAN, at : PortableStamps, secret : BOOLEAN,
     values : SUBSET {"plain"}, target : Portable!Targets, plugins : SUBSET Plugins]

PortableTypes ==
    /\ source \in [at : PortableStamps, secret : BOOLEAN, value : {"plain", "keychain"},
                   target : Portable!Targets]
    /\ edit \in {"none", "started"}
    /\ export \in [step : {"none", "read", "written"}, todo : SUBSET Portable!Groups,
                   read : PortablePackages]
    /\ package \in PortablePackages
    /\ import \in [step : {"none", "apply", "rebuild", "done"},
                   todo : SUBSET (Portable!Groups \cup Plugins)]
    /\ created \in [wrote : SUBSET Portable!Groups, published : BOOLEAN,
                    target : Portable!Targets, plugins : SUBSET Plugins]

\* The stores are of one edit, or of the one in progress and the one before.
PortableEdits ==
    LET now == source.at["values"] IN
    /\ edit = "none" => \A g \in Portable!Groups : source.at[g] = now
    /\ edit = "started" => now < MaxEdits
                           /\ \A g \in Portable!Groups : source.at[g] \in {now, now + 1}

\* What an export has read is of the Computer's present edit: none begins before it is
\* written.
PortableReads ==
    /\ export.read.secret => export.read.values = {}
    /\ export.step # "none" => edit = "none"
    /\ export.step = "read" =>
           \A g \in export.read.groups \ export.todo : export.read.at[g] = source.at[g]

PortableWritten ==
    /\ package.secret => package.values = {}
    /\ \A g, h \in package.groups : package.at[g] = package.at[h]
    /\ export.step # "written" => package = Portable!NoPackage

PortableCreates ==
    /\ export.step # "written" => import.step = "none"
    /\ import.step = "none" => ~created.published
    /\ import.step = "apply" =>
           /\ ~created.published
           /\ "profile" \in created.wrote /\ import.todo \subseteq Portable!Groups
           /\ package.groups \subseteq created.wrote \cup import.todo
    /\ import.step = "rebuild" => import.todo \subseteq Plugins
    /\ created.published => package.groups \cup {"profile"} \subseteq created.wrote

PortableInv ==
    PortableTypes /\ PortableEdits /\ PortableReads /\ PortableWritten /\ PortableCreates

LEMMA PortableStarts ==
    ASSUME Portable!PortableInit
    PROVE  PortableInv
<1> USE DEF Portable!PortableInit, Portable!Stores, Portable!Groups
<1>1. Portable!Stores \in PortableStamps
  BY StoresAssumption DEF PortableStamps, Portable!PortableAssumption
<1>2. Portable!NoPackage \in PortablePackages
  BY <1>1 DEF Portable!NoPackage, PortablePackages, Portable!Targets
<1>3. PortableTypes
  BY <1>1, <1>2 DEF PortableTypes, Portable!NotCreated, Portable!Targets
<1>4. PortableEdits /\ PortableReads /\ PortableWritten /\ PortableCreates
  BY DEF PortableEdits, PortableReads, PortableWritten, PortableCreates,
     Portable!NoPackage, Portable!NotCreated
<1> QED
  BY <1>3, <1>4 DEF PortableInv

LEMMA BeginEditKeeps ==
    ASSUME PortableInv, Portable!BeginEdit
    PROVE  PortableInv'
<1>1. /\ UNCHANGED <<source, export, package, import, created>> /\ edit' = "started"
      /\ edit = "none" /\ source.at["profile"] < MaxEdits /\ export.step = "none"
  BY DEF Portable!BeginEdit, PortableInv, PortableTypes
<1>2. PortableEdits'
  BY <1>1 DEF PortableInv, PortableEdits, Portable!Groups
<1>3. PortableTypes' /\ PortableReads' /\ PortableWritten' /\ PortableCreates'
  BY <1>1 DEF PortableInv, PortableTypes, PortableReads, PortableWritten, PortableCreates
<1> QED
  BY <1>2, <1>3 DEF PortableInv

LEMMA PortableEditKeeps ==
    ASSUME PortableInv, Portable!EditStores
    PROVE  PortableInv'
<1>1. /\ UNCHANGED <<export, package, import, created>> /\ edit = "started"
      /\ export.step = "none"
      /\ source \in [at : PortableStamps, secret : BOOLEAN, value : {"plain", "keychain"},
                     target : Portable!Targets]
      /\ source.at["values"] < MaxEdits
      /\ \A g \in Portable!Groups :
             source.at[g] \in {source.at["values"], source.at["values"] + 1}
  BY DEF Portable!EditStores, PortableInv, PortableTypes, PortableReads, PortableEdits
<1>2. MaxEdits \in Nat /\ source.at \in [Portable!Groups -> 0..MaxEdits]
  BY <1>1, StoresAssumption DEF Portable!PortableAssumption, PortableStamps
<1> DEFINE Edited ==
             /\ source' \in [at : PortableStamps, secret : BOOLEAN,
                             value : {"plain", "keychain"}, target : Portable!Targets]
             /\ edit' \in {"none", "started"} /\ PortableEdits'
<1>3. Edited
  <2>1. ASSUME NEW g \in {"profile", "sdk", "skills"}, source.at[g] <= source.at["values"],
               source' = [source EXCEPT !.at[g] = @ + 1, !.secret = @ \/ g = "sdk"],
               edit' = edit
        PROVE  Edited
    <3> DEFINE a == [source.at EXCEPT ![g] = source.at[g] + 1]
               s == source.secret \/ g = "sdk"
    <3>1. source' = [source EXCEPT !.at = a, !.secret = s]
      BY <1>1, <2>1
    <3>2. a \in [Portable!Groups -> 0..MaxEdits] /\ a["values"] = source.at["values"]
          /\ \A h \in Portable!Groups : a[h] \in {a["values"], a["values"] + 1}
      BY <1>1, <1>2, <2>1 DEF Portable!Groups
    <3>3. s \in BOOLEAN
      BY <1>1
    <3> HIDE DEF a, s
    <3>4. /\ source' \in [at : PortableStamps, secret : BOOLEAN,
                          value : {"plain", "keychain"}, target : Portable!Targets]
          /\ source'.at = a
      BY <1>1, <3>1, <3>2, <3>3 DEF PortableStamps
    <3> QED
      BY <1>1, <2>1, <3>2, <3>4 DEF PortableEdits
  <2>2. ASSUME \A g \in {"profile", "sdk", "skills"} : source.at[g] > source.at["values"],
               NEW v \in {source.value, "keychain"}, edit' = "none",
               source' = [source EXCEPT !.at["values"] = @ + 1, !.value = v]
        PROVE  Edited
    <3> DEFINE a == [source.at EXCEPT !["values"] = source.at["values"] + 1]
    <3>1. source' = [source EXCEPT !.at = a, !.value = v]
      BY <1>1, <2>2
    <3>2. a \in [Portable!Groups -> 0..MaxEdits]
          /\ \A h \in Portable!Groups : a[h] = a["values"]
      BY <1>1, <1>2, <2>2 DEF Portable!Groups
    <3> HIDE DEF a
    <3>3. /\ source' \in [at : PortableStamps, secret : BOOLEAN,
                          value : {"plain", "keychain"}, target : Portable!Targets]
          /\ source'.at = a
      BY <1>1, <3>1, <3>2 DEF PortableStamps
    <3> QED
      BY <1>1, <2>2, <3>2, <3>3 DEF PortableEdits
  <2> HIDE DEF Edited
  <2> QED
    BY <2>1, <2>2 DEF Portable!EditStores
<1>4. PortableTypes' /\ PortableReads' /\ PortableWritten' /\ PortableCreates'
  BY <1>1, <1>3 DEF PortableInv, PortableTypes, PortableReads, PortableWritten, PortableCreates
<1> QED
  BY <1>3, <1>4 DEF PortableInv

LEMMA StartExportKeeps ==
    ASSUME PortableInv, Portable!StartExport
    PROVE  PortableInv'
<1>1. PICK groups \in SUBSET Portable!Groups \ {{}} :
          /\ export' = [step |-> "read", todo |-> groups,
                        read |-> [Portable!NoPackage EXCEPT !.groups = groups]]
          /\ UNCHANGED <<source, edit, package, import, created>> /\ edit = "none"
          /\ export.step = "none"
  BY DEF Portable!StartExport
<1>2. /\ export'.read \in PortablePackages /\ export'.read.groups = groups
      /\ export'.read.secret = FALSE
  <2>1. Portable!Stores \in PortableStamps
    BY StoresAssumption DEF PortableStamps, Portable!PortableAssumption, Portable!Stores
  <2> QED
    BY <1>1, <2>1 DEF Portable!NoPackage, PortablePackages, Portable!Targets
<1>3. PortableTypes'
  BY <1>1, <1>2 DEF PortableInv, PortableTypes
<1>4. PortableReads'
  BY <1>1, <1>2 DEF PortableReads
<1>5. PortableEdits' /\ PortableWritten' /\ PortableCreates'
  BY <1>1 DEF PortableInv, PortableEdits, PortableWritten, PortableCreates
<1> QED
  BY <1>3, <1>4, <1>5 DEF PortableInv

\* The group that comes next is one of those that are left.
LEMMA NextOfLeft ==
    ASSUME NEW T, T \subseteq Portable!Groups, T # {}
    PROVE  Portable!NextOf(T) \in T
<1> DEFINE First(i) == Portable!Order[i] \in T
                       /\ \A j \in 1..(i - 1) : Portable!Order[j] \notin T
<1>1. \E i \in 1..4 : First(i)
  <2>1. "profile" \in T => First(1)
    BY DEF Portable!Order
  <2>2. "profile" \notin T /\ "sdk" \in T => First(2)
    BY DEF Portable!Order
  <2>3. "profile" \notin T /\ "sdk" \notin T /\ "values" \in T => First(3)
    BY DEF Portable!Order
  <2>4. "profile" \notin T /\ "sdk" \notin T /\ "values" \notin T /\ "skills" \in T
            => First(4)
    BY DEF Portable!Order
  <2>5. "profile" \in T \/ "sdk" \in T \/ "values" \in T \/ "skills" \in T
    BY DEF Portable!Groups
  <2> HIDE DEF First
  <2> QED
    BY <2>1, <2>2, <2>3, <2>4, <2>5
<1>2. First(CHOOSE i \in 1..4 : First(i))
  <2> HIDE DEF First
  <2> QED
    BY <1>1, Zenon
<1> QED
  BY <1>2 DEF Portable!NextOf


LEMMA ReadGroupKeeps ==
    ASSUME PortableInv, Portable!ReadGroup
    PROVE  PortableInv'
<1>1. /\ UNCHANGED <<source, edit, package, import, created>> /\ export.step = "read"
      /\ edit = "none" /\ export.todo # {} /\ export.todo \subseteq Portable!Groups
      /\ export.read \in PortablePackages
      /\ export \in [step : {"none", "read", "written"}, todo : SUBSET Portable!Groups,
                     read : PortablePackages]
      /\ source \in [at : PortableStamps, secret : BOOLEAN, value : {"plain", "keychain"},
                     target : Portable!Targets]
      /\ \A g \in export.read.groups \ export.todo : export.read.at[g] = source.at[g]
      /\ export.read.secret => export.read.values = {}
  BY DEF Portable!ReadGroup, PortableInv, PortableTypes, PortableReads
<1>2. PortableEdits' /\ PortableWritten'
  BY <1>1 DEF Portable!ReadGroup, PortableInv, PortableEdits, PortableWritten
<1> DEFINE g == Portable!NextOf(export.todo)
           r == export.read
           read == Portable!Taken(r, g)
<1>3. g \in export.todo
  BY <1>1, NextOfLeft
<1>4. CASE export' = [export EXCEPT !.step = "none", !.todo = {}]
  <2>1. /\ export' \in [step : {"none", "read", "written"}, todo : SUBSET Portable!Groups,
                        read : PortablePackages]
        /\ export'.step = "none" /\ export'.read = export.read
    BY <1>1, <1>4
  <2>2. PortableTypes' /\ PortableReads' /\ PortableCreates'
    BY <1>1, <2>1 DEF PortableInv, PortableTypes, PortableReads, PortableCreates
  <2> QED
    BY <1>2, <2>2 DEF PortableInv
<1>5. CASE export' = [export EXCEPT !.todo = @ \ {g}, !.read = Portable!Taken(@, g)]
  <2>1. export' = [export EXCEPT !.todo = export.todo \ {g}, !.read = read]
    BY <1>5
  <2>2. /\ read \in PortablePackages /\ read.groups = r.groups
        /\ read.at[g] = source.at[g]
        /\ \A h \in Portable!Groups \ {g} : read.at[h] = r.at[h]
        /\ read.secret => read.values = {}
    <3> DEFINE a == [r.at EXCEPT ![g] = source.at[g]]
               t == IF g = "profile" THEN source.target ELSE r.target
               s == IF g = "values" THEN source.secret ELSE r.secret
               v == IF g = "values" THEN Portable!PortableValues ELSE r.values
               p == IF g = "skills" THEN Portable!ExportedPlugins ELSE r.plugins
    <3>1. read = [r EXCEPT !.at = a, !.target = t, !.secret = s, !.values = v, !.plugins = p]
      BY DEF Portable!Taken
    <3> HIDE DEF g
    <3>2. a \in PortableStamps /\ a[g] = source.at[g]
          /\ \A h \in Portable!Groups \ {g} : a[h] = r.at[h]
      BY <1>1, <1>3 DEF PortablePackages, PortableStamps
    <3>3. /\ t \in Portable!Targets /\ s \in BOOLEAN /\ v \in SUBSET {"plain"}
          /\ p \in SUBSET Plugins
      BY <1>1 DEF PortablePackages, Portable!PortableValues, Portable!ExportedPlugins
    <3>4. s => v = {}
      BY <1>1 DEF Portable!PortableValues
    <3>0. r \in PortablePackages
      BY <1>1
    <3> HIDE DEF a, t, s, v, p, read, r
    <3>5. /\ read \in PortablePackages /\ read.groups = r.groups
          /\ read.at = a /\ read.secret = s /\ read.values = v
      BY <3>0, <3>1, <3>2, <3>3 DEF PortablePackages
    <3> QED
      BY <3>2, <3>4, <3>5
  <2> HIDE DEF g, read
  <2>3. /\ export' \in [step : {"none", "read", "written"}, todo : SUBSET Portable!Groups,
                        read : PortablePackages]
        /\ export'.step = "read" /\ export'.read = read /\ export'.todo = export.todo \ {g}
    BY <1>1, <2>1, <2>2
  <2>4. PortableTypes' /\ PortableCreates'
    BY <1>1, <2>3 DEF PortableInv, PortableTypes, PortableCreates
  <2>5. \A h \in export'.read.groups \ export'.todo : export'.read.at[h] = source'.at[h]
    BY <1>1, <2>2, <2>3 DEF PortablePackages
  <2>6. PortableReads'
    BY <1>1, <2>2, <2>3, <2>5 DEF PortableReads
  <2> QED
    BY <1>2, <2>4, <2>6 DEF PortableInv
<1> QED
  BY <1>4, <1>5 DEF Portable!ReadGroup

LEMMA WritePackageKeeps ==
    ASSUME PortableInv, Portable!WritePackage
    PROVE  PortableInv'
<1>1. /\ UNCHANGED <<source, edit, import, created>> /\ export.step = "read"
      /\ edit = "none" /\ export.todo = {} /\ export.read \in PortablePackages
      /\ export \in [step : {"none", "read", "written"}, todo : SUBSET Portable!Groups,
                     read : PortablePackages]
      /\ package \in PortablePackages
      /\ package' \in {package, [export.read EXCEPT !.valid = TRUE]}
      /\ export' = [export EXCEPT !.step = "written"]
      /\ export.read.secret => export.read.values = {}
  BY DEF Portable!WritePackage, PortableInv, PortableTypes, PortableReads
<1>2. \A g \in Portable!Groups : source.at[g] = source.at["values"]
  BY <1>1 DEF PortableInv, PortableEdits
<1>3. \A g \in export.read.groups : export.read.at[g] = source.at["values"]
  BY <1>1, <1>2 DEF PortableInv, PortableReads, PortablePackages
<1>4. /\ export' \in [step : {"none", "read", "written"}, todo : SUBSET Portable!Groups,
                      read : PortablePackages]
      /\ export'.step = "written" /\ export'.read = export.read
  BY <1>1
<1>5. /\ package' \in PortablePackages
      /\ package'.secret => package'.values = {}
      /\ \A g, h \in package'.groups : package'.at[g] = package'.at[h]
  <2>1. CASE package' = package
    BY <1>1, <2>1 DEF PortableInv, PortableWritten
  <2>2. CASE package' = [export.read EXCEPT !.valid = TRUE]
    <3>1. /\ package' \in PortablePackages /\ package'.secret = export.read.secret
          /\ package'.values = export.read.values /\ package'.groups = export.read.groups
          /\ package'.at = export.read.at
      BY <1>1, <2>2 DEF PortablePackages
    <3> QED
      BY <1>1, <1>3, <3>1
  <2> QED
    BY <1>1, <2>1, <2>2
<1>6. import.step = "none" /\ ~created.published
  BY <1>1 DEF PortableInv, PortableCreates
<1>7. PortableTypes'
  BY <1>1, <1>4, <1>5 DEF PortableInv, PortableTypes
<1>8. PortableEdits' /\ PortableReads' /\ PortableWritten' /\ PortableCreates'
  BY <1>1, <1>4, <1>5, <1>6
  DEF PortableInv, PortableEdits, PortableReads, PortableWritten, PortableCreates
<1> QED
  BY <1>7, <1>8 DEF PortableInv

LEMMA DamagePackageKeeps ==
    ASSUME PortableInv, Portable!DamagePackage
    PROVE  PortableInv'
<1>1. /\ UNCHANGED <<source, edit, export, import, created>> /\ package.valid
      /\ import.step = "none" /\ package' = [package EXCEPT !.valid = FALSE]
      /\ package \in PortablePackages
  BY DEF Portable!DamagePackage, PortableInv, PortableTypes
<1>2. /\ package' \in PortablePackages /\ package'.secret = package.secret
      /\ package'.values = package.values /\ package'.groups = package.groups
      /\ package'.at = package.at
  BY <1>1 DEF PortablePackages
<1>3. export.step = "written"
  BY <1>1 DEF PortableInv, PortableWritten, Portable!NoPackage
<1>4. PortableTypes'
  BY <1>1, <1>2 DEF PortableInv, PortableTypes
<1>5. PortableEdits' /\ PortableReads' /\ PortableCreates'
  BY <1>1, <1>2, <1>3 DEF PortableInv, PortableEdits, PortableReads, PortableCreates
<1>6. PortableWritten'
  BY <1>1, <1>2, <1>3 DEF PortableInv, PortableWritten
<1> QED
  BY <1>4, <1>5, <1>6 DEF PortableInv

\* What a step of the creation changes.
LEMMA PortableCreating ==
    ASSUME PortableInv, UNCHANGED <<source, edit, export, package>>,
           import' \in [step : {"none", "apply", "rebuild", "done"},
                        todo : SUBSET (Portable!Groups \cup Plugins)],
           created' \in [wrote : SUBSET Portable!Groups, published : BOOLEAN,
                         target : Portable!Targets, plugins : SUBSET Plugins],
           PortableCreates'
    PROVE  PortableInv'
BY DEF PortableInv, PortableTypes, PortableEdits, PortableReads, PortableWritten

LEMMA CreateFromPackageKeeps ==
    ASSUME PortableInv, Portable!CreateFromPackage
    PROVE  PortableInv'
<1>1. /\ UNCHANGED <<source, edit, export, package>> /\ package # Portable!NoPackage
      /\ import' = [step |-> "apply", todo |-> package.groups \cap {"sdk", "values", "skills"}]
      /\ created' = [Portable!NotCreated EXCEPT
             !.wrote = {"profile"},
             !.target = IF "profile" \in package.groups THEN package.target ELSE "none"]
      /\ package \in PortablePackages
  BY DEF Portable!CreateFromPackage, Portable!ValidPackage, PortableInv, PortableTypes
<1>2. export.step = "written"
  BY <1>1 DEF PortableInv, PortableWritten
<1>3. /\ package.groups \subseteq Portable!Groups
      /\ (IF "profile" \in package.groups THEN package.target ELSE "none") \in Portable!Targets
  BY <1>1 DEF PortablePackages, Portable!Targets
<1>4. /\ created' \in [wrote : SUBSET Portable!Groups, published : BOOLEAN,
                       target : Portable!Targets, plugins : SUBSET Plugins]
      /\ created'.published = FALSE /\ created'.wrote = {"profile"}
  BY <1>1, <1>3 DEF Portable!NotCreated, Portable!Groups
<1>5. /\ import' \in [step : {"none", "apply", "rebuild", "done"},
                      todo : SUBSET (Portable!Groups \cup Plugins)]
      /\ import'.step = "apply" /\ import'.todo \subseteq Portable!Groups
      /\ package.groups \subseteq {"profile"} \cup import'.todo
  BY <1>1, <1>3 DEF Portable!Groups
<1>6. PortableCreates'
  BY <1>1, <1>2, <1>4, <1>5 DEF PortableCreates
<1> QED
  BY <1>1, <1>4, <1>5, <1>6, PortableCreating

LEMMA ApplyPackageKeeps ==
    ASSUME PortableInv, Portable!ApplyPackage
    PROVE  PortableInv'
<1> DEFINE g == Portable!NextOf(import.todo)
<1>1. /\ UNCHANGED <<source, edit, export, package>> /\ import.step = "apply"
      /\ import.todo # {} /\ import.todo \subseteq Portable!Groups /\ ~created.published
      /\ "profile" \in created.wrote /\ package.groups \subseteq created.wrote \cup import.todo
      /\ export.step = "written"
      /\ import \in [step : {"none", "apply", "rebuild", "done"},
                     todo : SUBSET (Portable!Groups \cup Plugins)]
      /\ created \in [wrote : SUBSET Portable!Groups, published : BOOLEAN,
                      target : Portable!Targets, plugins : SUBSET Plugins]
  BY DEF Portable!ApplyPackage, PortableInv, PortableTypes, PortableCreates
<1>2. g \in import.todo /\ g \in Portable!Groups
  BY <1>1, NextOfLeft
<1>3. \/ /\ created' = [created EXCEPT !.wrote = @ \cup {g}]
         /\ import' = [import EXCEPT !.todo = @ \ {g}]
      \/ /\ created' \in [wrote : SUBSET (created.wrote \cup {g}), published : {FALSE},
                          target : {created.target}, plugins : {{}}]
         /\ import' = [step |-> "done", todo |-> {}]
  BY DEF Portable!ApplyPackage
<1> HIDE DEF g
<1>4. CASE /\ created' = [created EXCEPT !.wrote = @ \cup {g}]
           /\ import' = [import EXCEPT !.todo = @ \ {g}]
  <2>1. /\ created' \in [wrote : SUBSET Portable!Groups, published : BOOLEAN,
                         target : Portable!Targets, plugins : SUBSET Plugins]
        /\ created'.published = created.published
        /\ created'.wrote = created.wrote \cup {g}
    BY <1>1, <1>2, <1>4
  <2>2. /\ import' \in [step : {"none", "apply", "rebuild", "done"},
                        todo : SUBSET (Portable!Groups \cup Plugins)]
        /\ import'.step = "apply" /\ import'.todo = import.todo \ {g}
    BY <1>1, <1>4
  <2>3. PortableCreates'
    BY <1>1, <1>2, <2>1, <2>2 DEF PortableCreates
  <2> QED
    BY <1>1, <2>1, <2>2, <2>3, PortableCreating
<1>5. CASE /\ created' \in [wrote : SUBSET (created.wrote \cup {g}), published : {FALSE},
                            target : {created.target}, plugins : {{}}]
           /\ import' = [step |-> "done", todo |-> {}]
  <2>1. /\ created' \in [wrote : SUBSET Portable!Groups, published : BOOLEAN,
                         target : Portable!Targets, plugins : SUBSET Plugins]
        /\ created'.published = FALSE
    BY <1>1, <1>2, <1>5
  <2>2. PortableCreates'
    BY <1>1, <1>5, <2>1 DEF PortableCreates
  <2> QED
    BY <1>1, <1>5, <2>1, <2>2, PortableCreating
<1> QED
  BY <1>3, <1>4, <1>5

LEMMA PublishCreatedKeeps ==
    ASSUME PortableInv, Portable!PublishCreated
    PROVE  PortableInv'
<1>1. /\ UNCHANGED <<source, edit, export, package>> /\ import.step = "apply"
      /\ import.todo = {} /\ "profile" \in created.wrote
      /\ package.groups \subseteq created.wrote /\ export.step = "written"
      /\ created' = [created EXCEPT !.published = TRUE]
      /\ import' = [step |-> "rebuild", todo |-> package.plugins]
      /\ package \in PortablePackages
      /\ created \in [wrote : SUBSET Portable!Groups, published : BOOLEAN,
                      target : Portable!Targets, plugins : SUBSET Plugins]
  BY DEF Portable!PublishCreated, PortableInv, PortableTypes, PortableCreates
<1>2. /\ created' \in [wrote : SUBSET Portable!Groups, published : BOOLEAN,
                       target : Portable!Targets, plugins : SUBSET Plugins]
      /\ created'.wrote = created.wrote
  BY <1>1
<1>3. /\ import' \in [step : {"none", "apply", "rebuild", "done"},
                      todo : SUBSET (Portable!Groups \cup Plugins)]
      /\ import'.step = "rebuild" /\ import'.todo \subseteq Plugins
  BY <1>1 DEF PortablePackages
<1>4. PortableCreates'
  BY <1>1, <1>2, <1>3 DEF PortableCreates
<1> QED
  BY <1>1, <1>2, <1>3, <1>4, PortableCreating

LEMMA RebuildPluginKeeps ==
    ASSUME PortableInv, Portable!RebuildPlugin
    PROVE  PortableInv'
<1>1. /\ UNCHANGED <<source, edit, export, package>> /\ import.step = "rebuild"
      /\ export.step = "written"
      /\ import \in [step : {"none", "apply", "rebuild", "done"},
                     todo : SUBSET (Portable!Groups \cup Plugins)]
      /\ created \in [wrote : SUBSET Portable!Groups, published : BOOLEAN,
                      target : Portable!Targets, plugins : SUBSET Plugins]
      /\ created.published => package.groups \cup {"profile"} \subseteq created.wrote
      /\ import.todo \subseteq Plugins
  BY DEF Portable!RebuildPlugin, PortableInv, PortableTypes, PortableCreates
<1>2. /\ import' \in [step : {"none", "apply", "rebuild", "done"},
                      todo : SUBSET (Portable!Groups \cup Plugins)]
      /\ import'.step \in {"rebuild", "done"}
      /\ import'.step = "rebuild" => import'.todo \subseteq Plugins
  BY <1>1 DEF Portable!RebuildPlugin
<1>3. /\ created'.wrote = created.wrote /\ created'.published = created.published
      /\ created' \in [wrote : SUBSET Portable!Groups, published : BOOLEAN,
                       target : Portable!Targets, plugins : SUBSET Plugins]
  <2>1. CASE created' = created
    BY <1>1, <2>1
  <2>2. ASSUME NEW p \in Plugins, created' = [created EXCEPT !.plugins = @ \cup {p}]
        PROVE  <1>3
    BY <1>1, <2>2
  <2> QED
    BY <1>1, <2>1, <2>2 DEF Portable!RebuildPlugin
<1>4. PortableCreates'
  BY <1>1, <1>2, <1>3 DEF PortableCreates
<1> QED
  BY <1>1, <1>2, <1>3, <1>4, PortableCreating

LEMMA PortableRests ==
    ASSUME PortableInv, UNCHANGED Portable!portableVars
    PROVE  PortableInv'
BY DEF Portable!portableVars, PortableInv, PortableTypes, PortableEdits, PortableReads,
       PortableWritten, PortableCreates

LEMMA PortableKeeps ==
    ASSUME PortableInv, Portable!PortableNext
    PROVE  PortableInv'
BY BeginEditKeeps, PortableEditKeeps, StartExportKeeps, ReadGroupKeeps, WritePackageKeeps,
   DamagePackageKeeps, CreateFromPackageKeeps, ApplyPackageKeeps, PublishCreatedKeeps,
   RebuildPluginKeeps
DEF Portable!PortableNext

LEMMA PortableIsSound ==
    ASSUME PortableInv
    PROVE  Portable!PortableTypeOK /\ Portable!PortableHolds
<1>1. Portable!PortableTypeOK
  BY DEF PortableInv, PortableTypes, PortableStamps, PortablePackages,
     Portable!PortableTypeOK
<1> QED
  BY <1>1 DEF PortableInv, PortableWritten, PortableCreates, Portable!PortableHolds,
     Portable!PackageIsOfOneMoment, Portable!PackageHasNoSecret, Portable!ImportIsWhole


-----------------------------------------------------------------------------
(* Settings. *)

SettingsFiles == [retention : {"short", "long"}, checked : 0..MaxClock, deferred : BOOLEAN,
                  notices : [Notices -> {"unknown", "seen", "dismissed"}]]
FewNotices(file) ==
    Cardinality({n \in Notices : file.notices[n] # "unknown"}) <= MaxNotices
SettingsEdits ==
    [op : {"user"}, retention : {"short", "long"}]
        \cup [op : {"claim"}, now : 1..MaxClock]
        \cup [op : {"defer"}, deferred : BOOLEAN]
        \cup [op : {"notice"}, ids : SUBSET Notices \ {{}}, dismissed : BOOLEAN]

SettingsTypes ==
    /\ files = [settings |-> files.settings, chat |-> files.chat]
    /\ settingsCommitted = [settings |-> settingsCommitted.settings,
                            chat |-> settingsCommitted.chat]
    /\ files.settings \in SettingsFiles /\ FewNotices(files.settings)
    /\ fileLock \in [{"settings", "chat"} -> Writers \cup {Setting!NoWriter}]
    /\ clock \in 1..MaxClock
    /\ writer = [w \in Writers |-> writer[w]]

\* A command that has read its file holds the lock, and the file is as it was read.
WriterKept(w) ==
    LET r == writer[w] IN
    /\ r = [at |-> r.at, change |-> r.change, file |-> r.file, read |-> r.read]
    /\ r.at \in {"idle", "lock", "write", "retain"} /\ r.file \in {"settings", "chat"}
    /\ r.at # "idle" /\ r.file = "settings" =>
           r.change \in SettingsEdits /\ r.read \in SettingsFiles /\ FewNotices(r.read)
    /\ r.at # "idle" /\ r.file = "chat" => r.change \in Setting!ChatChanges
    /\ r.at = "write" =>
           /\ fileLock[r.file] = w
           /\ r.file = "chat" => r.read = files.chat
           /\ r.file = "settings" /\ ~defaulted => r.read = files.settings
    /\ r.at = "retain" => r.change.op = "user" /\ r.change.retention \in retained

ChecksKept ==
    ~defaulted => /\ \A a \in checks : a[1] \in 1..files.settings.checked
                  /\ Setting!ChecksAreSpaced

SettingsInv ==
    /\ SettingsTypes /\ \A w \in Writers : WriterKept(w)
    /\ Setting!NoUpdateIsLost /\ ChecksKept /\ Setting!CleanupIsCommitted

LEMMA SettingsFinite ==
    /\ IsFiniteSet(Notices) /\ MaxNotices \in Nat /\ Interval \in Nat
    /\ MaxClock \in Nat \ {0} /\ Setting!NoWriter \notin Writers
<1>1. \A S : Setting!IsFiniteSet(S) = IsFiniteSet(S)
  BY DEF Setting!IsFiniteSet, IsFiniteSet
<1> QED
  BY <1>1, StoresAssumption DEF Setting!SettingsAssumption, Setting!NoWriter

LEMMA NoticesCount ==
    ASSUME NEW S \in SUBSET Notices
    PROVE  Cardinality(S) \in Nat /\ Setting!Cardinality(S) = Cardinality(S)
<1>1. Setting!Cardinality(S) = Cardinality(S)
  BY DEF Setting!Cardinality, Cardinality
<1> QED
  BY <1>1, SettingsFinite, FS_Subset, FS_CardinalityType

LEMMA SettingsStarts ==
    ASSUME Setting!SettingsInit
    PROVE  SettingsInv
<1> USE DEF Setting!SettingsInit, Setting!DefaultSettings, Setting!Unknown
<1>1. Setting!DefaultSettings \in SettingsFiles /\ FewNotices(Setting!DefaultSettings)
  <2>1. {n \in Notices : Setting!DefaultSettings.notices[n] # "unknown"} = {}
    OBVIOUS
  <2>2. FewNotices(Setting!DefaultSettings)
    BY <2>1, FS_EmptySet, SettingsFinite DEF FewNotices
  <2>3. Setting!DefaultSettings \in SettingsFiles
    BY SettingsFinite DEF SettingsFiles
  <2> QED
    BY <2>2, <2>3
<1>2. SettingsTypes
  <2> HIDE DEF Setting!DefaultSettings
  <2>1. files.settings = Setting!DefaultSettings
    OBVIOUS
  <2> QED
    BY <1>1, <2>1, SettingsFinite DEF SettingsTypes
<1>3. ASSUME NEW w \in Writers PROVE WriterKept(w)
  BY DEF WriterKept, Setting!IdleWriter
<1>4. Setting!NoUpdateIsLost /\ Setting!CleanupIsCommitted /\ ChecksKept
  BY DEF Setting!NoUpdateIsLost, Setting!CleanupIsCommitted, ChecksKept,
     Setting!ChecksAreSpaced
<1> QED
  BY <1>2, <1>3, <1>4 DEF SettingsInv

\* What a change makes of a settings file it may write.
LEMMA SettingsChanged ==
    ASSUME NEW change \in SettingsEdits, NEW file \in SettingsFiles, FewNotices(file),
           Setting!Writes(change, file)
    PROVE  LET new == Setting!Changed(change, file) IN
           /\ new \in SettingsFiles /\ FewNotices(new)
           /\ change.op # "claim" => new.checked = file.checked
           /\ change.op = "claim" => /\ new.checked = change.now /\ change.now \in 1..MaxClock
                                     /\ Setting!Due(change.now, file.checked)
           /\ change.op = "user" => change.retention \in {"short", "long"}
<1> DEFINE new == Setting!Changed(change, file)
<1>1. CASE change.op = "user"
  <2>1. new = [file EXCEPT !.retention = change.retention]
        /\ change.retention \in {"short", "long"}
    BY <1>1 DEF Setting!Changed, SettingsEdits
  <2> HIDE DEF new
  <2>2. new \in SettingsFiles /\ new.notices = file.notices /\ new.checked = file.checked
    BY <2>1 DEF SettingsFiles
  <2> QED
    BY <1>1, <2>1, <2>2 DEF FewNotices, new
<1>2. CASE change.op = "claim"
  <2>1. new = [file EXCEPT !.checked = change.now] /\ change.now \in 1..MaxClock
        /\ Setting!Due(change.now, file.checked)
    BY <1>2 DEF Setting!Changed, SettingsEdits, Setting!Writes
  <2> HIDE DEF new
  <2>2. new \in SettingsFiles /\ new.notices = file.notices /\ new.checked = change.now
    BY <2>1, SettingsFinite DEF SettingsFiles
  <2> QED
    BY <1>2, <2>1, <2>2 DEF FewNotices, new
<1>3. CASE change.op = "defer"
  <2>1. new = [file EXCEPT !.deferred = change.deferred] /\ change.deferred \in BOOLEAN
    BY <1>3 DEF Setting!Changed, SettingsEdits
  <2> HIDE DEF new
  <2>2. new \in SettingsFiles /\ new.notices = file.notices /\ new.checked = file.checked
    BY <2>1 DEF SettingsFiles
  <2> QED
    BY <1>3, <2>1, <2>2 DEF FewNotices, new
<1>4. CASE change.op = "notice"
  <2> DEFINE noted == [n \in Notices |-> IF n \in change.ids
                             THEN Setting!Noticed(file.notices[n], change.dismissed)
                             ELSE file.notices[n]]
             many == {n \in Notices : file.notices[n] # "unknown" \/ n \in change.ids}
  <2>1. new = [file EXCEPT !.notices = noted] /\ ~Setting!TooMany(file.notices, change.ids)
    BY <1>4 DEF Setting!Changed, Setting!Writes
  <2>2. noted \in [Notices -> {"unknown", "seen", "dismissed"}]
    BY DEF Setting!Noticed, SettingsFiles
  <2>3. {n \in Notices : noted[n] # "unknown"} = many
    BY DEF Setting!Noticed
  <2>4. Cardinality(many) \in Nat /\ ~(Cardinality(many) > MaxNotices)
    BY <2>1, NoticesCount DEF Setting!TooMany
  <2>5. Cardinality(many) <= MaxNotices
    BY <2>4, SettingsFinite
  <2> HIDE DEF new, noted, many
  <2>6. new \in SettingsFiles /\ new.notices = noted /\ new.checked = file.checked
    BY <2>1, <2>2 DEF SettingsFiles
  <2>7. FewNotices(new)
    BY <2>3, <2>5, <2>6 DEF FewNotices
  <2> QED
    BY <1>4, <2>6, <2>7 DEF new
<1>5. change.op \in {"user", "claim", "defer", "notice"}
  BY DEF SettingsEdits
<1> QED
  BY <1>1, <1>2, <1>3, <1>4, <1>5

LEMMA TickKeeps ==
    ASSUME SettingsInv, Setting!Tick
    PROVE  SettingsInv'
<1>1. /\ clock' \in 1..MaxClock
      /\ UNCHANGED <<files, fileLock, writer, settingsCommitted, retained, cleaned, checks,
                     defaulted>>
  BY SettingsFinite DEF Setting!Tick, SettingsInv, SettingsTypes
<1>2. SettingsTypes'
  BY <1>1 DEF SettingsInv, SettingsTypes
<1>3. \A w \in Writers : WriterKept(w)'
  BY <1>1 DEF SettingsInv, WriterKept
<1> QED
  BY <1>1, <1>2, <1>3 DEF SettingsInv, Setting!NoUpdateIsLost, ChecksKept,
     Setting!ChecksAreSpaced, Setting!CleanupIsCommitted

\* Only command w moves, and the files and what is known of them stay.
LEMMA WriterMoves ==
    ASSUME SettingsInv, NEW w \in Writers, NEW r,
           UNCHANGED <<files, clock, settingsCommitted, retained, checks>>,
           defaulted => defaulted', writer' = [writer EXCEPT ![w] = r],
           fileLock' \in [{"settings", "chat"} -> Writers \cup {Setting!NoWriter}],
           \A f \in {"settings", "chat"} :
               fileLock'[f] = fileLock[f] \/ fileLock[f] = Setting!NoWriter,
           cleaned' \subseteq retained, WriterKept(w)'
    PROVE  SettingsInv'
<1>1. SettingsTypes'
  BY DEF SettingsInv, SettingsTypes
<1>2. writer'[w] = r /\ \A v \in Writers \ {w} : writer'[v] = writer[v]
  BY DEF SettingsInv, SettingsTypes
<1>3. ASSUME NEW v \in Writers PROVE WriterKept(v)'
  <2>1. CASE v = w
    BY <2>1
  <2>2. CASE v # w
    <3>1. writer'[v] = writer[v] /\ WriterKept(v)
      BY <1>2, <2>2 DEF SettingsInv
    <3>2. writer[v].at = "write" => fileLock'[writer[v].file] = v
      BY <3>1, SettingsFinite DEF WriterKept
    <3> QED
      BY <3>1, <3>2 DEF WriterKept
  <2> QED
    BY <2>1, <2>2
<1>4. Setting!NoUpdateIsLost' /\ ChecksKept' /\ Setting!CleanupIsCommitted'
  BY DEF SettingsInv, Setting!NoUpdateIsLost, ChecksKept, Setting!ChecksAreSpaced,
     Setting!CleanupIsCommitted
<1> QED
  BY <1>1, <1>3, <1>4 DEF SettingsInv


LEMMA BeginWriteKeeps ==
    ASSUME SettingsInv, NEW w \in Writers, Setting!BeginWrite(w)
    PROVE  SettingsInv'
<1>1. /\ UNCHANGED <<files, fileLock, clock, settingsCommitted, retained, cleaned, checks,
                     defaulted>>
      /\ writer = [v \in Writers |-> writer[v]] /\ cleaned \subseteq retained
      /\ clock \in 1..MaxClock
      /\ fileLock \in [{"settings", "chat"} -> Writers \cup {Setting!NoWriter}]
  BY DEF Setting!BeginWrite, SettingsInv, SettingsTypes, Setting!CleanupIsCommitted
<1>2. ASSUME NEW change \in Setting!SettingsChanges,
             writer' = [writer EXCEPT ![w] = [Setting!IdleWriter EXCEPT !.at = "lock",
                                                                       !.change = change]]
      PROVE  SettingsInv'
  <2>1. change \in SettingsEdits
    BY <1>1 DEF Setting!SettingsChanges, SettingsEdits
  <2>2. Setting!DefaultSettings \in SettingsFiles /\ FewNotices(Setting!DefaultSettings)
    <3>1. {n \in Notices : Setting!DefaultSettings.notices[n] # "unknown"} = {}
      BY DEF Setting!DefaultSettings, Setting!Unknown
    <3>2. FewNotices(Setting!DefaultSettings)
      BY <3>1, FS_EmptySet, SettingsFinite DEF FewNotices
    <3>3. Setting!DefaultSettings \in SettingsFiles
      BY SettingsFinite DEF SettingsFiles, Setting!DefaultSettings, Setting!Unknown
    <3> QED
      BY <3>2, <3>3
  <2> DEFINE r == [at |-> "lock", change |-> change, file |-> "settings",
                   read |-> Setting!DefaultSettings]
  <2>0. [Setting!IdleWriter EXCEPT !.at = "lock", !.change = change] = r
    <3>1. [Setting!IdleWriter EXCEPT !.at = "lock"]
              = [at |-> "lock", change |-> Setting!NoChange, file |-> "settings",
                 read |-> Setting!DefaultSettings]
      BY DEF Setting!IdleWriter
    <3>2. [[at |-> "lock", change |-> Setting!NoChange, file |-> "settings",
            read |-> Setting!DefaultSettings] EXCEPT !.change = change] = r
      OBVIOUS
    <3>3. [Setting!IdleWriter EXCEPT !.at = "lock", !.change = change]
              = [[Setting!IdleWriter EXCEPT !.at = "lock"] EXCEPT !.change = change]
      OBVIOUS
    <3> QED
      BY <3>1, <3>2, <3>3
  <2>3. writer' = [writer EXCEPT ![w] = r]
    BY <1>2, <2>0, Zenon
  <2>4. writer'[w] = r
    BY <1>1, <2>3
  <2>5. WriterKept(w)'
    <3> HIDE DEF r
    <3>1. /\ writer'[w] = [at |-> "lock", change |-> change, file |-> "settings",
                           read |-> Setting!DefaultSettings]
      BY <2>4 DEF r
    <3> QED
      BY <2>1, <2>2, <3>1 DEF WriterKept
  <2> HIDE DEF r
  <2> QED
    BY <1>1, <2>3, <2>5, WriterMoves
<1>3. ASSUME NEW change \in Setting!ChatChanges,
             writer' = [writer EXCEPT ![w] = [at |-> "lock", change |-> change,
                                              file |-> "chat", read |-> Setting!NoPreferences]]
      PROVE  SettingsInv'
  <2>1. writer'[w] = [at |-> "lock", change |-> change, file |-> "chat",
                      read |-> Setting!NoPreferences]
    BY <1>1, <1>3
  <2>2. WriterKept(w)'
    BY <2>1, <1>3 DEF WriterKept, Setting!ChatChanges
  <2> QED
    BY <1>1, <1>3, <2>2, WriterMoves
<1> QED
  BY <1>2, <1>3 DEF Setting!BeginWrite

LEMMA IdleWriterKept ==
    ASSUME SettingsInv, NEW w \in Writers, writer' = [writer EXCEPT ![w] = Setting!IdleWriter]
    PROVE  WriterKept(w)'
<1>1. writer'[w] = Setting!IdleWriter
  BY DEF SettingsInv, SettingsTypes
<1> QED
  BY <1>1 DEF WriterKept, Setting!IdleWriter

LEMMA ReadFileKeeps ==
    ASSUME SettingsInv, NEW w \in Writers, Setting!ReadFile(w)
    PROVE  SettingsInv'
<1> DEFINE f == writer[w].file
<1>1. /\ UNCHANGED <<files, clock, settingsCommitted, retained, cleaned, checks>>
      /\ writer = [v \in Writers |-> writer[v]] /\ cleaned \subseteq retained
      /\ fileLock \in [{"settings", "chat"} -> Writers \cup {Setting!NoWriter}]
      /\ files = [settings |-> files.settings, chat |-> files.chat]
      /\ files.settings \in SettingsFiles /\ FewNotices(files.settings)
      /\ writer[w].at = "lock" /\ fileLock[f] = Setting!NoWriter
      /\ WriterKept(w)
  BY DEF Setting!ReadFile, SettingsInv, SettingsTypes, Setting!CleanupIsCommitted
<1>2. /\ f \in {"settings", "chat"}
      /\ f = "settings" => /\ writer[w].change \in SettingsEdits
                           /\ writer[w].read \in SettingsFiles /\ FewNotices(writer[w].read)
      /\ f = "chat" => writer[w].change \in Setting!ChatChanges
      /\ writer[w] = [at |-> writer[w].at, change |-> writer[w].change, file |-> f,
                      read |-> writer[w].read]
  BY <1>1 DEF WriterKept
<1>3. fileLock' = [fileLock EXCEPT ![f] = w] =>
          /\ fileLock' \in [{"settings", "chat"} -> Writers \cup {Setting!NoWriter}]
          /\ fileLock'[f] = w
          /\ \A g \in {"settings", "chat"} :
                 fileLock'[g] = fileLock[g] \/ fileLock[g] = Setting!NoWriter
  BY <1>1, <1>2
<1>4. CASE /\ fileLock' = [fileLock EXCEPT ![f] = w]
           /\ writer' = [writer EXCEPT ![w] = [@ EXCEPT !.at = "write", !.read = files[f]]]
           /\ UNCHANGED defaulted
  <2> DEFINE r == [at |-> "write", change |-> writer[w].change, file |-> f,
                   read |-> files[f]]
  <2> HIDE DEF f
  <2>0. [writer[w] EXCEPT !.at = "write", !.read = files[f]] = r
    <3>1. [writer[w] EXCEPT !.at = "write"]
              = [at |-> "write", change |-> writer[w].change, file |-> f,
                 read |-> writer[w].read]
      BY <1>2
    <3>2. [[at |-> "write", change |-> writer[w].change, file |-> f,
            read |-> writer[w].read] EXCEPT !.read = files[f]] = r
      OBVIOUS
    <3>3. [writer[w] EXCEPT !.at = "write", !.read = files[f]]
              = [[writer[w] EXCEPT !.at = "write"] EXCEPT !.read = files[f]]
      OBVIOUS
    <3> QED
      BY <3>1, <3>2, <3>3
  <2>1. writer' = [writer EXCEPT ![w] = r]
    BY <1>4, <2>0, Zenon
  <2>2. writer'[w] = r
    BY <1>1, <2>1
  <2>3. f = "settings" => files[f] = files.settings
    BY <1>1
  <2>4. f = "chat" => files[f] = files.chat
    BY <1>1
  <2>5. /\ writer'[w].at = "write" /\ writer'[w].change = writer[w].change
        /\ writer'[w].file = f /\ writer'[w].read = files[f]
        /\ writer'[w] = [at |-> writer'[w].at, change |-> writer'[w].change,
                         file |-> writer'[w].file, read |-> writer'[w].read]
    BY <2>2
  <2> HIDE DEF r
  <2>6. WriterKept(w)'
    BY <1>1, <1>2, <1>3, <1>4, <2>3, <2>4, <2>5 DEF WriterKept
  <2> QED
    BY <1>1, <1>3, <1>4, <2>1, <2>6, WriterMoves
<1>5. CASE /\ f = "settings" /\ fileLock' = [fileLock EXCEPT ![f] = w]
           /\ writer' = [writer EXCEPT ![w].at = "write"] /\ defaulted' = TRUE
  <2> DEFINE r == [at |-> "write", change |-> writer[w].change, file |-> f,
                   read |-> writer[w].read]
  <2> HIDE DEF f
  <2>0. [writer[w] EXCEPT !.at = "write"] = r
    BY <1>2
  <2>1. writer' = [writer EXCEPT ![w] = r]
    BY <1>5, <2>0, Zenon
  <2>2. writer'[w] = r
    BY <1>1, <2>1
  <2>5. /\ writer'[w].at = "write" /\ writer'[w].change = writer[w].change
        /\ writer'[w].file = f /\ writer'[w].read = writer[w].read
        /\ writer'[w] = [at |-> writer'[w].at, change |-> writer'[w].change,
                         file |-> writer'[w].file, read |-> writer'[w].read]
    BY <2>2
  <2> HIDE DEF r
  <2>6. WriterKept(w)'
    BY <1>1, <1>2, <1>3, <1>5, <2>5 DEF WriterKept
  <2> QED
    BY <1>1, <1>3, <1>5, <2>1, <2>6, WriterMoves
<1>6. CASE writer' = [writer EXCEPT ![w] = Setting!IdleWriter]
           /\ UNCHANGED <<fileLock, defaulted>>
  BY <1>1, <1>6, IdleWriterKept, WriterMoves
<1> QED
  BY <1>4, <1>5, <1>6 DEF Setting!ReadFile

LEMMA ApplyRetentionKeeps ==
    ASSUME SettingsInv, NEW w \in Writers, Setting!ApplyRetention(w)
    PROVE  SettingsInv'
<1>1. /\ UNCHANGED <<files, fileLock, clock, settingsCommitted, retained, checks, defaulted>>
      /\ writer' = [writer EXCEPT ![w] = Setting!IdleWriter]
      /\ fileLock \in [{"settings", "chat"} -> Writers \cup {Setting!NoWriter}]
      /\ cleaned \subseteq retained /\ WriterKept(w) /\ writer[w].at = "retain"
      /\ cleaned' \in {cleaned, cleaned \cup {writer[w].change.retention}}
  BY DEF Setting!ApplyRetention, SettingsInv, SettingsTypes, Setting!CleanupIsCommitted
<1>2. cleaned' \subseteq retained
  BY <1>1 DEF WriterKept
<1> QED
  BY <1>1, <1>2, IdleWriterKept, WriterMoves


LEMMA WriteFails ==
    ASSUME SettingsInv, NEW w \in Writers, Setting!WriteFile(w),
           writer' = [writer EXCEPT ![w] = Setting!IdleWriter],
           UNCHANGED <<files, settingsCommitted, retained, checks>>
    PROVE  SettingsInv'
<1> DEFINE f == writer[w].file
<1>1. /\ UNCHANGED <<clock, cleaned, defaulted>> /\ writer[w].at = "write"
      /\ fileLock' = [fileLock EXCEPT ![f] = Setting!NoWriter]
      /\ fileLock \in [{"settings", "chat"} -> Writers \cup {Setting!NoWriter}]
      /\ SettingsTypes /\ \A v \in Writers : WriterKept(v)
      /\ writer = [v \in Writers |-> writer[v]]
  BY DEF Setting!WriteFile, SettingsInv, SettingsTypes
<1>2. f \in {"settings", "chat"} /\ fileLock[f] = w
  BY <1>1 DEF WriterKept
<1>3. fileLock' \in [{"settings", "chat"} -> Writers \cup {Setting!NoWriter}]
  BY <1>1
<1>4. SettingsTypes'
  BY <1>1, <1>3 DEF SettingsTypes
<1>5. ASSUME NEW v \in Writers PROVE WriterKept(v)'
  <2>1. CASE v = w
    BY <2>1, IdleWriterKept
  <2>2. CASE v # w
    <3>1. writer'[v] = writer[v] /\ WriterKept(v)
      BY <1>1, <2>2
    <3>2. writer[v].at = "write" =>
              fileLock[writer[v].file] = v /\ writer[v].file \in {"settings", "chat"}
      BY <3>1 DEF WriterKept
    <3>3. writer[v].at = "write" => fileLock'[writer[v].file] = v
      BY <1>1, <1>2, <2>2, <3>2
    <3> QED
      BY <1>1, <3>1, <3>3 DEF WriterKept
  <2> QED
    BY <2>1, <2>2
<1>6. Setting!NoUpdateIsLost' /\ ChecksKept' /\ Setting!CleanupIsCommitted'
  BY <1>1 DEF SettingsInv, Setting!NoUpdateIsLost, ChecksKept, Setting!ChecksAreSpaced,
     Setting!CleanupIsCommitted
<1> QED
  BY <1>4, <1>5, <1>6 DEF SettingsInv

\* A file is written: the other commands have read the other file.
LEMMA WriteSucceeds ==
    ASSUME SettingsInv, NEW w \in Writers, writer[w].at = "write",
           Setting!Writes(writer[w].change, writer[w].read),
           NEW f, f = writer[w].file, NEW change, change = writer[w].change,
           NEW new, new = Setting!Changed(change, writer[w].read),
           fileLock' = [fileLock EXCEPT ![f] = Setting!NoWriter],
           files' = [files EXCEPT ![f] = new],
           settingsCommitted' =
               [settingsCommitted EXCEPT ![f] = Setting!Changed(change, settingsCommitted[f])],
           retained' = IF change.op = "user" THEN retained \cup {change.retention}
                       ELSE retained,
           checks' = IF change.op = "claim"
                     THEN checks \cup {<<change.now, Setting!Cardinality(checks)>>}
                     ELSE checks,
           writer' = [writer EXCEPT ![w] =
                          IF change.op = "user" THEN [@ EXCEPT !.at = "retain"]
                          ELSE Setting!IdleWriter],
           UNCHANGED <<clock, cleaned, defaulted>>
    PROVE  SettingsInv'
<1>1. /\ SettingsTypes /\ \A v \in Writers : WriterKept(v)
      /\ fileLock \in [{"settings", "chat"} -> Writers \cup {Setting!NoWriter}]
      /\ writer = [v \in Writers |-> writer[v]] /\ clock \in 1..MaxClock
      /\ files = [settings |-> files.settings, chat |-> files.chat]
      /\ settingsCommitted = [settings |-> settingsCommitted.settings,
                              chat |-> settingsCommitted.chat]
      /\ files.settings \in SettingsFiles /\ FewNotices(files.settings)
  BY DEF SettingsInv, SettingsTypes
<1>2. /\ f \in {"settings", "chat"} /\ fileLock[f] = w
      /\ f = "settings" => /\ change \in SettingsEdits
                           /\ writer[w].read \in SettingsFiles /\ FewNotices(writer[w].read)
                           /\ ~defaulted => writer[w].read = files.settings
      /\ f = "chat" => change \in Setting!ChatChanges /\ writer[w].read = files.chat
      /\ writer[w] = [at |-> writer[w].at, change |-> change, file |-> f,
                      read |-> writer[w].read]
  BY <1>1 DEF WriterKept
<1>3. fileLock' \in [{"settings", "chat"} -> Writers \cup {Setting!NoWriter}]
  BY <1>1
<1>4. /\ files' = [settings |-> files'.settings, chat |-> files'.chat]
      /\ f = "settings" => files'.settings = new /\ files'.chat = files.chat
      /\ f = "chat" => files'.chat = new /\ files'.settings = files.settings
  BY <1>1, <1>2
<1> DEFINE done == Setting!Changed(change, settingsCommitted[f])
<1>5. /\ settingsCommitted' = [settings |-> settingsCommitted'.settings,
                               chat |-> settingsCommitted'.chat]
      /\ f = "settings" => /\ settingsCommitted'.settings = done
                           /\ settingsCommitted'.chat = settingsCommitted.chat
      /\ f = "chat" => /\ settingsCommitted'.chat = done
                       /\ settingsCommitted'.settings = settingsCommitted.settings
  <2> HIDE DEF done
  <2>1. settingsCommitted' = [settingsCommitted EXCEPT ![f] = done]
    BY DEF done
  <2> QED
    BY <1>1, <1>2, <2>1
<1>6. f = "settings" =>
          /\ new \in SettingsFiles /\ FewNotices(new)
          /\ change.op # "claim" => new.checked = writer[w].read.checked
          /\ change.op = "claim" => /\ new.checked = change.now /\ change.now \in 1..MaxClock
                                    /\ Setting!Due(change.now, writer[w].read.checked)
  BY <1>2, SettingsChanged
<1>7. SettingsTypes'
  BY <1>1, <1>2, <1>3, <1>4, <1>5, <1>6 DEF SettingsTypes
<1>8. Setting!NoUpdateIsLost'
  <2>0. files.chat = settingsCommitted.chat
        /\ (~defaulted => files.settings = settingsCommitted.settings)
    BY DEF SettingsInv, Setting!NoUpdateIsLost
  <2>1. f = "chat" => settingsCommitted[f] = writer[w].read
    BY <1>1, <1>2, <2>0
  <2>2. f = "settings" /\ ~defaulted => settingsCommitted[f] = writer[w].read
    BY <1>1, <1>2, <2>0
  <2>3. f = "chat" => done = new
    BY <2>1
  <2>4. f = "settings" /\ ~defaulted => done = new
    BY <2>2
  <2> HIDE DEF done
  <2> QED
    BY <1>2, <1>4, <1>5, <2>0, <2>3, <2>4 DEF Setting!NoUpdateIsLost
<1>9. ChecksKept'
  <2> SUFFICES ASSUME ~defaulted PROVE /\ \A a \in checks' : a[1] \in 1..files'.settings.checked
                                       /\ Setting!ChecksAreSpaced'
    BY DEF ChecksKept
  <2>1. /\ \A a \in checks : a[1] \in 1..files.settings.checked
        /\ \A a, b \in checks : a # b => a[1] - b[1] >= Interval \/ b[1] - a[1] >= Interval
    BY DEF SettingsInv, ChecksKept, Setting!ChecksAreSpaced
  <2>2. f = "chat" => change.op # "claim"
    BY <1>2 DEF Setting!ChatChanges
  <2>3. CASE change.op # "claim"
    <3>1. checks' = checks /\ files'.settings.checked = files.settings.checked
      BY <1>2, <1>4, <1>6, <2>3
    <3> QED
      BY <2>1, <3>1 DEF Setting!ChecksAreSpaced
  <2>4. CASE change.op = "claim"
    <3> DEFINE c == <<change.now, Setting!Cardinality(checks)>>
    <3>1. checks' = checks \cup {c} /\ c[1] = change.now
      BY <2>4
    <3>2. /\ files'.settings.checked = change.now /\ change.now \in 1..MaxClock
          /\ Setting!Due(change.now, files.settings.checked)
      BY <1>2, <1>4, <1>6, <2>2, <2>4
    <3>3. files.settings.checked \in 0..MaxClock
      BY <1>1 DEF SettingsFiles
    <3> HIDE DEF c
    <3>4. ASSUME NEW a \in checks
          PROVE  a[1] \in 1..change.now /\ change.now - a[1] >= Interval
      BY <2>1, <3>2, <3>3, SettingsFinite DEF Setting!Due
    <3>5. \A a \in checks' : a[1] \in 1..files'.settings.checked
      BY <3>1, <3>2, <3>4, SettingsFinite
    <3>6. Setting!ChecksAreSpaced'
      <4> SUFFICES ASSUME NEW a \in checks', NEW b \in checks', a # b
                   PROVE  a[1] - b[1] >= Interval \/ b[1] - a[1] >= Interval
        BY DEF Setting!ChecksAreSpaced
      <4> QED
        BY <2>1, <3>1, <3>4
    <3> QED
      BY <3>5, <3>6
  <2> QED
    BY <2>3, <2>4
<1>10. Setting!CleanupIsCommitted' /\ retained \subseteq retained'
  BY DEF SettingsInv, Setting!CleanupIsCommitted
<1>11. ASSUME NEW v \in Writers PROVE WriterKept(v)'
  <2>1. CASE v = w
    <3>1. CASE change.op = "user"
      <4>1. writer'[w] = [at |-> "retain", change |-> change, file |-> f,
                          read |-> writer[w].read]
        <5>1. [writer[w] EXCEPT !.at = "retain"]
                  = [at |-> "retain", change |-> change, file |-> f, read |-> writer[w].read]
          BY <1>2
        <5>2. writer'[w] = [writer[w] EXCEPT !.at = "retain"]
          BY <1>1, <3>1
        <5> QED
          BY <5>1, <5>2
      <4>2. change.retention \in retained'
        BY <3>1
      <4> QED
        BY <1>2, <2>1, <3>1, <4>1, <4>2 DEF WriterKept
    <3>2. CASE change.op # "user"
      <4>1. writer'[w] = Setting!IdleWriter
        BY <1>1, <3>2
      <4> QED
        BY <2>1, <4>1 DEF WriterKept, Setting!IdleWriter
    <3> QED
      BY <3>1, <3>2
  <2>2. CASE v # w
    <3>1. writer'[v] = writer[v] /\ WriterKept(v)
      BY <1>1, <2>2
    <3>2. writer[v].at = "write" =>
              fileLock[writer[v].file] = v /\ writer[v].file \in {"settings", "chat"}
      BY <3>1 DEF WriterKept
    <3>3. writer[v].at = "write" => fileLock'[writer[v].file] = v /\ writer[v].file # f
      BY <1>1, <1>2, <2>2, <3>2
    <3> QED
      BY <1>2, <1>4, <1>10, <3>1, <3>3 DEF WriterKept
  <2> QED
    BY <2>1, <2>2
<1> QED
  BY <1>7, <1>8, <1>9, <1>10, <1>11 DEF SettingsInv

LEMMA WriteFileKeeps ==
    ASSUME SettingsInv, NEW w \in Writers, Setting!WriteFile(w)
    PROVE  SettingsInv'
<1> DEFINE f == writer[w].file
           change == writer[w].change
           new == Setting!Changed(change, writer[w].read)
<1>1. /\ UNCHANGED <<clock, cleaned, defaulted>> /\ writer[w].at = "write"
      /\ fileLock' = [fileLock EXCEPT ![f] = Setting!NoWriter]
  BY DEF Setting!WriteFile
<1>2. CASE /\ Setting!Writes(change, writer[w].read)
           /\ files' = [files EXCEPT ![f] = new]
           /\ settingsCommitted' =
                  [settingsCommitted EXCEPT
                       ![f] = Setting!Changed(change, settingsCommitted[f])]
           /\ retained' = IF change.op = "user" THEN retained \cup {change.retention}
                          ELSE retained
           /\ checks' = IF change.op = "claim"
                        THEN checks \cup {<<change.now, Setting!Cardinality(checks)>>}
                        ELSE checks
           /\ writer' = [writer EXCEPT ![w] =
                              IF change.op = "user" THEN [@ EXCEPT !.at = "retain"]
                              ELSE Setting!IdleWriter]
  <2>1. f = writer[w].file /\ change = writer[w].change
        /\ new = Setting!Changed(change, writer[w].read)
    OBVIOUS
  <2>2. Setting!Writes(writer[w].change, writer[w].read)
    BY <1>2
  <2> HIDE DEF f, change, new
  <2> QED
    BY <1>1, <1>2, <2>1, <2>2, WriteSucceeds
<1>3. CASE /\ writer' = [writer EXCEPT ![w] = Setting!IdleWriter]
           /\ UNCHANGED <<files, settingsCommitted, retained, checks>>
  BY <1>3, WriteFails
<1> QED
  BY <1>2, <1>3 DEF Setting!WriteFile

LEMMA SettingsRests ==
    ASSUME SettingsInv, UNCHANGED Setting!settingsVars
    PROVE  SettingsInv'
<1>1. UNCHANGED <<files, fileLock, writer, clock, settingsCommitted, retained, cleaned,
                  checks, defaulted>>
  BY DEF Setting!settingsVars
<1>2. SettingsTypes'
  BY <1>1 DEF SettingsInv, SettingsTypes
<1>3. \A w \in Writers : WriterKept(w)'
  BY <1>1 DEF SettingsInv, WriterKept
<1> QED
  BY <1>1, <1>2, <1>3 DEF SettingsInv, Setting!NoUpdateIsLost, ChecksKept,
     Setting!ChecksAreSpaced, Setting!CleanupIsCommitted

LEMMA SettingsKeeps ==
    ASSUME SettingsInv, Setting!SettingsNext
    PROVE  SettingsInv'
BY TickKeeps, BeginWriteKeeps, ReadFileKeeps, WriteFileKeeps, ApplyRetentionKeeps
DEF Setting!SettingsNext

LEMMA SettingsAreSound ==
    ASSUME SettingsInv
    PROVE  Setting!SettingsTypeOK /\ Setting!SettingsHold
<1>1. Setting!SettingsTypeOK
  <2>1. Setting!Cardinality({n \in Notices : files.settings.notices[n] # "unknown"})
            <= MaxNotices
    <3>1. Cardinality({n \in Notices : files.settings.notices[n] # "unknown"})
              <= MaxNotices
      BY DEF SettingsInv, SettingsTypes, FewNotices
    <3> QED
      BY <3>1, NoticesCount
  <2>2. files.settings.retention \in {"short", "long"} /\ clock \in 1..MaxClock
    BY DEF SettingsInv, SettingsTypes, SettingsFiles
  <2>3. \A w \in Writers : writer[w].at \in {"idle", "lock", "write", "retain"}
    BY DEF SettingsInv, WriterKept
  <2>4. \A f \in {"settings", "chat"} : fileLock[f] \in Writers \cup {Setting!NoWriter}
    BY DEF SettingsInv, SettingsTypes
  <2> QED
    BY <2>1, <2>2, <2>3, <2>4 DEF Setting!SettingsTypeOK
<1>2. Setting!NoUpdateIsLost /\ Setting!CleanupIsCommitted
  BY DEF SettingsInv
<1>3. Setting!ChecksAreSpaced
  BY DEF SettingsInv, ChecksKept, Setting!ChecksAreSpaced
<1>4. Setting!AuthorityIsComplete
  <2> SUFFICES ASSUME NEW f \in Setting!SessionFiles
               PROVE  /\ Setting!Loaded(f) = "context" => f.complete /\ Setting!Savable(f)
                      /\ f.present /\ f.beta => Setting!Loaded(f) \in {"none", "error"}
    BY DEF Setting!AuthorityIsComplete
  <2>1. f.version \in 0..4
    BY DEF Setting!SessionFiles
  <2>2. CASE f.version \in {0, 1}
    BY <2>2 DEF Setting!Loaded
  <2>3. CASE f.version = 2
    BY <2>3 DEF Setting!Loaded
  <2>4. CASE f.version = 3
    BY <2>4 DEF Setting!Loaded, Setting!Savable
  <2>5. CASE f.version = 4
    BY <2>5 DEF Setting!Loaded
  <2> QED
    BY <2>1, <2>2, <2>3, <2>4, <2>5
<1> QED
  BY <1>1, <1>2, <1>3, <1>4 DEF Setting!SettingsHold


-----------------------------------------------------------------------------
(* ConfigMigration. *)

MigrationRuns == {"apply", "apply_sdk", "verify", "undo_sdk", "undo_files", "remove"}
MigrationTypes ==
    /\ legacyFiles \in [computers : {"here", "archived"}, targets : {"none", "here", "archived"},
                        session : BOOLEAN]
    /\ homes \in [Legacy -> Migration!Homes] /\ targetsFile \in Migration!Content
    /\ marker \in {"none", "incomplete", "complete"} /\ starts \in 0..MaxMigrations
    /\ migration.at \in MigrationRuns \cup {"stopped", "archive"}
    /\ migration.failed \in BOOLEAN
    /\ migration = [at |-> migration.at, todo |-> migration.todo, tried |-> migration.tried,
                    before |-> migration.before, failed |-> migration.failed]

\* Without a marker the legacy files are all there; with one the destinations are whole.
MarkerKept ==
    /\ marker = "none" => legacyFiles.computers = "here" /\ legacyFiles.targets # "archived"
    /\ marker # "none" =>
           /\ migration.at \in {"stopped", "archive"}
           /\ \A c \in Legacy : homes[c].profile = "legacy" /\ homes[c].sdk = "legacy"
           /\ legacyFiles.targets # "none" => targetsFile = "legacy"
    /\ migration.at = "archive" => marker = "incomplete"

\* What a run found, and what it leaves to do and to undo at each of its steps.
FoundHomes == [Legacy -> [profile : {"none", "legacy"}, sdk : {"none", "legacy"}]]
FoundSdk(c) == homes[c].sdk = migration.before.homes[c].sdk
FoundProfile(c) == homes[c].profile = migration.before.homes[c].profile
EmptyDirectory(c) ==
    migration.before.homes[c].profile = "none" /\ homes[c].profile = "unreadable"
PlanKept ==
    /\ migration.at \in MigrationRuns =>
           migration.before \in [homes : FoundHomes, targets : Migration!Content]
    /\ migration.at \in {"apply", "apply_sdk", "verify"} => ~migration.failed
    /\ migration.at \in {"stopped", "archive"} => migration.todo \subseteq Migration!SdkConfigs
    /\ migration.at = "apply" =>
           /\ migration.todo \subseteq Migration!Files /\ migration.tried = {}
           /\ \A c \in Legacy : FoundSdk(c)
    /\ migration.at \in {"apply_sdk", "verify"} =>
           /\ migration.todo \cup migration.tried \subseteq Migration!SdkConfigs
           /\ \A c \in Legacy : <<"sdk", c>> \in migration.tried \/ FoundSdk(c)
    /\ migration.at = "undo_sdk" =>
           /\ migration.todo \subseteq Migration!SdkConfigs
           /\ ~migration.failed =>
                  \A c \in Legacy : <<"sdk", c>> \in migration.todo \/ FoundSdk(c)
    /\ migration.at = "undo_files" =>
           /\ migration.todo \subseteq Migration!Files
           /\ ~migration.failed =>
                  /\ <<"targets">> \in migration.todo \/ targetsFile = migration.before.targets
                  /\ \A c \in Legacy :
                         /\ FoundSdk(c)
                         /\ <<"profile", c>> \in migration.todo \/ FoundProfile(c)
                                \/ EmptyDirectory(c)
    /\ migration.at = "remove" =>
           /\ migration.todo \subseteq {<<"profile", c>> : c \in
                  {d \in Legacy : migration.before.homes[d].profile = "none"}}
           /\ ~migration.failed =>
                  /\ targetsFile = migration.before.targets
                  /\ \A c \in Legacy : /\ FoundSdk(c)
                                       /\ <<"profile", c>> \in migration.todo \/ FoundProfile(c)

\* A directory without a readable profile is left by an unfinished rollback only, and a
\* conflict that was reported is still there.
ConflictsKept ==
    /\ Migration!Undiscovered => cutShort \/ migration.at \in {"undo_files", "remove"}
    /\ ended = "conflict" => migration.at = "stopped" /\ marker = "none" /\ Migration!Conflicts

MigrationInv == MigrationTypes /\ MarkerKept /\ PlanKept /\ ConflictsKept

\* The files a run writes, and what writing one changes.
LEMMA FilesAre ==
    /\ \A f \in Migration!Files :
           f = <<"targets">> \/ \E c \in Legacy : f = <<"profile", c>>
    /\ \A f \in Migration!SdkConfigs : \E c \in Legacy : f = <<"sdk", c>>
BY DEF Migration!Files, Migration!SdkConfigs

LEMMA WritesProfile ==
    ASSUME NEW c \in Legacy, NEW v \in Migration!Content \cup {"unreadable"},
           homes \in [Legacy -> Migration!Homes]
    PROVE  LET new == Migration!HomesWith(<<"profile", c>>, v) IN
           /\ new \in [Legacy -> Migration!Homes]
           /\ new[c].profile = v
           /\ \A d \in Legacy : new[d].sdk = homes[d].sdk
           /\ \A d \in Legacy \ {c} : new[d].profile = homes[d].profile
           /\ Migration!TargetsWith(<<"profile", c>>, v) = targetsFile
<1> DEFINE new == Migration!HomesWith(<<"profile", c>>, v)
           rec == [homes[c] EXCEPT !.profile = v]
<1>1. new = [homes EXCEPT ![c] = rec]
  BY DEF Migration!HomesWith
<1>2. rec \in Migration!Homes /\ rec.profile = v /\ rec.sdk = homes[c].sdk
  BY DEF Migration!Homes
<1>3. Migration!TargetsWith(<<"profile", c>>, v) = targetsFile
  BY DEF Migration!TargetsWith
<1> HIDE DEF new, rec
<1> QED
  <2>1. new \in [Legacy -> Migration!Homes] /\ new[c] = rec
    BY <1>1, <1>2
  <2>2. \A d \in Legacy \ {c} : new[d] = homes[d]
    BY <1>1
  <2> QED
    BY <2>1, <2>2, <1>2, <1>3 DEF new

LEMMA WritesSdk ==
    ASSUME NEW c \in Legacy, NEW v \in Migration!Content,
           homes \in [Legacy -> Migration!Homes]
    PROVE  LET new == Migration!HomesWith(<<"sdk", c>>, v) IN
           /\ new \in [Legacy -> Migration!Homes]
           /\ new[c].sdk = v
           /\ \A d \in Legacy : new[d].profile = homes[d].profile
           /\ \A d \in Legacy \ {c} : new[d].sdk = homes[d].sdk
<1> DEFINE new == Migration!HomesWith(<<"sdk", c>>, v)
           rec == [homes[c] EXCEPT !.sdk = v]
<1>1. new = [homes EXCEPT ![c] = rec]
  BY DEF Migration!HomesWith
<1>2. rec \in Migration!Homes /\ rec.sdk = v /\ rec.profile = homes[c].profile
  BY DEF Migration!Homes
<1> HIDE DEF new, rec
<1> QED
  <2>1. new \in [Legacy -> Migration!Homes] /\ new[c] = rec
    BY <1>1, <1>2
  <2>2. \A d \in Legacy \ {c} : new[d] = homes[d]
    BY <1>1
  <2> QED
    BY <2>1, <2>2, <1>2 DEF new

LEMMA WritesTargets ==
    ASSUME NEW v
    PROVE  /\ Migration!HomesWith(<<"targets">>, v) = homes
           /\ Migration!TargetsWith(<<"targets">>, v) = v
BY DEF Migration!HomesWith, Migration!TargetsWith

\* A step of a run: where it is and what is left to do.
LEMMA RunAt ==
    ASSUME MigrationTypes, NEW p \in MigrationRuns, NEW S, NEW r,
           r = [migration EXCEPT !.at = p, !.todo = S]
    PROVE  /\ r.at = p /\ r.todo = S /\ r.tried = migration.tried
           /\ r.before = migration.before /\ r.failed = migration.failed
           /\ r = [at |-> r.at, todo |-> r.todo, tried |-> r.tried, before |-> r.before,
                   failed |-> r.failed]
<1>1. r = [at |-> p, todo |-> S, tried |-> migration.tried, before |-> migration.before,
           failed |-> migration.failed]
  BY DEF MigrationTypes
<1> QED
  BY <1>1

LEMMA RunLeaves ==
    ASSUME MigrationTypes, NEW S, NEW r, NEW b \in BOOLEAN,
           r = [migration EXCEPT !.todo = S, !.failed = b]
               \/ (r = [migration EXCEPT !.todo = S] /\ b = migration.failed)
    PROVE  /\ r.at = migration.at /\ r.todo = S /\ r.tried = migration.tried
           /\ r.before = migration.before /\ r.failed = b
           /\ r = [at |-> r.at, todo |-> r.todo, tried |-> r.tried, before |-> r.before,
                   failed |-> r.failed]
<1>1. r = [at |-> migration.at, todo |-> S, tried |-> migration.tried,
           before |-> migration.before, failed |-> b]
  BY DEF MigrationTypes
<1> QED
  BY <1>1

LEMMA MigrationStarts ==
    ASSUME Migration!MigrationInit
    PROVE  MigrationInv
<1> USE DEF Migration!MigrationInit, Migration!NoRun
<1>1. \A c \in Legacy : homes[c] \in Migration!Homes /\ homes[c].profile # "unreadable"
  BY DEF Migration!Homes, Migration!Content
<1>2. homes \in [Legacy -> Migration!Homes]
  BY <1>1
<1>3. MigrationTypes
  BY <1>2, StoresAssumption
     DEF MigrationTypes, Migration!ConfigMigrationAssumption, Migration!Content
<1>4. MarkerKept /\ PlanKept
  BY DEF MarkerKept, PlanKept, MigrationRuns
<1>5. ConflictsKept
  BY <1>1 DEF ConflictsKept, Migration!Undiscovered
<1> QED
  BY <1>3, <1>4, <1>5 DEF MigrationInv

\* A run is over, or only the legacy files are left to archive.
LEMMA RunRests ==
    ASSUME MigrationInv, MarkerKept',
           legacyFiles' \in [computers : {"here", "archived"},
                             targets : {"none", "here", "archived"}, session : BOOLEAN],
           UNCHANGED <<homes, targetsFile>>,
           marker' \in {"none", "incomplete", "complete"}, starts' \in 0..MaxMigrations,
           NEW p \in {"stopped", "archive"}, migration'.at = p,
           migration'.todo \subseteq Migration!SdkConfigs,
           migration'.failed = FALSE,
           migration' = [at |-> p, todo |-> migration'.todo, tried |-> migration'.tried,
                         before |-> migration'.before, failed |-> migration'.failed],
           ConflictsKept'
    PROVE  MigrationInv'
<1>1. MigrationTypes'
  <2>1. migration'.failed \in BOOLEAN
    BY Zenon
  <2> QED
    BY <2>1 DEF MigrationInv, MigrationTypes, MigrationRuns
<1>2. PlanKept'
  BY DEF PlanKept, MigrationRuns
<1> QED
  BY <1>1, <1>2 DEF MigrationInv

LEMMA NoRunIs ==
    /\ Migration!NoRun = [at |-> "stopped", todo |-> {}, tried |-> {}, before |-> <<>>,
                          failed |-> FALSE]
    /\ [Migration!NoRun EXCEPT !.at = "archive"]
           = [at |-> "archive", todo |-> {}, tried |-> {}, before |-> <<>>, failed |-> FALSE]
<1>1. Migration!NoRun = [at |-> "stopped", todo |-> {}, tried |-> {}, before |-> <<>>,
                         failed |-> FALSE]
  BY Zenon DEF Migration!NoRun
<1>2. PICK n, t, b, f : n = Migration!NoRun /\ t = {} /\ b = <<>> /\ f = FALSE
  BY Zenon
<1>3. n = [at |-> "stopped", todo |-> t, tried |-> t, before |-> b, failed |-> f]
  BY <1>1, <1>2, Zenon
<1>4. [n EXCEPT !.at = "archive"]
          = [at |-> "archive", todo |-> t, tried |-> t, before |-> b, failed |-> f]
  BY <1>3
<1> QED
  BY <1>1, <1>2, <1>4, Zenon

LEMMA StartMigrationKeeps ==
    ASSUME MigrationInv, Migration!StartMigration
    PROVE  MigrationInv'
<1>1. /\ UNCHANGED <<legacyFiles, homes, targetsFile, marker, cutShort>>
      /\ migration.at = "stopped" /\ starts' \in 0..MaxMigrations
  BY StoresAssumption DEF Migration!StartMigration, Migration!At, MigrationInv,
     MigrationTypes, Migration!ConfigMigrationAssumption
<1>2. \/ migration' = Migration!NoRun /\ ended' = "completed"
      \/ /\ migration' = [Migration!NoRun EXCEPT !.at = "archive"] /\ UNCHANGED ended
         /\ marker = "incomplete"
      \/ /\ migration' = Migration!NoRun /\ ended' = "conflict" /\ Migration!Conflicts
         /\ marker # "complete" /\ marker # "incomplete"
      \/ /\ ~Migration!Conflicts /\ UNCHANGED ended
         /\ marker # "complete" /\ marker # "incomplete"
         /\ migration' = [at |-> "apply",
                todo |-> {f \in Migration!Files : Migration!Planned(f)}, tried |-> {},
                failed |-> FALSE, before |-> [homes |-> homes, targets |-> targetsFile]]
  BY DEF Migration!StartMigration, Migration!EndAs
<1>3. Migration!Undiscovered' = Migration!Undiscovered
      /\ Migration!Conflicts' = Migration!Conflicts
  BY <1>1 DEF Migration!Undiscovered, Migration!Conflicts, Migration!LegacyTargets
<1>4. ended = "conflict" => Migration!Conflicts /\ marker = "none"
  BY DEF MigrationInv, ConflictsKept
<1>5. CASE migration' = Migration!NoRun
  <2>1. ended' = "conflict" => Migration!Conflicts /\ marker = "none"
    BY <1>2, <1>5, NoRunIs DEF MigrationInv, MigrationTypes
  <2>2. MarkerKept' /\ ConflictsKept'
    BY <1>1, <1>3, <1>5, <2>1, NoRunIs DEF MarkerKept, ConflictsKept, MigrationInv
  <2> QED
    BY <1>1, <1>5, <2>2, NoRunIs, RunRests DEF MigrationInv, MigrationTypes
<1>6. CASE migration' = [Migration!NoRun EXCEPT !.at = "archive"] /\ UNCHANGED ended
           /\ marker = "incomplete"
  <2>1. MarkerKept' /\ ConflictsKept'
    BY <1>1, <1>3, <1>4, <1>6, NoRunIs DEF MarkerKept, ConflictsKept, MigrationInv
  <2> QED
    BY <1>1, <1>6, <2>1, NoRunIs, RunRests DEF MigrationInv, MigrationTypes
<1>7. CASE /\ ~Migration!Conflicts /\ UNCHANGED ended
           /\ marker # "complete" /\ marker # "incomplete"
           /\ migration' = [at |-> "apply",
                todo |-> {f \in Migration!Files : Migration!Planned(f)}, tried |-> {},
                failed |-> FALSE, before |-> [homes |-> homes, targets |-> targetsFile]]
  <2>1. marker = "none" /\ legacyFiles.computers = "here" /\ ended # "conflict"
    BY <1>4, <1>7 DEF MigrationInv, MigrationTypes, MarkerKept
  <2>2. migration'.before = [homes |-> homes, targets |-> targetsFile]
        /\ migration'.at = "apply" /\ migration'.tried = {} /\ migration'.failed = FALSE
        /\ migration'.todo \subseteq Migration!Files
        /\ migration' = [at |-> "apply", todo |-> migration'.todo,
                         tried |-> migration'.tried, before |-> migration'.before,
                         failed |-> migration'.failed]
    BY <1>7
  <2>3. migration'.before.homes = homes /\ migration'.before.targets = targetsFile
    BY <2>2
  <2>4. \A c \in Legacy : homes[c] \in [profile : {"none", "legacy"}, sdk : {"none", "legacy"}]
    BY <1>7, <2>1 DEF Migration!Conflicts, Migration!Undiscovered, MigrationInv,
       MigrationTypes, Migration!Homes, Migration!Content
  <2>5. homes \in FoundHomes
    BY <2>4 DEF FoundHomes, MigrationInv, MigrationTypes
  <2>6. migration'.before \in [homes : FoundHomes, targets : Migration!Content]
    BY <2>2, <2>5 DEF MigrationInv, MigrationTypes
  <2>7. MigrationTypes'
    <3>1. migration'.failed \in BOOLEAN
      BY <2>2, Zenon
    <3> QED
      BY <1>1, <2>2, <3>1 DEF MigrationInv, MigrationTypes, MigrationRuns
  <2>8. MarkerKept'
    BY <1>1, <2>1, <2>2 DEF MarkerKept, MigrationInv
  <2>9. PlanKept'
    BY <1>1, <2>2, <2>3, <2>6 DEF PlanKept, FoundSdk
  <2>10. ConflictsKept'
    BY <1>1, <1>3, <1>7, <2>1 DEF ConflictsKept, Migration!Conflicts
  <2> QED
    BY <2>7, <2>8, <2>9, <2>10 DEF MigrationInv
<1> QED
  BY <1>2, <1>5, <1>6, <1>7

LEMMA ArchiveKeeps ==
    ASSUME MigrationInv, Migration!Archive
    PROVE  MigrationInv'
<1>1. /\ UNCHANGED <<homes, targetsFile, marker, migration, ended, starts, cutShort>>
      /\ migration.at = "archive" /\ marker = "incomplete" /\ ended # "conflict"
      /\ migration.todo \subseteq Migration!SdkConfigs
  BY DEF Migration!Archive, Migration!At, MigrationInv, MarkerKept, ConflictsKept, PlanKept
<1>2. /\ legacyFiles' \in [computers : {"here", "archived"},
                           targets : {"none", "here", "archived"}, session : BOOLEAN]
      /\ legacyFiles'.targets # "none" => legacyFiles.targets # "none"
  <2>1. \/ legacyFiles' = [legacyFiles EXCEPT !.computers = "archived"]
        \/ legacyFiles.targets = "here"
               /\ legacyFiles' = [legacyFiles EXCEPT !.targets = "archived"]
        \/ legacyFiles' = [legacyFiles EXCEPT !.session = FALSE]
    BY DEF Migration!Archive
  <2> QED
    BY <2>1 DEF MigrationInv, MigrationTypes
<1>3. MarkerKept'
  BY <1>1, <1>2 DEF MigrationInv, MarkerKept
<1>4. ConflictsKept'
  BY <1>1 DEF MigrationInv, ConflictsKept, Migration!Undiscovered
<1>5. MigrationTypes'
  BY <1>1, <1>2 DEF MigrationInv, MigrationTypes
<1>6. PlanKept'
  BY <1>1 DEF PlanKept, MigrationRuns
<1> QED
  BY <1>3, <1>4, <1>5, <1>6 DEF MigrationInv

LEMMA ArchiveEndsKeeps ==
    ASSUME MigrationInv,
           Migration!ArchiveFails \/ Migration!CompleteMarker \/ Migration!StopApplication
    PROVE  MigrationInv'
<1>1. /\ UNCHANGED <<legacyFiles, homes, targetsFile, starts>>
      /\ migration' = Migration!NoRun /\ ended' # "conflict"
      /\ marker' = marker \/ (marker # "none" /\ marker' = "complete")
  BY DEF Migration!ArchiveFails, Migration!CompleteMarker, Migration!StopApplication,
     Migration!EndAs, Migration!At, MigrationInv, MarkerKept
<1>2. /\ cutShort => cutShort'
      /\ migration.at \in {"undo_files", "remove"} => cutShort'
  <2>1. \/ UNCHANGED cutShort /\ migration.at = "archive"
        \/ cutShort' = (cutShort \/ migration.at \in {"undo_sdk", "undo_files", "remove"})
    BY DEF Migration!ArchiveFails, Migration!CompleteMarker, Migration!StopApplication,
       Migration!At
  <2>2. CASE UNCHANGED cutShort /\ migration.at = "archive"
    BY <2>2
  <2>3. CASE cutShort' = (cutShort \/ migration.at \in {"undo_sdk", "undo_files", "remove"})
    BY <2>3, Zenon
  <2> QED
    BY <2>1, <2>2, <2>3
<1>3. MarkerKept'
  BY <1>1, NoRunIs DEF MigrationInv, MarkerKept
<1>4. ConflictsKept'
  BY <1>1, <1>2 DEF MigrationInv, ConflictsKept, Migration!Undiscovered
<1> QED
  BY <1>1, <1>3, <1>4, NoRunIs, RunRests DEF MigrationInv, MigrationTypes

\* A run goes on to its next step.
LEMMA RunGoesOn ==
    ASSUME MigrationInv, migration.at \in MigrationRuns, migration'.at \in MigrationRuns,
           UNCHANGED <<legacyFiles, marker, ended, starts>>,
           homes' \in [Legacy -> Migration!Homes], targetsFile' \in Migration!Content,
           migration'.failed \in BOOLEAN,
           migration' = [at |-> migration'.at, todo |-> migration'.todo,
                         tried |-> migration'.tried, before |-> migration'.before,
                         failed |-> migration'.failed],
           PlanKept',
           cutShort' \/ migration'.at \in {"undo_files", "remove"}
               \/ \A c \in Legacy : homes'[c].profile # "unreadable"
    PROVE  MigrationInv'
<1>1. MigrationTypes'
  BY DEF MigrationInv, MigrationTypes
<1>2. marker = "none" /\ ended # "conflict"
  BY DEF MigrationInv, MarkerKept, MigrationRuns, ConflictsKept
<1>3. MarkerKept'
  BY <1>2 DEF MigrationInv, MarkerKept, MigrationRuns
<1>4. ConflictsKept'
  BY <1>2 DEF ConflictsKept, Migration!Undiscovered
<1> QED
  BY <1>1, <1>3, <1>4 DEF MigrationInv

\* Up to the undoing of the files, a directory without a profile is an older one.
LEMMA RunIsReadable ==
    ASSUME MigrationInv, migration.at \in {"apply", "apply_sdk", "verify", "undo_sdk"}
    PROVE  cutShort \/ \A c \in Legacy : homes[c].profile # "unreadable"
BY DEF MigrationInv, ConflictsKept, Migration!Undiscovered

LEMMA FoundTypes ==
    ASSUME MigrationInv, migration.at \in MigrationRuns
    PROVE  /\ migration.before.targets \in Migration!Content
           /\ \A c \in Legacy :
                  /\ migration.before.homes[c].profile \in {"none", "legacy"}
                  /\ migration.before.homes[c].sdk \in {"none", "legacy"}
           /\ migration.before.homes \in FoundHomes
           /\ legacyFiles.computers = "here"
           /\ \A f : Migration!Planned(f)
<1>1. migration.before \in [homes : FoundHomes, targets : Migration!Content]
  BY DEF MigrationInv, PlanKept
<1>2. migration.before.homes \in FoundHomes /\ migration.before.targets \in Migration!Content
  BY <1>1
<1>3. legacyFiles.computers = "here"
  BY DEF MigrationInv, MarkerKept, MigrationRuns
<1> QED
  BY <1>2, <1>3 DEF FoundHomes, Migration!Planned

LEMMA ApplyFileKeeps ==
    ASSUME MigrationInv, Migration!ApplyFile
    PROVE  MigrationInv'
<1>1. /\ migration.at = "apply" /\ UNCHANGED <<legacyFiles, marker, ended, starts, cutShort>>
      /\ migration.todo \subseteq Migration!Files /\ migration.tried = {}
      /\ ~migration.failed /\ \A c \in Legacy : FoundSdk(c)
      /\ migration.before \in [homes : FoundHomes, targets : Migration!Content]
  BY DEF Migration!ApplyFile, Migration!At, MigrationInv, PlanKept, MigrationRuns
<1>2. PICK file \in migration.todo :
         \/ /\ homes' = Migration!HomesWith(file, Migration!PlannedContent(file))
            /\ targetsFile' = Migration!TargetsWith(file, Migration!PlannedContent(file))
            /\ migration' = IF migration.todo # {file}
                            THEN [migration EXCEPT !.todo = @ \ {file}]
                            ELSE [migration EXCEPT !.at = "apply_sdk",
                                  !.todo = {f \in Migration!SdkConfigs : Migration!Planned(f)}]
         \/ /\ migration' = Migration!RollBackTo({})
            /\ \/ UNCHANGED <<homes, targetsFile>>
               \/ /\ homes' = Migration!HomesWith(file, Migration!PlannedContent(file))
                  /\ targetsFile' = Migration!TargetsWith(file, Migration!PlannedContent(file))
  BY DEF Migration!ApplyFile
<1> DEFINE v == Migration!PlannedContent(file)
<1>3. v \in Migration!Content /\ (file[1] # "targets" => v = "legacy")
  BY DEF Migration!PlannedContent, MigrationInv, MigrationTypes, Migration!Content
<1>4. /\ homes' \in [Legacy -> Migration!Homes] /\ targetsFile' \in Migration!Content
      /\ \A c \in Legacy : homes'[c].sdk = homes[c].sdk
      /\ \A c \in Legacy : homes'[c].profile = homes[c].profile \/ homes'[c].profile = "legacy"
  <2>1. CASE UNCHANGED <<homes, targetsFile>>
    BY <2>1 DEF MigrationInv, MigrationTypes
  <2>2. CASE /\ homes' = Migration!HomesWith(file, v)
             /\ targetsFile' = Migration!TargetsWith(file, v)
    <3> HIDE DEF v
    <3>1. CASE file = <<"targets">>
      BY <1>3, <2>2, <3>1, WritesTargets DEF MigrationInv, MigrationTypes
    <3>2. CASE \E c \in Legacy : file = <<"profile", c>>
      <4>1. PICK c \in Legacy : file = <<"profile", c>>
        BY <3>2
      <4>2. v = "legacy" /\ v \in Migration!Content \cup {"unreadable"}
        BY <1>3, <4>1
      <4>3. homes' = Migration!HomesWith(<<"profile", c>>, v)
            /\ targetsFile' = Migration!TargetsWith(<<"profile", c>>, v)
        BY <2>2, <4>1
      <4>4. homes \in [Legacy -> Migration!Homes] /\ targetsFile \in Migration!Content
        BY DEF MigrationInv, MigrationTypes
      <4>5. /\ homes' \in [Legacy -> Migration!Homes] /\ targetsFile' = targetsFile
            /\ homes'[c].profile = v /\ \A d \in Legacy : homes'[d].sdk = homes[d].sdk
            /\ \A d \in Legacy \ {c} : homes'[d].profile = homes[d].profile
        BY <4>2, <4>3, <4>4, WritesProfile
      <4> QED
        BY <4>2, <4>4, <4>5
    <3> QED
      BY <1>1, <3>1, <3>2, FilesAre
  <2> QED
    BY <1>2, <2>1, <2>2
<1>5. cutShort' \/ \A c \in Legacy : homes'[c].profile # "unreadable"
  BY <1>1, <1>4, RunIsReadable
<1>6. /\ migration'.tried = {} /\ migration'.before = migration.before
      /\ migration'.failed = migration.failed
      /\ migration' = [at |-> migration'.at, todo |-> migration'.todo,
                         tried |-> migration'.tried, before |-> migration'.before,
                         failed |-> migration'.failed]
      /\ \/ migration'.at = "apply" /\ migration'.todo \subseteq migration.todo
         \/ migration'.at = "apply_sdk" /\ migration'.todo \subseteq Migration!SdkConfigs
         \/ migration'.at = "undo_sdk" /\ migration'.todo = {}
  <2>1. CASE migration' = [migration EXCEPT !.todo = @ \ {file}]
    BY <1>1, <2>1 DEF MigrationInv, MigrationTypes
  <2>2. CASE migration' = [migration EXCEPT !.at = "apply_sdk",
                              !.todo = {f \in Migration!SdkConfigs : Migration!Planned(f)}]
    <3>1. migration' = [at |-> "apply_sdk",
                        todo |-> {f \in Migration!SdkConfigs : Migration!Planned(f)},
                        tried |-> migration.tried, before |-> migration.before,
                        failed |-> migration.failed]
      BY <2>2 DEF MigrationInv, MigrationTypes
    <3> QED
      BY <1>1, <3>1
  <2>3. CASE migration' = [migration EXCEPT !.at = "undo_sdk", !.todo = {}]
    <3>1. migration' = [at |-> "undo_sdk", todo |-> {},
                        tried |-> migration.tried, before |-> migration.before,
                        failed |-> migration.failed]
      BY <2>3 DEF MigrationInv, MigrationTypes
    <3> QED
      BY <1>1, <3>1
  <2> QED
    BY <1>2, <2>1, <2>2, <2>3 DEF Migration!RollBackTo
<1>7. PlanKept'
  BY <1>1, <1>4, <1>6 DEF PlanKept, FoundSdk, MigrationRuns
<1>8. migration.at \in MigrationRuns /\ migration'.at \in MigrationRuns
      /\ migration'.failed \in BOOLEAN
  BY <1>1, <1>6 DEF MigrationRuns, MigrationInv, MigrationTypes
<1> QED
  BY <1>1, <1>4, <1>5, <1>6, <1>7, <1>8, RunGoesOn

LEMMA ApplySdkKeeps ==
    ASSUME MigrationInv, Migration!ApplySdk
    PROVE  MigrationInv'
<1>1. /\ migration.at = "apply_sdk"
      /\ UNCHANGED <<legacyFiles, targetsFile, marker, ended, starts, cutShort>>
      /\ migration.todo \cup migration.tried \subseteq Migration!SdkConfigs
      /\ ~migration.failed
      /\ \A c \in Legacy : <<"sdk", c>> \in migration.tried \/ FoundSdk(c)
      /\ migration.before \in [homes : FoundHomes, targets : Migration!Content]
  BY DEF Migration!ApplySdk, Migration!At, MigrationInv, PlanKept, MigrationRuns
<1> DEFINE Facts == /\ migration'.before = migration.before
                    /\ migration'.failed = migration.failed
                    /\ migration' = [at |-> migration'.at, todo |-> migration'.todo,
                         tried |-> migration'.tried, before |-> migration'.before,
                         failed |-> migration'.failed]
                    /\ homes' \in [Legacy -> Migration!Homes]
                    /\ \A c \in Legacy : homes'[c].profile = homes[c].profile
           Undone(S) == /\ S \subseteq Migration!SdkConfigs
                        /\ \A c \in Legacy : <<"sdk", c>> \in S
                               \/ homes'[c].sdk = migration.before.homes[c].sdk
           Goes == /\ migration'.at \in {"apply_sdk", "verify"}
                   /\ migration'.todo \subseteq Migration!SdkConfigs
                   /\ Undone(migration'.tried)
           Fails == migration'.at = "undo_sdk" /\ Undone(migration'.todo)
<1>2. ASSUME migration.todo = {} PROVE Facts /\ (Goes \/ Fails)
  <2>1. migration' = [migration EXCEPT !.at = "verify"] /\ UNCHANGED homes
    BY <1>2 DEF Migration!ApplySdk
  <2>2. Facts /\ migration'.at = "verify" /\ migration'.todo = {}
        /\ migration'.tried = migration.tried
    BY <1>2, <2>1 DEF MigrationInv, MigrationTypes
  <2> QED
    <3>1. Undone(migration'.tried)
      BY <1>1, <2>1, <2>2 DEF FoundSdk
    <3>2. Facts /\ Goes
      BY <2>2, <3>1
    <3> QED
      BY <3>2
<1>3. ASSUME migration.todo # {} PROVE Facts /\ (Goes \/ Fails)
  <2>1. PICK file \in migration.todo :
           \/ /\ homes' = Migration!HomesWith(file, "legacy")
              /\ migration' = [migration EXCEPT !.todo = @ \ {file}, !.tried = @ \cup {file}]
           \/ /\ homes' \in {homes, Migration!HomesWith(file, "legacy")}
              /\ migration' = Migration!RollBackTo(migration.tried \cup {file})
    BY <1>3 DEF Migration!ApplySdk
  <2>2. PICK c \in Legacy : file = <<"sdk", c>>
    BY <1>1, FilesAre
  <2>3. /\ homes' \in [Legacy -> Migration!Homes]
        /\ \A d \in Legacy : homes'[d].profile = homes[d].profile
        /\ \A d \in Legacy \ {c} : homes'[d].sdk = homes[d].sdk
    <3>1. homes \in [Legacy -> Migration!Homes] /\ "legacy" \in Migration!Content
      BY DEF MigrationInv, MigrationTypes, Migration!Content
    <3>2. homes' = homes \/ homes' = Migration!HomesWith(<<"sdk", c>>, "legacy")
      BY <2>1, <2>2
    <3> QED
      BY <3>1, <3>2, WritesSdk
  <2>4. Undone(migration.tried \cup {file})
    BY <1>1, <2>2, <2>3 DEF FoundSdk
  <2>5. CASE migration' = [migration EXCEPT !.todo = @ \ {file}, !.tried = @ \cup {file}]
    <3>1. migration' = [at |-> migration.at, todo |-> migration.todo \ {file},
                        tried |-> migration.tried \cup {file}, before |-> migration.before,
                        failed |-> migration.failed]
      BY <2>5 DEF MigrationInv, MigrationTypes
    <3> QED
      BY <1>1, <2>3, <2>4, <3>1
  <2>6. CASE migration' = [migration EXCEPT !.at = "undo_sdk",
                                            !.todo = migration.tried \cup {file}]
    <3>1. /\ Facts /\ migration'.at = "undo_sdk"
          /\ migration'.todo = migration.tried \cup {file}
      <4>1. migration' = [at |-> "undo_sdk", todo |-> migration.tried \cup {file},
                          tried |-> migration.tried, before |-> migration.before,
                          failed |-> migration.failed]
        BY <2>6 DEF MigrationInv, MigrationTypes
      <4> QED
        BY <2>3, <4>1
    <3>2. Fails
      BY <2>4, <3>1
    <3> QED
      BY <3>1, <3>2
  <2> QED
    BY <2>1, <2>5, <2>6 DEF Migration!RollBackTo
<1>4. Facts /\ (Goes \/ Fails)
  BY <1>2, <1>3
<1>5. PlanKept'
  BY <1>1, <1>4 DEF PlanKept, FoundSdk, MigrationRuns
<1>6. cutShort' \/ \A c \in Legacy : homes'[c].profile # "unreadable"
  BY <1>1, <1>4, RunIsReadable
<1>7. migration.at \in MigrationRuns /\ migration'.at \in MigrationRuns
      /\ migration'.failed \in BOOLEAN /\ targetsFile' \in Migration!Content
  BY <1>1, <1>4 DEF MigrationRuns, MigrationInv, MigrationTypes
<1> QED
  BY <1>1, <1>4, <1>5, <1>6, <1>7, RunGoesOn

LEMMA VerifyPlanKeeps ==
    ASSUME MigrationInv, Migration!VerifyPlan
    PROVE  MigrationInv'
<1>1. /\ migration.at = "verify" /\ marker = "none" /\ ended # "conflict"
      /\ UNCHANGED <<legacyFiles, homes, targetsFile, ended, starts, cutShort>>
      /\ migration.todo \cup migration.tried \subseteq Migration!SdkConfigs
      /\ ~migration.failed /\ legacyFiles.computers = "here"
      /\ \A c \in Legacy : <<"sdk", c>> \in migration.tried \/ FoundSdk(c)
      /\ migration.before \in [homes : FoundHomes, targets : Migration!Content]
  BY DEF Migration!VerifyPlan, Migration!At, MigrationInv, PlanKept, MigrationRuns,
     MarkerKept, ConflictsKept
<1>2. CASE /\ Migration!Verified /\ marker' = "incomplete"
           /\ migration' = [migration EXCEPT !.at = "archive"]
  <2>1. /\ migration'.at = "archive" /\ migration'.todo = migration.todo
        /\ migration'.failed = FALSE
        /\ migration' = [at |-> "archive", todo |-> migration'.todo,
                         tried |-> migration'.tried, before |-> migration'.before,
                         failed |-> migration'.failed]
    BY <1>1, <1>2 DEF MigrationInv, MigrationTypes
  <2>2. MarkerKept'
    BY <1>1, <1>2, <2>1 DEF MarkerKept, Migration!Verified, Migration!LegacyTargets,
       MigrationInv, MigrationTypes
  <2>3. ConflictsKept'
    BY <1>1, <2>1 DEF MigrationInv, ConflictsKept, Migration!Undiscovered
  <2>4. MigrationTypes'
    <3>1. migration'.failed \in BOOLEAN
      BY <2>1, Zenon
    <3> QED
      BY <1>1, <1>2, <2>1, <3>1 DEF MigrationInv, MigrationTypes
  <2>5. migration'.todo \subseteq Migration!SdkConfigs
    BY <1>1, <2>1
  <2>6. PlanKept'
    BY <2>1, <2>5 DEF PlanKept, MigrationRuns
  <2> QED
    BY <2>2, <2>3, <2>4, <2>6 DEF MigrationInv
<1>3. CASE migration' = Migration!RollBackTo(migration.tried) /\ UNCHANGED marker
  <2>1. migration' = [at |-> "undo_sdk", todo |-> migration.tried,
                      tried |-> migration.tried, before |-> migration.before,
                      failed |-> migration.failed]
    BY <1>3 DEF MigrationInv, MigrationTypes, Migration!RollBackTo
  <2>2. PlanKept'
    BY <1>1, <2>1 DEF PlanKept, FoundSdk, MigrationRuns
  <2>3. cutShort' \/ \A c \in Legacy : homes'[c].profile # "unreadable"
    BY <1>1, RunIsReadable
  <2>4. migration.at \in MigrationRuns /\ migration'.at \in MigrationRuns
        /\ migration'.failed \in BOOLEAN
        /\ homes' \in [Legacy -> Migration!Homes] /\ targetsFile' \in Migration!Content
    BY <1>1, <2>1 DEF MigrationRuns, MigrationInv, MigrationTypes
  <2>5. migration' = [at |-> migration'.at, todo |-> migration'.todo,
                      tried |-> migration'.tried, before |-> migration'.before,
                      failed |-> migration'.failed]
    BY <2>1
  <2> QED
    BY <1>1, <1>3, <2>2, <2>3, <2>4, <2>5, RunGoesOn
<1> QED
  BY <1>2, <1>3 DEF Migration!VerifyPlan

\* A step of a rollback: an undo that succeeds or fails leaves one file fewer to undo.
LEMMA UndoLeaves ==
    ASSUME MigrationInv, NEW file, NEW bad \in BOOLEAN,
           \/ ~bad /\ migration' = [migration EXCEPT !.todo = @ \ {file}]
           \/ bad /\ migration' = [migration EXCEPT !.todo = @ \ {file}, !.failed = TRUE]
    PROVE  /\ migration'.at = migration.at /\ migration'.todo = migration.todo \ {file}
           /\ migration'.before = migration.before
           /\ migration'.failed = (migration.failed \/ bad)
           /\ migration'.failed \in BOOLEAN
           /\ migration' = [at |-> migration'.at, todo |-> migration'.todo,
                         tried |-> migration'.tried, before |-> migration'.before,
                         failed |-> migration'.failed]
<1>0. migration.failed \in BOOLEAN
  BY DEF MigrationInv, MigrationTypes
<1>1. CASE ~bad /\ migration' = [migration EXCEPT !.todo = @ \ {file}]
  <2>1. migration' = [at |-> migration.at, todo |-> migration.todo \ {file},
                      tried |-> migration.tried, before |-> migration.before,
                      failed |-> migration.failed]
    BY <1>1 DEF MigrationInv, MigrationTypes
  <2> QED
    BY <1>0, <1>1, <2>1
<1>2. CASE bad /\ migration' = [migration EXCEPT !.todo = @ \ {file}, !.failed = TRUE]
  <2>1. migration' = [at |-> migration.at, todo |-> migration.todo \ {file},
                      tried |-> migration.tried, before |-> migration.before,
                      failed |-> TRUE]
    BY <1>2 DEF MigrationInv, MigrationTypes
  <2>2. migration'.failed = TRUE /\ TRUE \in BOOLEAN
    BY <2>1
  <2>3. migration'.failed \in BOOLEAN
    BY <2>2, Zenon
  <2>4. migration'.failed = (migration.failed \/ bad)
    BY <1>2, <2>2, Zenon
  <2> QED
    BY <2>1, <2>3, <2>4
<1> QED
  BY <1>1, <1>2

LEMMA UndoSdkKeeps ==
    ASSUME MigrationInv, Migration!UndoSdk
    PROVE  MigrationInv'
<1>1. /\ migration.at = "undo_sdk"
      /\ UNCHANGED <<legacyFiles, targetsFile, marker, ended, starts, cutShort>>
      /\ migration.todo \subseteq Migration!SdkConfigs
      /\ ~migration.failed =>
             \A c \in Legacy : <<"sdk", c>> \in migration.todo \/ FoundSdk(c)
      /\ migration.before \in [homes : FoundHomes, targets : Migration!Content]
      /\ migration.at \in MigrationRuns
  BY DEF Migration!UndoSdk, Migration!At, MigrationInv, PlanKept, MigrationRuns
<1>2. homes \in [Legacy -> Migration!Homes] /\ targetsFile' \in Migration!Content
      /\ migration.failed \in BOOLEAN
  BY <1>1 DEF MigrationInv, MigrationTypes
<1>3. cutShort \/ \A c \in Legacy : homes[c].profile # "unreadable"
  BY <1>1, RunIsReadable
<1>4. CASE migration.todo = {}
  <2>1. /\ migration' = [migration EXCEPT !.at = "undo_files",
                             !.todo = {f \in Migration!Files : Migration!Planned(f)}]
        /\ UNCHANGED homes
    BY <1>4 DEF Migration!UndoSdk
  <2>2. migration' = [at |-> "undo_files", todo |-> Migration!Files,
                      tried |-> migration.tried, before |-> migration.before,
                      failed |-> migration.failed]
    <3>1. {f \in Migration!Files : Migration!Planned(f)} = Migration!Files
      BY <1>1, FoundTypes
    <3> QED
      BY <2>1, <3>1 DEF MigrationInv, MigrationTypes
  <2>3. PlanKept'
    <3>1. <<"targets">> \in Migration!Files
          /\ \A c \in Legacy : <<"profile", c>> \in Migration!Files
      BY DEF Migration!Files
    <3> QED
      <4>1. /\ migration'.at = "undo_files" /\ migration'.todo = Migration!Files
            /\ migration'.before = migration.before
        BY <2>2
      <4>2. ~migration'.failed => ~migration.failed
        BY <2>2
      <4>3. ~migration'.failed => \A c \in Legacy : FoundSdk(c)'
        BY <1>1, <1>4, <2>1, <4>1, <4>2 DEF FoundSdk
      <4> QED
        BY <1>1, <3>1, <4>1, <4>3 DEF PlanKept, MigrationRuns
  <2>4. migration'.at \in MigrationRuns /\ migration'.failed \in BOOLEAN
    BY <1>2, <2>2 DEF MigrationRuns
  <2>5. migration' = [at |-> migration'.at, todo |-> migration'.todo,
                      tried |-> migration'.tried, before |-> migration'.before,
                      failed |-> migration'.failed]
    BY <2>2
  <2> QED
    BY <1>1, <1>2, <1>3, <2>1, <2>3, <2>4, <2>5, RunGoesOn
<1>5. CASE migration.todo # {}
  <2>1. PICK file \in migration.todo, bad \in BOOLEAN :
           /\ \/ ~bad /\ migration' = [migration EXCEPT !.todo = @ \ {file}]
              \/ bad /\ migration' = [migration EXCEPT !.todo = @ \ {file}, !.failed = TRUE]
           /\ ~bad => homes' = Migration!HomesWith(file, Migration!Before(file))
           /\ bad => UNCHANGED homes
    BY <1>5 DEF Migration!UndoSdk
  <2>2. PICK c \in Legacy : file = <<"sdk", c>>
    BY <1>1, FilesAre
  <2>3. /\ Migration!Before(file) = migration.before.homes[c].sdk
        /\ migration.before.homes[c].sdk \in Migration!Content
    BY <1>1, <2>2, FoundTypes DEF Migration!Before, Migration!Content
  <2>4. /\ homes' \in [Legacy -> Migration!Homes]
        /\ \A d \in Legacy : homes'[d].profile = homes[d].profile
        /\ \A d \in Legacy \ {c} : homes'[d].sdk = homes[d].sdk
        /\ ~bad => homes'[c].sdk = migration.before.homes[c].sdk
    <3>1. bad \/ homes' = Migration!HomesWith(<<"sdk", c>>, migration.before.homes[c].sdk)
      BY <2>1, <2>2, <2>3
    <3> QED
      BY <1>2, <2>1, <2>3, <3>1, WritesSdk
  <2>5. /\ migration'.at = migration.at /\ migration'.todo = migration.todo \ {file}
        /\ migration'.before = migration.before
        /\ migration'.failed = (migration.failed \/ bad)
        /\ migration'.failed \in BOOLEAN
        /\ migration' = [at |-> migration'.at, todo |-> migration'.todo,
                         tried |-> migration'.tried, before |-> migration'.before,
                         failed |-> migration'.failed]
    BY <2>1, UndoLeaves
  <2>6. ~migration'.failed => ~migration.failed /\ ~bad
    BY <2>5, Zenon
  <2>7. ~migration'.failed =>
            \A d \in Legacy : <<"sdk", d>> \in migration'.todo
                                  \/ homes'[d].sdk = migration.before.homes[d].sdk
    BY <1>1, <2>2, <2>4, <2>5, <2>6 DEF FoundSdk
  <2>8. PlanKept'
    BY <1>1, <2>5, <2>7 DEF PlanKept, FoundSdk, MigrationRuns
  <2>9. cutShort' \/ \A d \in Legacy : homes'[d].profile # "unreadable"
    BY <1>1, <1>3, <2>4
  <2> QED
    BY <1>1, <1>2, <2>4, <2>5, <2>8, <2>9, RunGoesOn
<1> QED
  BY <1>4, <1>5

LEMMA UndoFileKeeps ==
    ASSUME MigrationInv, Migration!UndoFile
    PROVE  MigrationInv'
<1>1. /\ migration.at = "undo_files"
      /\ UNCHANGED <<legacyFiles, marker, ended, starts, cutShort>>
      /\ migration.todo \subseteq Migration!Files
      /\ ~migration.failed =>
             /\ <<"targets">> \in migration.todo \/ targetsFile = migration.before.targets
             /\ \A c \in Legacy :
                    /\ FoundSdk(c)
                    /\ <<"profile", c>> \in migration.todo \/ FoundProfile(c)
                           \/ EmptyDirectory(c)
      /\ migration.before \in [homes : FoundHomes, targets : Migration!Content]
      /\ migration.at \in MigrationRuns
  BY DEF Migration!UndoFile, Migration!At, MigrationInv, PlanKept, MigrationRuns
<1>2. homes \in [Legacy -> Migration!Homes] /\ targetsFile \in Migration!Content
      /\ migration.failed \in BOOLEAN
  BY DEF MigrationInv, MigrationTypes
<1>3. CASE migration.todo = {}
  <2> DEFINE made == {f \in Migration!Files : f[1] = "profile" /\ Migration!Planned(f)
                                              /\ Migration!Before(f) = "none"}
  <2>1. /\ migration' = [migration EXCEPT !.at = "remove", !.todo = made]
        /\ UNCHANGED <<homes, targetsFile>>
    BY <1>3 DEF Migration!UndoFile
  <2>2. made = {<<"profile", c>> : c \in
                    {d \in Legacy : migration.before.homes[d].profile = "none"}}
    BY <1>1, FoundTypes DEF Migration!Before, Migration!Files
  <2> HIDE DEF made
  <2>3. migration' = [at |-> "remove", todo |-> made,
                      tried |-> migration.tried, before |-> migration.before,
                      failed |-> migration.failed]
    BY <2>1 DEF MigrationInv, MigrationTypes
  <2>4. PlanKept'
    <3>1. \A c \in Legacy : migration.before.homes[c].profile = "none"
                                => <<"profile", c>> \in made
      BY <2>2
    <3>2. ~migration.failed => \A c \in Legacy : <<"profile", c>> \in made \/ FoundProfile(c)
      BY <1>1, <1>3, <3>1 DEF EmptyDirectory
    <3> QED
      <4>1. /\ migration'.at = "remove" /\ migration'.todo = made
            /\ migration'.before = migration.before
        BY <2>3
      <4>2. ~migration'.failed => ~migration.failed
        BY <2>3
      <4>3. ~migration'.failed =>
                /\ targetsFile' = migration'.before.targets
                /\ \A c \in Legacy :
                       FoundSdk(c)' /\ (<<"profile", c>> \in migration'.todo \/ FoundProfile(c)')
        BY <1>1, <1>3, <2>1, <3>2, <4>1, <4>2 DEF FoundSdk, FoundProfile
      <4> QED
        BY <1>1, <2>2, <4>1, <4>3 DEF PlanKept, MigrationRuns
  <2>5. migration'.at \in {"undo_files", "remove"} /\ migration'.at \in MigrationRuns
        /\ migration'.failed \in BOOLEAN
    BY <1>2, <2>3 DEF MigrationRuns
  <2>6. migration' = [at |-> migration'.at, todo |-> migration'.todo,
                      tried |-> migration'.tried, before |-> migration'.before,
                      failed |-> migration'.failed]
    BY <2>3
  <2> QED
    BY <1>1, <1>2, <2>1, <2>4, <2>5, <2>6, RunGoesOn
<1>4. CASE migration.todo # {}
  <2>1. PICK file \in migration.todo, bad \in BOOLEAN :
           /\ \/ ~bad /\ migration' = [migration EXCEPT !.todo = @ \ {file}]
              \/ bad /\ migration' = [migration EXCEPT !.todo = @ \ {file}, !.failed = TRUE]
           /\ ~bad => homes' = Migration!HomesWith(file, Migration!Restored(file))
           /\ ~bad => targetsFile' = Migration!TargetsWith(file, Migration!Restored(file))
           /\ bad => UNCHANGED <<homes, targetsFile>>
    BY <1>4 DEF Migration!UndoFile
  <2>2. /\ homes' \in [Legacy -> Migration!Homes] /\ targetsFile' \in Migration!Content
        /\ \A d \in Legacy : homes'[d].sdk = homes[d].sdk
        /\ file = <<"targets">> =>
               /\ ~bad => targetsFile' = migration.before.targets
               /\ \A d \in Legacy : homes'[d].profile = homes[d].profile
        /\ file # <<"targets">> => targetsFile' = targetsFile
        /\ \A d \in Legacy : <<"profile", d>> # file => homes'[d].profile = homes[d].profile
        /\ ~bad => \A d \in Legacy : <<"profile", d>> = file =>
               \/ homes'[d].profile = migration.before.homes[d].profile
               \/ migration.before.homes[d].profile = "none"
                      /\ homes'[d].profile = "unreadable"
    <3>1. CASE bad
      BY <1>2, <2>1, <3>1
    <3>2. CASE ~bad /\ file = <<"targets">>
      <4>1. Migration!Restored(file) = migration.before.targets
            /\ migration.before.targets \in Migration!Content
        BY <1>1, <3>2, FoundTypes DEF Migration!Restored, Migration!Before
      <4>2. homes' = homes /\ targetsFile' = migration.before.targets
        BY <2>1, <3>2, <4>1, WritesTargets
      <4> QED
        BY <1>2, <3>2, <4>1, <4>2
    <3>3. ASSUME ~bad, NEW c \in Legacy, file = <<"profile", c>>
          PROVE  /\ homes' \in [Legacy -> Migration!Homes] /\ targetsFile' = targetsFile
                 /\ \A d \in Legacy : homes'[d].sdk = homes[d].sdk
                 /\ \A d \in Legacy \ {c} : homes'[d].profile = homes[d].profile
                 /\ \/ homes'[c].profile = migration.before.homes[c].profile
                    \/ /\ migration.before.homes[c].profile = "none"
                       /\ homes'[c].profile = "unreadable"
      <4>1. Migration!Before(file) = migration.before.homes[c].profile
            /\ migration.before.homes[c].profile \in {"none", "legacy"}
        BY <1>1, <3>3, FoundTypes DEF Migration!Before
      <4>2. PICK v \in Migration!Content \cup {"unreadable"} :
               /\ v = Migration!Restored(file)
               /\ \/ v = migration.before.homes[c].profile
                  \/ v = "unreadable" /\ migration.before.homes[c].profile = "none"
        BY <4>1 DEF Migration!Restored, Migration!Content
      <4>3. homes' = Migration!HomesWith(<<"profile", c>>, v)
            /\ targetsFile' = Migration!TargetsWith(<<"profile", c>>, v)
        BY <2>1, <3>3, <4>2
      <4>4. /\ homes' \in [Legacy -> Migration!Homes]
            /\ homes'[c].profile = v
        BY <1>2, <4>3, WritesProfile
      <4>5. \A d \in Legacy : homes'[d].sdk = homes[d].sdk
        BY <1>2, <4>3, WritesProfile
      <4>6. \A d \in Legacy \ {c} : homes'[d].profile = homes[d].profile
        BY <1>2, <4>3, WritesProfile
      <4>7. targetsFile' = targetsFile
        BY <1>2, <4>3, WritesProfile
      <4> QED
        BY <4>2, <4>4, <4>5, <4>6, <4>7
    <3> QED
      BY <1>1, <1>2, <3>1, <3>2, <3>3, FilesAre
  <2>3. /\ migration'.at = migration.at /\ migration'.todo = migration.todo \ {file}
        /\ migration'.before = migration.before
        /\ migration'.failed = (migration.failed \/ bad)
        /\ migration'.failed \in BOOLEAN
        /\ migration' = [at |-> migration'.at, todo |-> migration'.todo,
                         tried |-> migration'.tried, before |-> migration'.before,
                         failed |-> migration'.failed]
    BY <2>1, UndoLeaves
  <2>4. ~migration'.failed => ~migration.failed /\ ~bad
    BY <2>3, Zenon
  <2>5. ~migration'.failed =>
            /\ <<"targets">> \in migration'.todo \/ targetsFile' = migration.before.targets
            /\ \A c \in Legacy :
                   /\ homes'[c].sdk = migration.before.homes[c].sdk
                   /\ \/ <<"profile", c>> \in migration'.todo
                      \/ homes'[c].profile = migration.before.homes[c].profile
                      \/ migration.before.homes[c].profile = "none"
                             /\ homes'[c].profile = "unreadable"
    BY <1>1, <2>2, <2>3, <2>4 DEF FoundSdk, FoundProfile, EmptyDirectory
  <2>6. PlanKept'
    BY <1>1, <2>3, <2>5 DEF PlanKept, FoundSdk, FoundProfile, EmptyDirectory, MigrationRuns
  <2> QED
    BY <1>1, <2>2, <2>3, <2>6, RunGoesOn
<1> QED
  BY <1>3, <1>4

LEMMA RemoveCreatedKeeps ==
    ASSUME MigrationInv, Migration!RemoveCreated
    PROVE  MigrationInv'
<1>1. /\ migration.at = "remove" /\ UNCHANGED <<legacyFiles, targetsFile, marker, starts>>
      /\ migration.todo \subseteq {<<"profile", c>> : c \in
             {d \in Legacy : migration.before.homes[d].profile = "none"}}
      /\ ~migration.failed =>
             /\ targetsFile = migration.before.targets
             /\ \A c \in Legacy :
                    FoundSdk(c) /\ (<<"profile", c>> \in migration.todo \/ FoundProfile(c))
      /\ migration.before \in [homes : FoundHomes, targets : Migration!Content]
      /\ migration.at \in MigrationRuns
  BY DEF Migration!RemoveCreated, Migration!At, MigrationInv, PlanKept, MigrationRuns
<1>2. homes \in [Legacy -> Migration!Homes] /\ targetsFile \in Migration!Content
      /\ migration.failed \in BOOLEAN
  BY DEF MigrationInv, MigrationTypes
<1>3. CASE migration.todo = {}
  <2>1. /\ migration' = Migration!NoRun
        /\ ended' = IF migration.failed THEN "rollback failed" ELSE "failed"
        /\ cutShort' = (cutShort \/ migration.failed) /\ UNCHANGED homes
    BY <1>3 DEF Migration!RemoveCreated, Migration!EndAs
  <2>2. cutShort' \/ ~migration.failed
    BY <2>1, Zenon
  <2>3. cutShort' \/ \A c \in Legacy : homes'[c].profile # "unreadable"
    <3>1. ~migration.failed => \A c \in Legacy : homes[c].profile # "unreadable"
      BY <1>1, <1>3, FoundTypes DEF FoundProfile
    <3> QED
      BY <2>1, <2>2, <3>1
  <2>4. ended' # "conflict"
    BY <2>1
  <2>5. MarkerKept'
    BY <1>1, <2>1, NoRunIs DEF MigrationInv, MarkerKept, MigrationRuns
  <2>6. ConflictsKept'
    BY <2>3, <2>4 DEF ConflictsKept, Migration!Undiscovered
  <2> QED
    BY <1>1, <2>1, <2>5, <2>6, NoRunIs, RunRests DEF MigrationInv, MigrationTypes
<1>4. CASE migration.todo # {}
  <2>1. PICK file \in migration.todo, bad \in BOOLEAN :
           /\ \/ ~bad /\ migration' = [migration EXCEPT !.todo = @ \ {file}]
              \/ bad /\ migration' = [migration EXCEPT !.todo = @ \ {file}, !.failed = TRUE]
           /\ ~bad => homes' = [homes EXCEPT ![file[2]].profile = "none"]
           /\ bad => UNCHANGED homes
    BY <1>4 DEF Migration!RemoveCreated
  <2>2. UNCHANGED <<ended, cutShort>>
    BY <1>4 DEF Migration!RemoveCreated
  <2>3. PICK c \in Legacy : file = <<"profile", c>>
                            /\ migration.before.homes[c].profile = "none"
    BY <1>1
  <2>4. /\ homes' \in [Legacy -> Migration!Homes]
        /\ \A d \in Legacy : homes'[d].sdk = homes[d].sdk
        /\ \A d \in Legacy \ {c} : homes'[d].profile = homes[d].profile
        /\ ~bad => homes'[c].profile = migration.before.homes[c].profile
    <3>1. CASE bad
      BY <1>2, <2>1, <3>1
    <3>2. CASE ~bad
      <4>1. homes' = [homes EXCEPT ![c].profile = "none"]
        BY <2>1, <2>3, <3>2
      <4> QED
        BY <1>2, <2>3, <4>1 DEF Migration!Homes, Migration!Content
    <3> QED
      BY <3>1, <3>2
  <2>5. /\ migration'.at = migration.at /\ migration'.todo = migration.todo \ {file}
        /\ migration'.before = migration.before
        /\ migration'.failed = (migration.failed \/ bad)
        /\ migration'.failed \in BOOLEAN
        /\ migration' = [at |-> migration'.at, todo |-> migration'.todo,
                         tried |-> migration'.tried, before |-> migration'.before,
                         failed |-> migration'.failed]
    BY <2>1, UndoLeaves
  <2>6. ~migration'.failed => ~migration.failed /\ ~bad
    BY <2>5, Zenon
  <2>7. ~migration'.failed =>
            /\ targetsFile' = migration'.before.targets
            /\ \A d \in Legacy :
                   FoundSdk(d)' /\ (<<"profile", d>> \in migration'.todo \/ FoundProfile(d)')
    BY <1>1, <2>3, <2>4, <2>5, <2>6 DEF FoundSdk, FoundProfile
  <2>8. PlanKept'
    BY <1>1, <2>5, <2>7 DEF PlanKept, MigrationRuns
  <2> QED
    BY <1>1, <1>2, <2>2, <2>4, <2>5, <2>8, RunGoesOn
<1> QED
  BY <1>3, <1>4

LEMMA MigrationKeeps ==
    ASSUME MigrationInv, Migration!MigrationNext
    PROVE  MigrationInv'
BY StartMigrationKeeps, ApplyFileKeeps, ApplySdkKeeps, VerifyPlanKeeps, UndoSdkKeeps,
   UndoFileKeeps, RemoveCreatedKeeps, ArchiveKeeps, ArchiveEndsKeeps
   DEF Migration!MigrationNext

LEMMA MigrationRests ==
    ASSUME MigrationInv, UNCHANGED Migration!migrationVars
    PROVE  MigrationInv'
<1>1. UNCHANGED <<legacyFiles, homes, targetsFile, marker, migration, ended, starts, cutShort>>
  BY DEF Migration!migrationVars
<1>2. MigrationTypes'
  BY <1>1 DEF MigrationInv, MigrationTypes
<1>3. MarkerKept'
  BY <1>1 DEF MigrationInv, MarkerKept
<1>4. PlanKept'
  BY <1>1 DEF MigrationInv, PlanKept, FoundSdk, FoundProfile, EmptyDirectory
<1>5. Migration!Undiscovered' = Migration!Undiscovered
      /\ Migration!Conflicts' = Migration!Conflicts
  BY <1>1 DEF Migration!Undiscovered, Migration!Conflicts, Migration!LegacyTargets
<1>6. ConflictsKept'
  BY <1>1, <1>5 DEF MigrationInv, ConflictsKept
<1> QED
  BY <1>2, <1>3, <1>4, <1>6 DEF MigrationInv

LEMMA MigrationIsSafe ==
    ASSUME MigrationInv
    PROVE  Migration!MigrationTypeOK /\ Migration!MigrationHolds
<1>1. migration.todo \subseteq Migration!Files \cup Migration!SdkConfigs
  BY DEF MigrationInv, PlanKept, MigrationTypes, MigrationRuns, Migration!Files
<1>2. Migration!MigrationTypeOK
  BY <1>1 DEF MigrationInv, MigrationTypes, Migration!MigrationTypeOK
<1>3. Migration!NothingIsLost
  <2>1. CASE marker = "none"
    BY <2>1 DEF MigrationInv, MarkerKept, Migration!NothingIsLost
  <2>2. CASE marker # "none"
    <3>1. \A c \in Legacy : homes[c] = [profile |-> "legacy", sdk |-> "legacy"]
      BY <2>2 DEF MigrationInv, MarkerKept, MigrationTypes, Migration!Homes
    <3> QED
      BY <2>2, <3>1 DEF MigrationInv, MarkerKept, Migration!NothingIsLost
  <2> QED
    BY <2>1, <2>2
<1>4. Migration!OwnWritesAreAccepted
  BY DEF MigrationInv, ConflictsKept, Migration!OwnWritesAreAccepted, Migration!Differs,
     Migration!Conflicts, Migration!LegacyTargets
<1>5. ASSUME migration.at = "remove", migration.todo = {}, ~migration.failed
      PROVE  homes = migration.before.homes /\ targetsFile = migration.before.targets
  <2>1. /\ targetsFile = migration.before.targets
        /\ \A c \in Legacy : FoundSdk(c) /\ FoundProfile(c)
    BY <1>5 DEF MigrationInv, PlanKept
  <2>2. migration.before.homes \in FoundHomes
    BY <1>5, FoundTypes DEF MigrationRuns
  <2>3. \A c \in Legacy : homes[c] = migration.before.homes[c]
    BY <2>1, <2>2 DEF FoundSdk, FoundProfile, FoundHomes, MigrationInv, MigrationTypes,
       Migration!Homes
  <2> QED
    BY <2>1, <2>2, <2>3 DEF FoundHomes, MigrationInv, MigrationTypes
<1>6. Migration!FailureRestores
  BY <1>5 DEF Migration!FailureRestores, Migration!At
<1> QED
  BY <1>2, <1>3, <1>4, <1>6 DEF Migration!MigrationHolds

-----------------------------------------------------------------------------
(* AppStart: how far the start has come says what is done on disk. *)

StartDone ==
    /\ stage \notin {"off", "migrate"} => \A c \in Computers : disk[c].home = "directory"
    /\ stage = "oauth" => \A c \in found \ todo : disk[c].optOut # "field"
    /\ stage \in {"imports", "reload", "skills", "registry"} =>
           \A c \in found : disk[c].optOut # "field"
    /\ stage = "imports" => \A c \in found \ todo : ~disk[c].redo
    /\ stage \in {"reload", "skills", "registry"} => \A c \in found : ~disk[c].redo
    /\ stage = "skills" => \A c \in loaded \ todo : ~disk[c].skillOpen
    /\ stage = "registry" => \A c \in loaded : ~disk[c].skillOpen

StartFound ==
    /\ stage \notin {"off", "migrate", "discover"} => Computers \subseteq loaded \cup skipped
    /\ stage \notin {"wire", "running"} => unsettled = {}
    /\ stage \in {"wire", "running"} => runtimes = loaded
    /\ unsettled \cap found = {}

StartInv == Starting!StartTypeOK /\ StartDone /\ StartFound

LEMMA StartStarts ==
    ASSUME Starting!StartInit
    PROVE  StartInv
<1>1. Starting!StartTypeOK
  <2>1. launches \in 0..MaxStarts
    BY StoresAssumption DEF Starting!StartInit, Starting!StartAssumption
  <2> QED
    BY <2>1 DEF Starting!StartInit, Starting!StartTypeOK, Starting!Possible
<1> QED
  BY <1>1 DEF Starting!StartInit, StartInv, StartDone, StartFound

LEMMA StartTyped ==
    ASSUME StartInv
    PROVE  /\ disk \in [Computers -> Starting!Stored] /\ todo \subseteq Computers
           /\ found \subseteq Computers /\ loaded \subseteq Computers
           /\ skipped \subseteq Computers /\ runtimes \subseteq Computers
           /\ unsettled \subseteq Computers /\ launches \in 0..MaxStarts
BY DEF StartInv, Starting!StartTypeOK

\* The types of a step from those of the parts it changes.
LEMMA StartRetyped ==
    ASSUME disk' \in [Computers -> Starting!Stored], todo' \subseteq Computers,
           found' \subseteq Computers, loaded' \subseteq Computers,
           skipped' \subseteq Computers, runtimes' \subseteq Computers,
           unsettled' \subseteq Computers, launches' \in 0..MaxStarts,
           stage' \in {"off", "migrate", "discover", "oauth", "imports", "reload",
                       "skills", "registry", "wire", "running"}
    PROVE  Starting!StartTypeOK'
BY DEF Starting!StartTypeOK

LEMMA LaunchKeeps ==
    ASSUME StartInv, Starting!Launch \/ Starting!Stop
    PROVE  StartInv'
<1>1. launches' \in 0..MaxStarts
  BY StartTyped, StoresAssumption
  DEF Starting!Launch, Starting!Stop, Starting!StartAssumption
<1>2. Starting!StartTypeOK'
  BY <1>1, StartTyped, StartRetyped DEF Starting!Launch, Starting!Stop
<1> QED
  BY <1>2 DEF StartInv, StartDone, StartFound, Starting!Launch, Starting!Stop

LEMMA MigrateLegacyKeeps ==
    ASSUME StartInv, Starting!MigrateLegacy
    PROVE  StartInv'
<1>1. /\ disk' \in [Computers -> Starting!Stored]
      /\ \A c \in Computers : disk'[c].home = "directory"
  BY StartTyped DEF Starting!MigrateLegacy, Starting!Stored
<1>2. Starting!StartTypeOK'
  BY <1>1, StartTyped, StartRetyped DEF Starting!MigrateLegacy
<1> QED
  BY <1>1, <1>2 DEF StartInv, StartDone, StartFound, Starting!MigrateLegacy

LEMMA LoadKeeps ==
    ASSUME StartInv, Starting!Discover \/ Starting!Reload
    PROVE  StartInv'
<1>1. /\ \A c \in Computers : disk[c].home = "directory"
      /\ disk' = disk /\ runtimes' = runtimes /\ unsettled' = unsettled
      /\ launches' = launches /\ todo' = loaded' /\ unsettled = {}
      /\ stage \in {"discover", "reload"} /\ stage' \in {"oauth", "skills"}
  BY DEF StartInv, StartDone, StartFound, Starting!Discover, Starting!Reload, Starting!Load
<1>2. Starting!Present = Computers
  BY <1>1 DEF Starting!Present
<1>3. PICK unread \in SUBSET Computers :
          loaded' = Computers \ unread /\ skipped' = skipped \cup unread
  BY <1>2 DEF Starting!Discover, Starting!Reload, Starting!Load
<1>4. Starting!StartTypeOK'
  BY <1>1, <1>3, StartTyped, StartRetyped DEF Starting!Discover, Starting!Reload
<1>5. StartDone'
  BY <1>1 DEF StartInv, StartDone, Starting!Discover, Starting!Reload, Starting!Load
<1>6. StartFound'
  BY <1>1, <1>3 DEF StartFound
<1> QED
  BY <1>4, <1>5, <1>6 DEF StartInv

\* A Computer is taken in a stage: its own record may change, and stays typed.
LEMMA TakeKeeps ==
    ASSUME StartInv, NEW c \in Computers,
           Starting!StripOAuth(c) \/ Starting!RecoverImport(c) \/ Starting!RecoverSkills(c)
    PROVE  StartInv'
<1>1. /\ c \in todo /\ todo' = todo \ {c} /\ disk' \in [Computers -> Starting!Stored]
      /\ UNCHANGED <<stage, found, loaded, skipped, runtimes, unsettled, launches>>
      /\ \A d \in Computers \ {c} : disk'[d] = disk[d]
      /\ disk'[c].home = disk[c].home
      /\ disk[c].redo = FALSE => disk'[c].redo = FALSE
      /\ disk[c].optOut # "field" => disk'[c].optOut # "field"
      /\ stage = "oauth" => disk'[c].optOut # "field"
      /\ stage = "imports" => disk'[c].redo = FALSE
      /\ stage = "skills" => disk'[c].skillOpen = FALSE
      /\ stage \in {"oauth", "imports", "skills"}
  <2>1. disk[c] \in Starting!Stored /\ disk \in [Computers -> Starting!Stored]
    BY StartTyped
  <2>2. CASE Starting!StripOAuth(c)
    <3>1. /\ Starting!Take(c) /\ stage = "oauth"
          /\ disk' = [disk EXCEPT ![c].optOut = IF @ = "field" THEN "disabled" ELSE @]
      BY <2>2 DEF Starting!StripOAuth
    <3> DEFINE o == IF disk[c].optOut = "field" THEN "disabled" ELSE disk[c].optOut
    <3>2. o \in {"none", "disabled"}
      BY <2>1 DEF Starting!Stored
    <3>3. disk' = [disk EXCEPT ![c] = [disk[c] EXCEPT !.optOut = o]]
      BY <2>1, <3>1 DEF Starting!Stored
    <3> HIDE DEF o
    <3> QED
      BY <2>1, <3>1, <3>2, <3>3 DEF Starting!Take, Starting!Stored
  <2>3. CASE Starting!RecoverImport(c)
    BY <2>1, <2>3 DEF Starting!RecoverImport, Starting!Take, Starting!Stored
  <2>4. CASE Starting!RecoverSkills(c)
    BY <2>1, <2>4 DEF Starting!RecoverSkills, Starting!Take, Starting!Stored
  <2> QED
    BY <2>2, <2>3, <2>4
<1>2. Starting!StartTypeOK'
  <2>1. stage' \in {"off", "migrate", "discover", "oauth", "imports", "reload",
                    "skills", "registry", "wire", "running"}
    BY <1>1
  <2> QED
    BY <1>1, <2>1, StartTyped, StartRetyped
<1>3. StartDone'
  BY <1>1, StartTyped DEF StartInv, StartDone
<1>4. StartFound'
  BY <1>1 DEF StartInv, StartFound
<1> QED
  BY <1>2, <1>3, <1>4 DEF StartInv

LEMMA NextStageKeeps ==
    ASSUME StartInv, Starting!NextStage
    PROVE  StartInv'
<1>1. Starting!StartTypeOK'
  BY StartTyped, StartRetyped DEF Starting!NextStage
<1> QED
  BY <1>1, StartTyped DEF StartInv, StartDone, StartFound, Starting!NextStage

LEMMA BuildRegistryKeeps ==
    ASSUME StartInv, Starting!BuildRegistry
    PROVE  StartInv'
<1>1. unsettled' \subseteq Computers /\ runtimes' = loaded
  BY StartTyped DEF Starting!BuildRegistry
<1>2. Starting!StartTypeOK'
  BY <1>1, StartTyped, StartRetyped DEF Starting!BuildRegistry
<1>3. unsettled' \cap found' = {}
  BY DEF Starting!BuildRegistry, Starting!Finished, StartInv, StartDone
<1> QED
  BY <1>2, <1>3 DEF StartInv, StartDone, StartFound, Starting!BuildRegistry

LEMMA ServeKeeps ==
    ASSUME StartInv, Starting!Serve
    PROVE  StartInv'
<1>1. Starting!StartTypeOK'
  BY StartTyped, StartRetyped DEF Starting!Serve
<1> QED
  BY <1>1 DEF StartInv, StartDone, StartFound, Starting!Serve

LEMMA WorkKeeps ==
    ASSUME StartInv, NEW c \in Computers, Starting!Work(c)
    PROVE  StartInv'
<1>1. /\ disk' \in [Computers -> Starting!Stored]
      /\ \A d \in Computers : disk'[d].home = disk[d].home
  <2>1. ASSUME NEW b \in BOOLEAN
        PROVE  /\ [disk EXCEPT ![c].redo = b] \in [Computers -> Starting!Stored]
               /\ [disk EXCEPT ![c].skillOpen = b] \in [Computers -> Starting!Stored]
               /\ \A d \in Computers : /\ [disk EXCEPT ![c].redo = b][d].home = disk[d].home
                                       /\ [disk EXCEPT ![c].skillOpen = b][d].home = disk[d].home
    BY StartTyped DEF Starting!Stored
  <2> QED
    BY <2>1 DEF Starting!Work
<1>2. Starting!StartTypeOK'
  BY <1>1, StartTyped, StartRetyped DEF Starting!Work
<1> QED
  BY <1>1, <1>2 DEF StartInv, StartDone, StartFound, Starting!Work

LEMMA StartRests ==
    ASSUME StartInv, UNCHANGED Starting!startVars
    PROVE  StartInv'
BY DEF Starting!startVars, StartInv, StartDone, StartFound, Starting!StartTypeOK

LEMMA StartKeeps ==
    ASSUME StartInv, Starting!StartNext
    PROVE  StartInv'
BY LaunchKeeps, MigrateLegacyKeeps, LoadKeeps, TakeKeeps, NextStageKeeps,
   BuildRegistryKeeps, ServeKeeps, WorkKeeps DEF Starting!StartNext

LEMMA StartIsSound ==
    ASSUME StartInv
    PROVE  Starting!AppStartHolds
BY DEF StartInv, StartFound, Starting!AppStartHolds, Starting!RuntimesAreSettled,
       Starting!NoComputerIsLost


-----------------------------------------------------------------------------
(* The run: its subject keeps the invariant of its component. *)

StoresInv ==
    /\ subject \in Components
    /\ subject = "inputs" => InputInv
    /\ subject = "storage" => StorageInv
    /\ subject = "config" => ConfigInv
    /\ subject = "sdk" => SdkInv
    /\ subject = "importing" => ImportInv
    /\ subject = "settings" => SettingsInv
    /\ subject = "migration" => MigrationInv
    /\ subject = "portable" => PortableInv
    /\ subject = "start" => StartInv

LEMMA StoresStart == Init => StoresInv
<1> SUFFICES ASSUME Init PROVE StoresInv
  OBVIOUS
<1>1. subject = "inputs" => InputInv
  BY InputStarts DEF Init, InputsInit
<1>2. subject = "storage" => StorageInv
  BY StorageStarts DEF Init, StorageInit
<1>3. subject = "config" => ConfigInv
  BY ConfigStarts DEF Init, ConfigInit
<1>4. subject = "sdk" => SdkInv
  BY SdkStarts DEF Init, SdkInit
<1>5. subject = "importing" => ImportInv
  BY ImportStarts DEF Init, ImportingInit
<1>6. subject = "settings" => SettingsInv
  BY SettingsStarts DEF Init, SettingInit
<1>7. subject = "migration" => MigrationInv
  BY MigrationStarts DEF Init, MigrationInit
<1>8. subject = "portable" => PortableInv
  BY PortableStarts DEF Init, PortableInit
<1>9. subject = "start" => StartInv
  BY StartStarts DEF Init, StartingInit
<1>10. subject \in Components
  BY DEF Init
<1> QED
  BY <1>1, <1>2, <1>3, <1>4, <1>5, <1>6, <1>7, <1>8, <1>9, <1>10 DEF StoresInv

LEMMA StoresStep == StoresInv /\ [Next]_vars => StoresInv'
<1> SUFFICES ASSUME StoresInv, [Next]_vars PROVE StoresInv'
  OBVIOUS
<1>1. CASE InputsStep
  <2>1. subject = "inputs" /\ subject' = "inputs" /\ Inputs!InputNext
    BY <1>1 DEF InputsStep, Only
  <2> QED
    BY <2>1, InputKeeps DEF StoresInv
<1>2. CASE StorageStep
  <2>1. subject = "storage" /\ subject' = "storage" /\ Storage!StorageNext
    BY <1>2 DEF StorageStep, Only
  <2> QED
    BY <2>1, StorageKeeps DEF StoresInv
<1>3. CASE ConfigStep
  <2>1. subject = "config" /\ subject' = "config" /\ Config!ConfigNext
    BY <1>3 DEF ConfigStep, Only
  <2> QED
    BY <2>1, ConfigKeeps DEF StoresInv
<1>4. CASE SdkStep
  <2>1. subject = "sdk" /\ subject' = "sdk" /\ Sdk!SdkNext
    BY <1>4 DEF SdkStep, Only
  <2> QED
    BY <2>1, SdkKeeps DEF StoresInv
<1>5. CASE ImportingStep
  <2>1. subject = "importing" /\ subject' = "importing" /\ Importing!ImportNext
    BY <1>5 DEF ImportingStep, Only
  <2> QED
    BY <2>1, ImportKeeps DEF StoresInv
<1>6. CASE SettingStep
  <2>1. subject = "settings" /\ subject' = "settings" /\ Setting!SettingsNext
    BY <1>6 DEF SettingStep, Only
  <2> QED
    BY <2>1, SettingsKeeps DEF StoresInv
<1>7. CASE MigrationStep
  <2>1. subject = "migration" /\ subject' = "migration" /\ Migration!MigrationNext
    BY <1>7 DEF MigrationStep, Only
  <2> QED
    BY <2>1, MigrationKeeps DEF StoresInv
<1>8. CASE PortableStep
  <2>1. subject = "portable" /\ subject' = "portable" /\ Portable!PortableNext
    BY <1>8 DEF PortableStep, Only
  <2> QED
    BY <2>1, PortableKeeps DEF StoresInv
<1>9. CASE StartingStep
  <2>1. subject = "start" /\ subject' = "start" /\ Starting!StartNext
    BY <1>9 DEF StartingStep, Only
  <2> QED
    BY <2>1, StartKeeps DEF StoresInv
<1>10. CASE UNCHANGED vars
  <2>1. UNCHANGED <<subject, inputsState, storageState, configState, sdkState, importingState,
                    settingsState, migrationState, portableState, startState>>
    BY <1>10 DEF vars
  <2>2. subject = "inputs" => InputInv'
    <3>1. UNCHANGED Inputs!inputVars
      BY <2>1 DEF inputsState, Inputs!inputVars
    <3> QED
      BY <3>1, InputRests DEF StoresInv
  <2>3. subject = "storage" => StorageInv'
    <3>1. UNCHANGED Storage!storageVars
      BY <2>1 DEF storageState, Storage!storageVars
    <3> QED
      BY <3>1, StorageRests DEF StoresInv
  <2>4. subject = "config" => ConfigInv'
    <3>1. UNCHANGED Config!configVars
      BY <2>1 DEF configState, Config!configVars
    <3> QED
      BY <3>1, ConfigRests DEF StoresInv
  <2>5. subject = "sdk" => SdkInv'
    <3>1. UNCHANGED Sdk!sdkVars
      BY <2>1 DEF sdkState, Sdk!sdkVars
    <3> QED
      BY <3>1, SdkRests DEF StoresInv
  <2>6. subject = "importing" => ImportInv'
    <3>1. UNCHANGED Importing!importVars
      BY <2>1 DEF importingState, Importing!importVars
    <3> QED
      BY <3>1, ImportRests DEF StoresInv
  <2>7. subject = "settings" => SettingsInv'
    <3>1. UNCHANGED Setting!settingsVars
      BY <2>1 DEF settingsState, Setting!settingsVars
    <3> QED
      BY <3>1, SettingsRests DEF StoresInv
  <2>8. subject = "migration" => MigrationInv'
    <3>1. UNCHANGED Migration!migrationVars
      BY <2>1 DEF migrationState, Migration!migrationVars
    <3> QED
      BY <3>1, MigrationRests DEF StoresInv
  <2>9. subject = "portable" => PortableInv'
    <3>1. UNCHANGED Portable!portableVars
      BY <2>1 DEF portableState, Portable!portableVars
    <3> QED
      BY <3>1, PortableRests DEF StoresInv
  <2>10. subject = "start" => StartInv'
    <3>1. UNCHANGED Starting!startVars
      BY <2>1 DEF startState, Starting!startVars
    <3> QED
      BY <3>1, StartRests DEF StoresInv
  <2> QED
    BY <2>1, <2>2, <2>3, <2>4, <2>5, <2>6, <2>7, <2>8, <2>9, <2>10 DEF StoresInv
<1> QED
  BY <1>1, <1>2, <1>3, <1>4, <1>5, <1>6, <1>7, <1>8, <1>9, <1>10 DEF Next

LEMMA StoresAlways == Spec => []StoresInv
BY StoresStart, StoresStep, PTL DEF Spec

\* Every variable of the part that moves has its type, in every step of the stores, the
\* imports, the migrations and the start of the client.
THEOREM StoresTyped == Spec => []StoresTypeOK
<1>1. StoresInv => StoresTypeOK
  <2> SUFFICES ASSUME StoresInv PROVE StoresTypeOK
    OBVIOUS
  <2>1. subject = "inputs" => Inputs!InputTypeOK
    BY DEF StoresInv, InputInv
  <2>2. subject = "start" => Starting!StartTypeOK
    BY DEF StoresInv, StartInv
  <2> QED
    BY <2>1, <2>2, StorageIsSound, ConfigIsWhole, SdkIsSound, ImportIsSound,
       SettingsAreSound, MigrationIsSafe, PortableIsSound DEF StoresInv, StoresTypeOK
<1> QED
  BY <1>1, StoresAlways, PTL

\* An input's value is in one of its stores after every write that fails or stops half
\* way, and a secret never reaches the file (input_entry_store.rs): for any values.
THEOREM InputsAreSafe == Spec => []InputsHold
<1>1. StoresInv => InputsHold
  BY InputIsSafe DEF StoresInv, InputsHold
<1> QED
  BY <1>1, StoresAlways, PTL

\* The published instance of a Computer is the saved one and a failed delete leaves
\* everything, for any number of Computers and of commands that create, change, duplicate
\* and delete them at once; no Computer keeps authority over a departed context
\* (commands/computer.rs, commands/runtime_sync.rs, commands/manager.rs).
THEOREM ComputersAreSound == Spec => []ComputersHold
<1>1. StoresInv => ComputersHold
  BY StorageIsSound DEF StoresInv, ComputersHold
<1> QED
  BY <1>1, StoresAlways, PTL

\* A Computer's directory and its SDK configuration are the old or the new one after any
\* failure and any number of stops, and never a mixture, for any number of editions and
\* any servers (services/config.rs, services/sdk_config.rs).
THEOREM ConfigurationsAreWhole == Spec => []ConfigurationsHold
<1>1. StoresInv => ConfigurationsHold
  BY ConfigIsWhole, SdkIsSound DEF StoresInv, ConfigurationsHold
<1> QED
  BY <1>1, StoresAlways, PTL

\* An import takes effect as a whole or not at all, whichever of its writes or replays
\* stops, and an export is of one edit and without secrets, for any number of imports,
\* edits and plugins (commands/config_io.rs, services/portable_config.rs).
THEOREM TransfersAreWhole == Spec => []TransfersHold
<1>1. StoresInv => TransfersHold
  BY ImportIsSound, PortableIsSound DEF StoresInv, TransfersHold
<1> QED
  BY <1>1, StoresAlways, PTL

\* No writer of the settings loses another's update, a migration loses nothing of the
\* legacy files and accepts what it wrote, and a start builds its runtimes over finished
\* imports and whole skills, for any writers, notices and Computers (settings.rs,
\* config_migration.rs, lib.rs).
THEOREM ClientFilesAreSound == Spec => []ClientFilesHold
<1>1. StoresInv => ClientFilesHold
  BY SettingsAreSound, MigrationIsSafe, StartIsSound DEF StoresInv, ClientFilesHold
<1> QED
  BY <1>1, StoresAlways, PTL

=============================================================================
