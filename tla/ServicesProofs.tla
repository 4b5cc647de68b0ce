--------------------------- MODULE ServicesProofs ---------------------------
(***************************************************************************)
(* Proofs about what a Computer's runtime offers, for any number of flows, *)
(* plugins, events, policy updates, calls and skill changes: the inductive *)
(* invariant of each component of MCServices, and then the theorems about  *)
(* the specification of its run.                                           *)
(***************************************************************************)
EXTENDS MCServices, FiniteSetTheorems, TLAPS

-----------------------------------------------------------------------------
(* OAuthFlow. *)

Past == {"launch", "wait", "callback", "claim", "complete"}

Early(f) == begin[f].pc \in {"idle", "reserve", "create", "register"}

\* A flow that can store no token any more: it gives up, its SDK flow has ended, or it
\* has lost its entry before it could complete.
Closed(f) ==
    \/ begin[f].pc \in {"retire", "remove", "done"}
    \/ begin[f].pc \in {"create", "register"} /\ ~(flow.id = f /\ flow.phase = "Preparing")
    \/ begin[f].pc \in Past /\ begin[f].sdk # "live"
    \/ begin[f].pc \in Past \ {"complete"} /\ flow.id # f

\* A flow that is about to store a token still has its entry, and an entry says how far
\* its flow is, under the handle that is installed.
EntryOf(f) ==
    /\ begin[f].pc = "complete" /\ begin[f].sdk = "live" => flow.id = f
    /\ flow.id = f =>
          IF flow.sdk THEN begin[f].pc \in Past \cup {"retire", "remove", "done"}
          ELSE begin[f].pc \in {"create", "register", "retire"}
    /\ flow.id = f /\ (flow.sdk \/ begin[f].pc = "register") => begin[f].handle = handle
EntryInv ==
    /\ flow = OAuth!NoEntry \/ flow.id \in Flows
    /\ \A f \in Flows : EntryOf(f)

\* Who removes an entry has closed its flow.
CancelInv ==
    \A c \in OAuth!Cancellers :
        /\ cancel[c].step \in {"sdk", "remove"} =>
               cancel[c].id \in Flows
               /\ (flow.id = cancel[c].id => flow.phase = "Completing")
        /\ cancel[c].step = "sdk" => ~Early(cancel[c].id)
        /\ cancel[c].step = "remove" => Closed(cancel[c].id)

\* What a change or a replacement cancels is all there is, as nobody is admitted.
Alone(c) ==
    /\ cancel[c].step \in {"sdk", "remove"} => flow = OAuth!NoEntry \/ flow.id = cancel[c].id
    /\ cancel[c].step = "done" => flow = OAuth!NoEntry

ReplaceInv ==
    /\ admission.open <=> replace = "idle"
    /\ replace \in {"cancel", "swap"} => handle < MaxHandles
    /\ cancel["replace"].step # "idle" => replace = "cancel"
    /\ Alone("replace")
    /\ replace = "swap" => flow = OAuth!NoEntry

\* The blocks a change holds.
BlocksOf(kind, at) ==
    CASE kind = "clear" -> IF at \in 4..6 THEN 1 ELSE 0
      [] kind = "identity" -> IF at \in 3..5 THEN 2 ELSE IF at \in {2, 6} THEN 1 ELSE 0
      [] kind = "remove" ->
             IF at \in 3..5 \cup 9..11 THEN 2 ELSE IF at \in 2..15 THEN 1 ELSE 0
      [] OTHER -> 0
LastOf(kind) ==
    CASE kind = "clear" -> 7 [] kind = "identity" -> 6 [] kind = "remove" -> 15
      [] kind = "mount" -> 5 [] OTHER -> 0

ChangeInv ==
    /\ IF change.kind = "none" THEN change = OAuth!NoChange
       ELSE change.at \in 1..LastOf(change.kind)
    /\ admission.blocks = BlocksOf(change.kind, change.at)
    /\ cancel["change"].step # "idle" => OAuth!Doing("cancel")
    /\ admission.blocks > 0 => Alone("change")
    /\ OAuth!Doing("erase") => flow = OAuth!NoEntry

StaleInv == \A f \in stale : Closed(f)

OAuthInv ==
    /\ OAuth!OAuthTypeOK /\ EntryInv /\ CancelInv /\ ReplaceInv /\ ChangeInv /\ StaleInv
    /\ OAuth!ClearedStaysCleared

Kinds == {"clear", "identity", "remove", "mount"}

\* What each change does, step by step.
LEMMA StepTable ==
    ASSUME NEW kind \in Kinds, NEW at \in 1..LastOf(kind)
    PROVE  /\ OAuth!Steps(kind)[at] = "erase" <=>
                  \/ kind = "clear" /\ at = 5
                  \/ kind = "identity" /\ at = 4
                  \/ kind = "remove" /\ at \in {4, 10}
           /\ OAuth!Steps(kind)[at] = "cancel" <=>
                  \/ kind = "clear" /\ at = 4
                  \/ kind = "identity" /\ at = 3
                  \/ kind = "remove" /\ at \in {3, 9, 12}
                  \/ kind = "mount" /\ at = 3
           /\ OAuth!Steps(kind)[at] = "block" <=>
                  \/ kind = "clear" /\ at = 3
                  \/ kind = "identity" /\ at \in {1, 2}
                  \/ kind = "remove" /\ at \in {1, 2, 8}
           /\ OAuth!Steps(kind)[at] = "unblock" <=>
                  \/ kind = "clear" /\ at = 6
                  \/ kind = "identity" /\ at \in {5, 6}
                  \/ kind = "remove" /\ at \in {5, 11, 15}
           /\ OAuth!Steps(kind)[at] \in {"lifecycle", "fence", "unlock"} <=>
                  \/ kind = "clear" /\ at \in {1, 2, 7}
                  \/ kind = "remove" /\ at \in {6, 7, 14}
                  \/ kind = "mount" /\ at \in {1, 2, 5}
           /\ OAuth!Steps(kind)[at] = "mount" <=>
                  \/ kind = "remove" /\ at = 13
                  \/ kind = "mount" /\ at = 4
           /\ Len(OAuth!Steps(kind)) = LastOf(kind)
<1> USE DEF LastOf
<1>1. CASE kind = "clear"
  BY <1>1 DEF OAuth!Steps
<1>2. CASE kind = "identity"
  BY <1>2 DEF OAuth!Steps
<1>3. CASE kind = "remove"
  BY <1>3 DEF OAuth!Steps
<1>4. CASE kind = "mount"
  BY <1>4 DEF OAuth!Steps
<1> QED
  BY <1>1, <1>2, <1>3, <1>4 DEF Kinds

\* The step a change is at: in Kinds and within its steps, unless there is none.
LEMMA ChangeIsAt ==
    ASSUME OAuth!OAuthTypeOK, ChangeInv
    PROVE  /\ change.kind # "none" =>
                  change.kind \in Kinds /\ change.at \in 1..LastOf(change.kind)
           /\ change.kind = "none" => change.at = 0 /\ admission.blocks = 0
           /\ admission.blocks = BlocksOf(change.kind, change.at)
           /\ \A kind \in Kinds : LastOf(kind) \in 1..15
  BY DEF OAuth!OAuthTypeOK, ChangeInv, Kinds, LastOf, BlocksOf, OAuth!NoChange

LEMMA EraseIsBlocked ==
    ASSUME OAuth!OAuthTypeOK, ChangeInv, OAuth!Doing("erase")
    PROVE  admission.blocks > 0
<1>1. change.kind \in Kinds /\ change.at \in 1..LastOf(change.kind)
  BY ChangeIsAt DEF OAuth!Doing
<1> QED
  BY <1>1, StepTable, ChangeIsAt DEF OAuth!Doing, BlocksOf

Points == {"idle", "reserve", "create", "register", "launch", "wait", "callback", "claim",
           "complete", "remove", "retire", "done"}
SdkStates == {"none", "live", "authorized", "terminated"}
FlowTask == [pc : Points, sdk : SdkStates, handle : 0..(MaxHandles + 1)]
Entry == [id : Flows \cup {NoFlow}, sdk : BOOLEAN, listener : BOOLEAN,
          phase : {"none", "Preparing", "WaitingForCallback", "Completing"}]

LEMMA OAuthTyped ==
    ASSUME OAuth!OAuthTypeOK
    PROVE  /\ begin \in [Flows -> FlowTask] /\ flow \in Entry
           /\ \A f \in Flows : begin[f].sdk \in SdkStates /\ OAuth!Terminated(f) \in SdkStates
  BY DEF OAuth!OAuthTypeOK, OAuth!Terminated, FlowTask, Entry, Points, SdkStates

LEMMA HandleIsCurrent == OAuth!OAuthTypeOK /\ EntryInv => OAuth!FlowIsOfThisHandle
  BY DEF OAuth!FlowIsOfThisHandle, EntryInv, EntryOf, OAuth!NoEntry

USE ServicesAssumption
    DEF OAuth!OAuthAssumption, OAuth!BeginIs, OAuth!Current, OAuth!Interrupted,
        OAuth!others, OAuth!unmoved, OAuth!NoEntry, OAuth!NoCancel, OAuth!NoChange,
        OAuth!Cancellers, OAuth!Admitted

\* A step of a begin moves it and its SDK flow, and no other.
Moves(f, p, s) ==
    /\ begin' \in [Flows -> FlowTask]
    /\ \A g \in Flows : g # f => begin'[g] = begin[g]
    /\ begin'[f].pc = p /\ begin'[f].sdk = s /\ begin'[f].handle = begin[f].handle

LEMMA ToEffect ==
    ASSUME OAuth!OAuthTypeOK, NEW f \in Flows, NEW p \in Points, OAuth!To(f, p)
    PROVE  Moves(f, p, begin[f].sdk)
  BY OAuthTyped DEF FlowTask, Moves, OAuth!To

LEMMA EndEffect ==
    ASSUME OAuth!OAuthTypeOK, NEW f \in Flows, NEW p \in Points, NEW s \in SdkStates,
           begin' = [begin EXCEPT ![f].pc = p, ![f].sdk = s]
    PROVE  Moves(f, p, s)
  BY OAuthTyped DEF FlowTask, Moves

\* What becomes of the entry.
Unentered(f) ==
    /\ flow' \in Entry
    /\ IF flow.id = f THEN flow' = OAuth!NoEntry ELSE flow' = flow
Claimed ==
    /\ flow' \in Entry /\ flow'.id = flow.id /\ flow'.sdk = flow.sdk
    /\ flow'.phase = "Completing"

LEMMA ClaimEffect ==
    ASSUME OAuth!OAuthTypeOK, flow' = [flow EXCEPT !.phase = "Completing", !.listener = FALSE]
    PROVE  Claimed
  BY OAuthTyped DEF Entry, Claimed

LEMMA WithoutEffect ==
    ASSUME OAuth!OAuthTypeOK, NEW f \in Flows, flow' = OAuth!WithoutFlow(f)
    PROVE  Unentered(f)
  BY OAuthTyped DEF OAuth!WithoutFlow, Entry, Unentered

\* A step of one begin: it takes or changes its own entry only, takes one only when it is
\* admitted, and stays closed if it was.
BeginStep(f) ==
    /\ begin' \in [Flows -> FlowTask] /\ \A g \in Flows : g # f => begin'[g] = begin[g]
    /\ UNCHANGED <<admission, lifecycle, cancel, change, replace, handle, stale>>
    /\ fence' \in Flows \cup {"free", "change"}
    /\ flow' \in Entry
    /\ \/ flow' = flow
       \/ flow.id = f /\ flow' = OAuth!NoEntry
       \/ flow.id = f /\ flow'.id = f
          /\ (flow.phase = "Completing" => flow'.phase = "Completing")
       \/ OAuth!Admitted /\ flow'.id = f /\ begin[f].pc = "reserve"
    /\ EntryOf(f)'
    /\ Closed(f) => Closed(f)'
    /\ Early(f)' => Early(f)
    /\ \/ credential' = credential
       \/ credential' = f /\ ~Closed(f)

LEMMA BeginKeepsOAuth ==
    ASSUME OAuthInv, NEW f \in Flows, BeginStep(f)
    PROVE  OAuthInv'
<1> USE DEF OAuthInv, BeginStep
<1>1. OAuth!OAuthTypeOK'
  BY DEF OAuth!OAuthTypeOK, FlowTask, Entry, Points, SdkStates
<1>2. EntryInv'
  BY DEF OAuth!OAuthTypeOK, EntryInv, EntryOf
<1>3. \A g \in Flows : (Closed(g) => Closed(g)') /\ (Early(g)' => Early(g))
  BY DEF OAuth!OAuthTypeOK, Closed, Early, Past
<1>4. CancelInv'
  <2>1. ASSUME NEW c \in OAuth!Cancellers, cancel[c].step \in {"sdk", "remove"}
        PROVE  /\ cancel[c].id \in Flows
               /\ flow'.id = cancel[c].id => flow'.phase = "Completing"
    <3>1. cancel[c].id \in Flows /\ (flow.id = cancel[c].id => flow.phase = "Completing")
      BY <2>1 DEF CancelInv
    <3>2. cancel[c].id = f => begin[f].pc # "reserve"
      BY <2>1 DEF CancelInv, Early, Closed, Past
    <3> QED
      BY <3>1, <3>2
  <2> QED
    BY <1>3, <2>1 DEF OAuth!OAuthTypeOK, CancelInv
<1>5. ReplaceInv'
  BY DEF OAuth!OAuthTypeOK, ReplaceInv, Alone
<1>6. ChangeInv'
  BY EraseIsBlocked DEF OAuth!OAuthTypeOK, ChangeInv, Alone, OAuth!Doing
<1>7. StaleInv'
  BY <1>3 DEF OAuth!OAuthTypeOK, StaleInv
<1>8. OAuth!ClearedStaysCleared'
  BY DEF OAuth!OAuthTypeOK, StaleInv, OAuth!ClearedStaysCleared
<1> QED
  BY <1>1, <1>2, <1>4, <1>5, <1>6, <1>7, <1>8

LEMMA FenceStep ==
    ASSUME OAuthInv, NEW f \in Flows, OAuth!WaitForFence(f)
    PROVE  BeginStep(f)
<1> USE DEF OAuthInv
<1>1. Moves(f, "reserve", begin[f].sdk)
  BY ToEffect DEF OAuth!WaitForFence, Points
<1>2. /\ begin[f].pc = "idle" /\ fence' = f
      /\ UNCHANGED <<flow, admission, credential, lifecycle, cancel, change, replace, handle,
                     stale>>
  BY DEF OAuth!WaitForFence
<1> QED
  BY <1>1, <1>2, OAuthTyped DEF BeginStep, Moves, EntryInv, EntryOf, Closed, Early, Past

LEMMA ReserveStep ==
    ASSUME OAuthInv, NEW f \in Flows, OAuth!Reserve(f)
    PROVE  BeginStep(f)
<1> USE DEF OAuthInv
<1>1. /\ begin[f].pc = "reserve" /\ fence' \in {fence, "free"}
      /\ UNCHANGED <<admission, credential, lifecycle, cancel, change, replace, handle, stale>>
  BY DEF OAuth!Reserve
<1>2. CASE OAuth!Admitted
  <2>1. Moves(f, "create", begin[f].sdk)
    BY <1>2, ToEffect DEF OAuth!Reserve, Points
  <2>2. flow' = [id |-> f, sdk |-> FALSE, phase |-> "Preparing", listener |-> TRUE]
    BY <1>2 DEF OAuth!Reserve
  <2> QED
    BY <1>1, <1>2, <2>1, <2>2
    DEF BeginStep, Moves, EntryInv, EntryOf, Closed, Early, Past, Entry, OAuth!OAuthTypeOK
<1>3. CASE ~OAuth!Admitted
  <2>1. Moves(f, "done", begin[f].sdk) /\ flow' = flow
    BY <1>3, ToEffect DEF OAuth!Reserve, Points
  <2> QED
    BY <1>1, <2>1, OAuthTyped
    DEF BeginStep, Moves, EntryInv, EntryOf, Closed, Early, Past, OAuth!OAuthTypeOK
<1> QED
  BY <1>2, <1>3

LEMMA CreateStep ==
    ASSUME OAuthInv, NEW f \in Flows, OAuth!CreateFlow(f)
    PROVE  BeginStep(f)
<1> USE DEF OAuthInv
<1>1. /\ begin[f].pc = "create" /\ fence' \in {fence, "free"}
      /\ UNCHANGED <<admission, credential, lifecycle, cancel, change, replace, handle, stale>>
  BY DEF OAuth!CreateFlow
<1>2. CASE begin' = [begin EXCEPT ![f] = [pc |-> "register", sdk |-> "live", handle |-> handle]]
           /\ flow' = flow
  <2>1. /\ begin' \in [Flows -> FlowTask] /\ \A g \in Flows : g # f => begin'[g] = begin[g]
        /\ begin'[f] = [pc |-> "register", sdk |-> "live", handle |-> handle]
    BY <1>2, OAuthTyped DEF FlowTask, Points, SdkStates, OAuth!OAuthTypeOK
  <2>3. EntryOf(f)'
    BY <1>1, <1>2, <2>1, OAuthTyped DEF Moves, Unentered, EntryInv, EntryOf, Past
  <2>4. (Closed(f) => Closed(f)') /\ (Early(f)' => Early(f))
    BY <1>1, <1>2, <2>1, OAuthTyped DEF Moves, Unentered, EntryInv, EntryOf, Closed, Early, Past
  <2> QED
    BY <1>1, <2>3, <2>4, <1>2, <2>1, OAuthTyped DEF BeginStep, Moves, Unentered, OAuth!OAuthTypeOK
<1>3. CASE OAuth!To(f, "done") /\ flow' = OAuth!WithoutFlow(f)
  <2>1. Moves(f, "done", begin[f].sdk) /\ Unentered(f)
    BY <1>3, ToEffect, WithoutEffect DEF Points
  <2>3. EntryOf(f)'
    BY <1>1, <2>1, OAuthTyped DEF Moves, Unentered, EntryInv, EntryOf, Past
  <2>4. (Closed(f) => Closed(f)') /\ (Early(f)' => Early(f))
    BY <1>1, <2>1, OAuthTyped DEF Moves, Unentered, EntryInv, EntryOf, Closed, Early, Past
  <2> QED
    BY <1>1, <2>3, <2>4, <2>1, OAuthTyped DEF BeginStep, Moves, Unentered, OAuth!OAuthTypeOK
<1> QED
  BY <1>2, <1>3 DEF OAuth!CreateFlow

LEMMA RegisterStep ==
    ASSUME OAuthInv, NEW f \in Flows, OAuth!Register(f)
    PROVE  BeginStep(f)
<1> USE DEF OAuthInv
<1>1. /\ begin[f].pc = "register" /\ fence' = "free"
      /\ UNCHANGED <<admission, credential, lifecycle, cancel, change, replace, handle, stale>>
  BY DEF OAuth!Register
<1>2. CASE flow.id = f /\ flow.phase = "Preparing"
  <2>1. Moves(f, "launch", begin[f].sdk)
    BY <1>2, ToEffect DEF OAuth!Register, Points
  <2>2. /\ flow' \in Entry /\ flow'.id = flow.id /\ flow'.phase = flow.phase /\ flow'.sdk
    BY <1>2, OAuthTyped DEF OAuth!Register, Entry
  <2> QED
    BY <1>1, <1>2, <2>1, <2>2
    DEF BeginStep, Moves, EntryInv, EntryOf, Closed, Early, Past, OAuth!OAuthTypeOK
<1>3. CASE ~(flow.id = f /\ flow.phase = "Preparing")
  <2>1. Moves(f, "retire", begin[f].sdk) /\ flow' = flow
    BY <1>3, ToEffect DEF OAuth!Register, Points
  <2>3. EntryOf(f)'
    BY <1>1, <1>3, <2>1, OAuthTyped DEF Moves, Unentered, EntryInv, EntryOf, Past
  <2>4. (Closed(f) => Closed(f)') /\ (Early(f)' => Early(f))
    BY <1>1, <1>3, <2>1, OAuthTyped DEF Moves, Unentered, EntryInv, EntryOf, Closed, Early, Past
  <2> QED
    BY <1>1, <2>3, <2>4, <1>3, <2>1, OAuthTyped DEF BeginStep, Moves, Unentered, OAuth!OAuthTypeOK
<1> QED
  BY <1>2, <1>3

\* A begin that ends, or moves on with its entry as it is.
LEMMA PlainStep ==
    ASSUME OAuthInv, NEW f \in Flows, NEW p \in Points, Moves(f, p, begin[f].sdk),
           \/ /\ p \in {"retire", "done"} /\ begin[f].pc \in Past
              /\ flow' = flow \/ Unentered(f)
              /\ flow' = flow /\ flow.id = f => flow.sdk
           \/ /\ p \in {"wait", "claim"} /\ begin[f].pc \in Past \ {"complete"}
              /\ flow' = flow,
           UNCHANGED <<fence, admission, credential, lifecycle, cancel, change, replace,
                       handle, stale>>
    PROVE  BeginStep(f)
<1> USE DEF OAuthInv
<1>1. EntryOf(f)'
  BY OAuthTyped DEF Moves, Unentered, EntryInv, EntryOf, Past
<1>2. (Closed(f) => Closed(f)') /\ (Early(f)' => Early(f))
  BY OAuthTyped DEF Moves, Unentered, EntryInv, EntryOf, Closed, Early, Past
<1> QED
  BY <1>1, <1>2, OAuthTyped DEF BeginStep, Moves, Unentered, OAuth!OAuthTypeOK

LEMMA LaunchStep ==
    ASSUME OAuthInv, NEW f \in Flows, OAuth!Launch(f)
    PROVE  BeginStep(f)
<1> USE DEF OAuthInv
<1>1. /\ begin[f].pc = "launch"
      /\ UNCHANGED <<fence, admission, credential, lifecycle, cancel, change, replace, handle,
                     stale>>
      /\ flow.id = f => flow.sdk
  BY DEF OAuth!Launch, EntryInv, EntryOf
<1>2. CASE OAuth!To(f, "retire") /\ flow' = flow
  BY <1>1, <1>2, ToEffect, PlainStep DEF Points, Past
<1>3. CASE OAuth!To(f, "wait") /\ flow' = flow
  BY <1>1, <1>3, ToEffect, PlainStep DEF Points, Past
<1>4. CASE OAuth!To(f, "done") /\ flow' = OAuth!WithoutFlow(f)
  BY <1>1, <1>4, ToEffect, WithoutEffect, PlainStep DEF Points, Past
<1> QED
  BY <1>2, <1>3, <1>4 DEF OAuth!Launch

LEMMA WaitStep ==
    ASSUME OAuthInv, NEW f \in Flows, OAuth!WaitForCallback(f)
    PROVE  BeginStep(f)
<1> USE DEF OAuthInv
<1>1. /\ begin[f].pc = "wait"
      /\ UNCHANGED <<fence, admission, credential, lifecycle, cancel, change, replace, handle,
                     stale>>
      /\ flow.id = f => flow.sdk
  BY DEF OAuth!WaitForCallback, EntryInv, EntryOf
<1>2. CASE flow.id = f /\ flow.phase = "Preparing"
  <2>1. Moves(f, "callback", begin[f].sdk)
    BY <1>2, ToEffect DEF OAuth!WaitForCallback, Points
  <2>2. flow' \in Entry /\ flow'.id = flow.id /\ flow'.sdk = flow.sdk
    BY <1>2, OAuthTyped DEF OAuth!WaitForCallback, Entry
  <2>3. EntryOf(f)'
    BY <1>1, <1>2, <2>1, <2>2 DEF Moves, EntryInv, EntryOf, Past
  <2>4. (Closed(f) => Closed(f)') /\ (Early(f)' => Early(f))
    BY <1>1, <1>2, <2>1, <2>2 DEF Moves, Closed, Early, Past
  <2> QED
    BY <1>1, <1>2, <2>1, <2>2, <2>3, <2>4 DEF BeginStep, Moves, OAuth!OAuthTypeOK
<1>3. CASE ~(flow.id = f /\ flow.phase = "Preparing")
  <2>1. Moves(f, "retire", begin[f].sdk) /\ flow' = flow
    BY <1>3, ToEffect DEF OAuth!WaitForCallback, Points
  <2> QED
    BY <1>1, <2>1, PlainStep DEF Points, Past
<1> QED
  BY <1>2, <1>3

LEMMA AwaitStep ==
    ASSUME OAuthInv, NEW f \in Flows, OAuth!AwaitCallback(f)
    PROVE  BeginStep(f)
<1> USE DEF OAuthInv
<1>1. /\ begin[f].pc = "callback" /\ flow' = flow
      /\ UNCHANGED <<fence, admission, credential, lifecycle, cancel, change, replace, handle,
                     stale>>
      /\ flow.id = f => flow.sdk
  BY DEF OAuth!AwaitCallback, EntryInv, EntryOf
<1>2. CASE OAuth!To(f, "done")
  BY <1>1, <1>2, ToEffect, PlainStep DEF Points, Past
<1>3. CASE OAuth!To(f, "claim")
  BY <1>1, <1>3, ToEffect, PlainStep DEF Points, Past
<1> QED
  BY <1>2, <1>3 DEF OAuth!AwaitCallback

LEMMA ClaimStep ==
    ASSUME OAuthInv, NEW f \in Flows, OAuth!ClaimCallback(f)
    PROVE  BeginStep(f)
<1> USE DEF OAuthInv
<1>1. /\ begin[f].pc = "claim"
      /\ UNCHANGED <<fence, admission, credential, lifecycle, cancel, change, replace, handle,
                     stale>>
      /\ flow.id = f => flow.sdk
  BY DEF OAuth!ClaimCallback, EntryInv, EntryOf
<1>2. CASE flow.id = f /\ flow.phase = "WaitingForCallback"
  <2>1. Moves(f, "complete", begin[f].sdk)
    BY <1>2, ToEffect DEF OAuth!ClaimCallback, Points
  <2>2. Claimed
    BY <1>2, ClaimEffect DEF OAuth!ClaimCallback
  <2>3. EntryOf(f)'
    BY <1>1, <1>2, <2>1, <2>2 DEF Moves, Claimed, EntryInv, EntryOf, Past
  <2>4. (Closed(f) => Closed(f)') /\ (Early(f)' => Early(f))
    BY <1>1, <1>2, <2>1, <2>2 DEF Moves, Claimed, Closed, Early, Past
  <2> QED
    BY <1>1, <1>2, <2>1, <2>2, <2>3, <2>4 DEF BeginStep, Moves, Claimed, OAuth!OAuthTypeOK
<1>3. CASE ~(flow.id = f /\ flow.phase = "WaitingForCallback")
  <2>1. Moves(f, "done", begin[f].sdk) /\ flow' = flow
    BY <1>3, ToEffect DEF OAuth!ClaimCallback, Points
  <2> QED
    BY <1>1, <2>1, PlainStep DEF Points, Past
<1> QED
  BY <1>2, <1>3

\* Only a flow that is live stores a token, and it is not closed.
LEMMA CompleteStep ==
    ASSUME OAuthInv, NEW f \in Flows, OAuth!CompleteFlow(f)
    PROVE  BeginStep(f)
<1> USE DEF OAuthInv
<1>1. /\ begin[f].pc = "complete" /\ flow' = flow /\ flow \in Entry
      /\ UNCHANGED <<fence, admission, lifecycle, cancel, change, replace, handle, stale>>
      /\ flow.id = f => flow.sdk
  BY OAuthTyped DEF OAuth!CompleteFlow, EntryInv, EntryOf, Past
<1>2. PICK s \in SdkStates :
          /\ Moves(f, "remove", s)
          /\ \/ credential' = credential
             \/ credential' = f /\ begin[f].sdk = "live"
  BY ToEffect, EndEffect, OAuthTyped DEF OAuth!CompleteFlow, Points, SdkStates
<1>3. EntryOf(f)'
  BY <1>1, <1>2 DEF Moves, EntryInv, EntryOf, Past
<1>4. /\ Closed(f) => Closed(f)'
      /\ Early(f)' => Early(f)
      /\ begin[f].sdk = "live" => ~Closed(f)
  BY <1>1, <1>2 DEF Moves, Closed, Early, Past
<1> QED
  BY <1>1, <1>2, <1>3, <1>4 DEF BeginStep, Moves, OAuth!OAuthTypeOK

LEMMA RemoveStep ==
    ASSUME OAuthInv, NEW f \in Flows, OAuth!Retire(f) \/ OAuth!RemoveFlow(f)
    PROVE  BeginStep(f)
<1> USE DEF OAuthInv
<1>1. /\ begin[f].pc \in {"retire", "remove"} /\ flow' = OAuth!WithoutFlow(f)
      /\ begin' = [begin EXCEPT ![f].pc = "done", ![f].sdk = OAuth!Terminated(f)]
      /\ UNCHANGED <<fence, admission, credential, lifecycle, cancel, change, replace, handle,
                     stale>>
  BY DEF OAuth!Retire, OAuth!RemoveFlow
<1>2. Moves(f, "done", OAuth!Terminated(f)) /\ Unentered(f)
  BY <1>1, EndEffect, WithoutEffect, OAuthTyped DEF Points
<1>3. EntryOf(f)'
  BY <1>1, <1>2 DEF Moves, Unentered, EntryInv, EntryOf, Past
<1>4. (Closed(f) => Closed(f)') /\ (Early(f)' => Early(f))
  BY <1>1, <1>2 DEF Moves, Closed, Early, Past
<1> QED
  BY <1>1, <1>2, <1>3, <1>4, OAuthTyped DEF BeginStep, Moves, Unentered, OAuth!OAuthTypeOK


-----------------------------------------------------------------------------
\* The cancellations.  Whoever starts one closes the entry's way to a callback.
LEMMA CancelEntryStep ==
    ASSUME OAuthInv, NEW c \in OAuth!Cancellers, OAuth!CancelEntry(c),
           c = "change" => OAuth!Doing("cancel"), c = "replace" => replace = "cancel",
           UNCHANGED <<begin, admission, fence, lifecycle, change, replace, handle,
                       credential, stale>>
    PROVE  OAuthInv'
<1> USE DEF OAuthInv
<1>1. /\ Claimed /\ flow # OAuth!NoEntry /\ flow.id \in Flows
      /\ cancel[c].step = "idle"
  BY ClaimEffect DEF OAuth!CancelEntry, EntryInv
<1>2. /\ cancel' \in [OAuth!Cancellers -> [step : {"idle", "sdk", "remove", "done"},
                                           id : Flows \cup {NoFlow}, ok : BOOLEAN]]
      /\ \A d \in OAuth!Cancellers : d # c => cancel'[d] = cancel[d]
      /\ cancel'[c].id = flow.id
      /\ cancel'[c].step = IF flow.sdk THEN "sdk" ELSE "remove"
  BY OAuthTyped DEF OAuth!CancelEntry, OAuth!OAuthTypeOK, Entry
<1>3. OAuth!OAuthTypeOK'
  BY <1>1, <1>2 DEF OAuth!OAuthTypeOK, Claimed, Entry
<1>4. EntryInv'
  BY <1>1 DEF EntryInv, EntryOf, Claimed
<1>5. \A g \in Flows : (Closed(g) => Closed(g)') /\ (Early(g)' <=> Early(g))
  BY <1>1 DEF Closed, Early, Claimed
<1>6. CancelInv'
  <2>1. flow.sdk => ~Early(flow.id)'
    BY <1>1 DEF EntryInv, EntryOf, Claimed, Early, Past
  <2>2. ~flow.sdk => Closed(flow.id)'
    BY <1>1 DEF EntryInv, EntryOf, Claimed, Closed
  <2> QED
    BY <1>1, <1>2, <1>5, <2>1, <2>2 DEF CancelInv, Claimed
<1>7. ReplaceInv'
  BY <1>1, <1>2 DEF ReplaceInv, Alone, Claimed
<1>8. ChangeInv'
  BY <1>1, <1>2 DEF ChangeInv, Alone, Claimed, OAuth!Doing
<1>9. StaleInv' /\ OAuth!ClearedStaysCleared'
  BY <1>5 DEF StaleInv, OAuth!OAuthTypeOK, OAuth!ClearedStaysCleared
<1> QED
  BY <1>3, <1>4, <1>6, <1>7, <1>8, <1>9

\* The SDK's outcome closes the flow: it is past the point where it gets a live one.
LEMMA CancelSdkStep ==
    ASSUME OAuthInv, NEW c \in OAuth!Cancellers, OAuth!CancelSdkFlow(c)
    PROVE  OAuthInv'
<1> USE DEF OAuthInv
<1>0. PICK id \in Flows : id = cancel[c].id
  BY DEF OAuth!CancelSdkFlow, CancelInv
<1>1. /\ cancel[c].step = "sdk" /\ ~Early(id)
      /\ UNCHANGED <<flow, change, admission, fence, lifecycle, replace, handle, credential,
                     stale>>
  BY <1>0 DEF OAuth!CancelSdkFlow, CancelInv
<1>2. Moves(id, begin[id].pc, OAuth!Terminated(id))
  BY <1>0, OAuthTyped DEF OAuth!CancelSdkFlow, Moves, FlowTask
<1>3. /\ cancel' \in [OAuth!Cancellers -> [step : {"idle", "sdk", "remove", "done"},
                                           id : Flows \cup {NoFlow}, ok : BOOLEAN]]
      /\ \A d \in OAuth!Cancellers : d # c => cancel'[d] = cancel[d]
      /\ cancel'[c].id = id /\ cancel'[c].step = "remove"
  BY <1>0 DEF OAuth!CancelSdkFlow, OAuth!OAuthTypeOK
<1>4. OAuth!Terminated(id) # "live"
  BY DEF OAuth!Terminated
<1>5. OAuth!OAuthTypeOK'
  BY <1>1, <1>2, <1>3 DEF OAuth!OAuthTypeOK, Moves, FlowTask, Points, SdkStates
<1>6. EntryInv'
  BY <1>1, <1>2, <1>4 DEF EntryInv, EntryOf, Moves
<1>7. \A g \in Flows : (Closed(g) => Closed(g)') /\ (Early(g)' <=> Early(g))
  BY <1>1, <1>2, <1>4 DEF Closed, Early, Moves
<1>8. Closed(id)'
  <2>1. begin[id].pc \in Past \cup {"retire", "remove", "done"}
    BY <1>1, OAuthTyped DEF Early, Past, FlowTask, Points
  <2> QED
    BY <2>1, <1>1, <1>2, <1>4 DEF Closed, Moves
<1>9. CancelInv'
  BY <1>0, <1>1, <1>3, <1>7, <1>8 DEF CancelInv
<1>10. ReplaceInv'
  BY <1>0, <1>1, <1>3 DEF ReplaceInv, Alone
<1>11. ChangeInv'
  BY <1>0, <1>1, <1>3 DEF ChangeInv, Alone, OAuth!Doing
<1>12. StaleInv' /\ OAuth!ClearedStaysCleared'
  BY <1>1, <1>7 DEF StaleInv, OAuth!OAuthTypeOK, OAuth!ClearedStaysCleared
<1> QED
  BY <1>5, <1>6, <1>9, <1>10, <1>11, <1>12

LEMMA CancelRemoveStep ==
    ASSUME OAuthInv, NEW c \in OAuth!Cancellers, OAuth!CancelRemove(c)
    PROVE  OAuthInv'
<1> USE DEF OAuthInv
<1> DEFINE id == cancel[c].id
<1>1. /\ id \in Flows /\ cancel[c].step = "remove" /\ Closed(id)
      /\ UNCHANGED <<begin, change, admission, fence, lifecycle, replace, handle, credential,
                     stale>>
  BY DEF OAuth!CancelRemove, CancelInv
<1>2. Unentered(id)
  BY <1>1, WithoutEffect DEF OAuth!CancelRemove
<1>3. /\ cancel' \in [OAuth!Cancellers -> [step : {"idle", "sdk", "remove", "done"},
                                           id : Flows \cup {NoFlow}, ok : BOOLEAN]]
      /\ \A d \in OAuth!Cancellers : d # c => cancel'[d] = cancel[d]
      /\ cancel'[c].step = IF c = "user" THEN "idle" ELSE "done"
  BY DEF OAuth!CancelRemove, OAuth!OAuthTypeOK
<1>5. OAuth!OAuthTypeOK'
  BY <1>1, <1>2, <1>3 DEF OAuth!OAuthTypeOK, Unentered, Entry
<1>6. EntryInv'
  <2>1. flow' = OAuth!NoEntry \/ flow'.id \in Flows
    BY <1>1, <1>2 DEF EntryInv, Unentered
  <2>2. ASSUME NEW g \in Flows
        PROVE  EntryOf(g)'
    <3>1. EntryOf(g)
      BY DEF EntryInv
    <3>2. CASE flow.id = id
      BY <1>1, <1>2, <3>1, <3>2 DEF EntryOf, Unentered, Closed, Past
    <3>3. CASE flow.id # id
      BY <1>1, <1>2, <3>1, <3>3 DEF EntryOf, Unentered
    <3> QED
      BY <3>2, <3>3
  <2> QED
    BY <2>1, <2>2 DEF EntryInv
<1>7. \A g \in Flows : (Closed(g) => Closed(g)') /\ (Early(g)' <=> Early(g))
  BY <1>1, <1>2 DEF Closed, Early, Unentered
<1>9. CancelInv'
  <2>1. ASSUME NEW d \in OAuth!Cancellers, cancel'[d].step \in {"sdk", "remove"}
        PROVE  /\ cancel'[d] = cancel[d] /\ cancel[d].id \in Flows
               /\ flow'.id = cancel[d].id => flow'.phase = "Completing"
    BY <1>2, <1>3, <2>1 DEF CancelInv, Unentered
  <2> QED
    BY <1>7, <2>1 DEF CancelInv
<1>10. ReplaceInv'
  BY <1>1, <1>2, <1>3 DEF ReplaceInv, Alone, Unentered
<1>11. ChangeInv'
  BY <1>1, <1>2, <1>3 DEF ChangeInv, Alone, OAuth!Doing, Unentered
<1>12. StaleInv' /\ OAuth!ClearedStaysCleared'
  BY <1>1, <1>7 DEF StaleInv, OAuth!OAuthTypeOK, OAuth!ClearedStaysCleared
<1> QED
  BY <1>5, <1>6, <1>9, <1>10, <1>11, <1>12

-----------------------------------------------------------------------------
\* A change of the server keeps the entry, the flows and the cancellations; what it
\* leaves to show is that the blocks it holds are those of the step it is at.
LEMMA ChangeKeepsOAuth ==
    ASSUME OAuthInv,
           UNCHANGED <<begin, flow, cancel, replace, handle, credential, stale>>,
           admission' \in [open : BOOLEAN, blocks : 0..2], admission'.open = admission.open,
           fence' \in Flows \cup {"free", "change"},
           lifecycle' \in {"free", "change", "replace"},
           change' \in [kind : {"none", "clear", "identity", "remove", "mount"}, at : 0..15],
           ChangeInv'
    PROVE  OAuthInv'
<1> USE DEF OAuthInv
<1>1. OAuth!OAuthTypeOK'
  BY DEF OAuth!OAuthTypeOK
<1>2. EntryInv' /\ CancelInv' /\ ReplaceInv' /\ StaleInv' /\ OAuth!ClearedStaysCleared'
  BY DEF EntryInv, EntryOf, CancelInv, Early, Closed, ReplaceInv, Alone, StaleInv,
         OAuth!ClearedStaysCleared
<1> QED
  BY <1>1, <1>2

\* Where a change goes next.
LEMMA NextIs ==
    ASSUME OAuth!OAuthTypeOK, ChangeInv, change.kind # "none", change' = OAuth!Next1
    PROVE  /\ change' \in [kind : {"none", "clear", "identity", "remove", "mount"}, at : 0..15]
           /\ change.kind \in Kinds /\ change.at \in 1..LastOf(change.kind)
           /\ IF change.at = LastOf(change.kind) THEN change' = OAuth!NoChange
              ELSE /\ change'.kind = change.kind /\ change'.at = change.at + 1
                   /\ change'.at \in 1..LastOf(change.kind)
<1>1. /\ change.kind \in Kinds /\ change.at \in 1..LastOf(change.kind)
      /\ LastOf(change.kind) \in 1..15
  BY ChangeIsAt
<1>2. Len(OAuth!Steps(change.kind)) = LastOf(change.kind)
  BY <1>1, StepTable
<1>3. CASE change.at = LastOf(change.kind)
  BY <1>1, <1>2, <1>3 DEF OAuth!Next1
<1>4. CASE change.at # LastOf(change.kind)
  <2>1. change' = [change EXCEPT !.at = change.at + 1]
    BY <1>2, <1>4 DEF OAuth!Next1
  <2>2. change.at + 1 \in 1..LastOf(change.kind) /\ change.at + 1 \in 0..15
    BY <1>1, <1>4
  <2>3. /\ change'.kind = change.kind /\ change'.at = change.at + 1
        /\ change' \in [kind : {"none", "clear", "identity", "remove", "mount"}, at : 0..15]
    BY <2>1, <2>2 DEF OAuth!OAuthTypeOK
  <2> QED
    BY <1>1, <1>4, <2>2, <2>3
<1> QED
  BY <1>3, <1>4

LEMMA StartStep ==
    ASSUME OAuthInv, OAuth!StartChange
    PROVE  OAuthInv'
<1> USE DEF OAuthInv
<1>1. PICK kind \in Kinds : change' = [kind |-> kind, at |-> 1]
  BY DEF OAuth!StartChange, Kinds
<1>2. change = OAuth!NoChange
      /\ UNCHANGED <<begin, flow, admission, fence, lifecycle, cancel, replace, handle,
                     credential, stale>>
  BY DEF OAuth!StartChange
<1>3. admission.blocks = 0 /\ cancel["change"].step = "idle"
  BY <1>2 DEF ChangeInv, OAuth!Doing, BlocksOf
<1>4. change'.at \in 1..LastOf(kind) /\ BlocksOf(kind, 1) = 0
  BY <1>1 DEF Kinds, LastOf, BlocksOf
<1>5. ~OAuth!Doing("erase")'
  BY <1>1, <1>4, StepTable DEF OAuth!Doing
<1>6. ChangeInv'
  BY <1>1, <1>2, <1>3, <1>4, <1>5 DEF ChangeInv, Kinds
<1> QED
  BY <1>1, <1>2, <1>6, ChangeKeepsOAuth DEF OAuth!OAuthTypeOK, Kinds

\* A step that waits for nothing but a lock, or mounts.
LEMMA LockStep ==
    ASSUME OAuthInv, OAuth!ChangeLocks \/ OAuth!MountServer
    PROVE  OAuthInv'
<1> USE DEF OAuthInv
<1>1. /\ UNCHANGED <<begin, flow, admission, cancel, replace, handle, credential, stale>>
      /\ change' = OAuth!Next1 /\ change.kind # "none"
      /\ fence' \in {fence, "change", "free"} /\ lifecycle' \in {lifecycle, "change", "free"}
      /\ OAuth!Steps(change.kind)[change.at] \in {"lifecycle", "fence", "unlock", "mount"}
  BY DEF OAuth!ChangeLocks, OAuth!MountServer, OAuth!Doing
<1>2. /\ change' \in [kind : {"none", "clear", "identity", "remove", "mount"}, at : 0..15]
      /\ change.kind \in Kinds /\ change.at \in 1..LastOf(change.kind)
      /\ IF change.at = LastOf(change.kind) THEN change' = OAuth!NoChange
         ELSE /\ change'.kind = change.kind /\ change'.at = change.at + 1
              /\ change'.at \in 1..LastOf(change.kind)
  BY <1>1, NextIs
<1>3. \/ change.kind = "clear" /\ change.at \in {1, 2, 7}
      \/ change.kind = "remove" /\ change.at \in {6, 7, 13, 14}
      \/ change.kind = "mount" /\ change.at \in {1, 2, 4, 5}
  BY <1>1, <1>2, StepTable
<1>4. BlocksOf(change'.kind, change'.at) = BlocksOf(change.kind, change.at)
  BY <1>2, <1>3 DEF BlocksOf, LastOf
<1>5. ~OAuth!Doing("erase")'
  <2>1. CASE change.at = LastOf(change.kind)
    BY <1>2, <2>1 DEF OAuth!Doing
  <2>2. CASE change.at # LastOf(change.kind)
    BY <1>2, <1>3, <2>2, StepTable DEF OAuth!Doing
  <2> QED
    BY <2>1, <2>2
<1>6. cancel["change"].step = "idle"
  BY <1>1 DEF ChangeInv, OAuth!Doing
<1>7. ChangeInv'
  BY <1>1, <1>2, <1>4, <1>5, <1>6 DEF ChangeInv, Kinds, Alone
<1> QED
  BY <1>1, <1>2, <1>7, ChangeKeepsOAuth DEF OAuth!OAuthTypeOK

LEMMA BlockStep ==
    ASSUME OAuthInv, OAuth!ChangeBlocks
    PROVE  OAuthInv'
<1> USE DEF OAuthInv
<1>1. /\ UNCHANGED <<begin, flow, fence, lifecycle, cancel, replace, handle, credential, stale>>
      /\ change' = OAuth!Next1 /\ change.kind # "none"
      /\ OAuth!Steps(change.kind)[change.at] \in {"block", "unblock"}
  BY DEF OAuth!ChangeBlocks, OAuth!Doing
<1>2. /\ change' \in [kind : {"none", "clear", "identity", "remove", "mount"}, at : 0..15]
      /\ change.kind \in Kinds /\ change.at \in 1..LastOf(change.kind)
      /\ IF change.at = LastOf(change.kind) THEN change' = OAuth!NoChange
         ELSE /\ change'.kind = change.kind /\ change'.at = change.at + 1
              /\ change'.at \in 1..LastOf(change.kind)
  BY <1>1, NextIs
<1>3. admission.blocks = BlocksOf(change.kind, change.at)
  BY ChangeIsAt
<1>4. /\ admission'.open = admission.open
      /\ OAuth!Steps(change.kind)[change.at] = "block" => admission'.blocks = admission.blocks + 1
      /\ OAuth!Steps(change.kind)[change.at] = "unblock" =>
             admission'.blocks = admission.blocks - 1
      /\ admission' \in [open : BOOLEAN, blocks : {admission'.blocks}]
  BY DEF OAuth!ChangeBlocks, OAuth!Doing, OAuth!OAuthTypeOK
<1>5. admission'.blocks = BlocksOf(change'.kind, change'.at) /\ admission'.blocks \in 0..2
  <2>1. CASE OAuth!Steps(change.kind)[change.at] = "block"
    <3>1. \/ change.kind = "clear" /\ change.at = 3
          \/ change.kind = "identity" /\ change.at \in {1, 2}
          \/ change.kind = "remove" /\ change.at \in {1, 2, 8}
      BY <1>2, <2>1, StepTable
    <3> QED
      BY <1>2, <1>3, <1>4, <2>1, <3>1 DEF BlocksOf, LastOf
  <2>2. CASE OAuth!Steps(change.kind)[change.at] = "unblock"
    <3>1. \/ change.kind = "clear" /\ change.at = 6
          \/ change.kind = "identity" /\ change.at \in {5, 6}
          \/ change.kind = "remove" /\ change.at \in {5, 11, 15}
      BY <1>2, <2>2, StepTable
    <3> QED
      BY <1>2, <1>3, <1>4, <2>2, <3>1 DEF BlocksOf, LastOf
  <2> QED
    BY <1>1, <2>1, <2>2
<1>6. ~OAuth!Doing("erase")'
  <2>1. CASE change.at = LastOf(change.kind)
    BY <1>2, <2>1 DEF OAuth!Doing
  <2>2. CASE change.at # LastOf(change.kind)
    BY <1>1, <1>2, <2>2, StepTable DEF OAuth!Doing
  <2> QED
    BY <2>1, <2>2
<1>7. cancel["change"].step = "idle"
  BY <1>1 DEF ChangeInv, OAuth!Doing
<1>8. ChangeInv'
  BY <1>1, <1>2, <1>5, <1>6, <1>7 DEF ChangeInv, Kinds, Alone
<1> QED
  BY <1>1, <1>2, <1>4, <1>5, <1>8, ChangeKeepsOAuth DEF OAuth!OAuthTypeOK

LEMMA AbandonStep ==
    ASSUME OAuthInv, OAuth!Abandoned, cancel'["change"].step = "idle"
    PROVE  /\ ChangeInv'
           /\ change' = OAuth!NoChange
           /\ admission' \in [open : BOOLEAN, blocks : 0..2] /\ admission'.open = admission.open
           /\ fence' \in {fence, "free"} /\ lifecycle' \in {lifecycle, "free"}
  BY DEF OAuthInv, OAuth!OAuthTypeOK, OAuth!Abandoned, ChangeInv, Alone, OAuth!Doing, BlocksOf

\* A change that waited for a cancellation goes on when the map is empty, or gives up.
LEMMA ChangeCancelsStep ==
    ASSUME OAuthInv, OAuth!ChangeCancels
    PROVE  OAuthInv'
<1> USE DEF OAuthInv
<1>1. /\ UNCHANGED <<begin, replace, handle, credential, stale>> /\ OAuth!Doing("cancel")
      /\ change.kind # "none" /\ OAuth!Steps(change.kind)[change.at] = "cancel"
  BY DEF OAuth!ChangeCancels, OAuth!Doing
<1>2. CASE OAuth!CancelEntry("change") /\ UNCHANGED <<change, admission, fence, lifecycle>>
  BY <1>1, <1>2, CancelEntryStep
<1>3. CASE /\ flow' = flow /\ cancel["change"].step \in {"idle", "done"}
           /\ cancel["change"].step = "done" \/ flow = OAuth!NoEntry
           /\ cancel' = [cancel EXCEPT !["change"] = OAuth!NoCancel]
           /\ \/ change' = OAuth!Next1 /\ UNCHANGED <<admission, fence, lifecycle>>
              \/ OAuth!Abandoned
  <2>1. /\ cancel' \in [OAuth!Cancellers -> [step : {"idle", "sdk", "remove", "done"},
                                             id : Flows \cup {NoFlow}, ok : BOOLEAN]]
        /\ \A d \in OAuth!Cancellers : d # "change" => cancel'[d] = cancel[d]
        /\ cancel'["change"].step = "idle"
    BY <1>3 DEF OAuth!OAuthTypeOK
  <2>2. EntryInv' /\ CancelInv' /\ ReplaceInv'
    <3>1. EntryInv'
      BY <1>1, <1>3 DEF EntryInv, EntryOf
    <3>2. CancelInv'
      BY <1>1, <1>3, <2>1 DEF CancelInv, Early, Closed
    <3>3. admission'.open = admission.open
      BY <1>3, <2>1, AbandonStep
    <3>4. ReplaceInv'
      BY <1>1, <1>3, <2>1, <3>3 DEF ReplaceInv, Alone
    <3> QED
      BY <3>1, <3>2, <3>4
  <2>3. StaleInv' /\ OAuth!ClearedStaysCleared'
    BY <1>1, <1>3 DEF StaleInv, Closed, OAuth!ClearedStaysCleared
  <2>4. CASE OAuth!Abandoned
    <3>1. OAuth!OAuthTypeOK'
      BY <1>1, <1>3, <2>1, <2>4, AbandonStep DEF OAuth!OAuthTypeOK
    <3> QED
      BY <2>1, <2>2, <2>3, <2>4, <3>1, AbandonStep
  <2>5. CASE change' = OAuth!Next1 /\ UNCHANGED <<admission, fence, lifecycle>>
    <3>1. /\ change' \in [kind : {"none", "clear", "identity", "remove", "mount"}, at : 0..15]
          /\ change.kind \in Kinds /\ change.at \in 1..LastOf(change.kind)
          /\ IF change.at = LastOf(change.kind) THEN change' = OAuth!NoChange
             ELSE /\ change'.kind = change.kind /\ change'.at = change.at + 1
                  /\ change'.at \in 1..LastOf(change.kind)
      BY <1>1, <2>5, NextIs
    <3>2. \/ change.kind = "clear" /\ change.at = 4
          \/ change.kind = "identity" /\ change.at = 3
          \/ change.kind = "remove" /\ change.at \in {3, 9, 12}
          \/ change.kind = "mount" /\ change.at = 3
      BY <1>1, <3>1, StepTable
    <3>3. /\ BlocksOf(change'.kind, change'.at) = BlocksOf(change.kind, change.at)
          /\ change.kind # "mount" => BlocksOf(change.kind, change.at) > 0
      BY <3>1, <3>2 DEF BlocksOf, LastOf
    <3>4. OAuth!Doing("erase")' => flow = OAuth!NoEntry
      <4>1. CASE change.kind = "mount"
        BY <3>1, <3>2, <4>1, StepTable DEF OAuth!Doing, LastOf
      <4>2. CASE change.kind # "mount"
        BY <1>3, <3>3, <4>2, ChangeIsAt DEF ChangeInv, Alone
      <4> QED
        BY <4>1, <4>2
    <3>5. ChangeInv'
      BY <1>3, <2>1, <2>5, <3>1, <3>3, <3>4 DEF ChangeInv, Kinds, Alone
    <3>6. OAuth!OAuthTypeOK'
      BY <1>1, <1>3, <2>1, <2>5, <3>1 DEF OAuth!OAuthTypeOK
    <3> QED
      BY <2>2, <2>3, <3>5, <3>6
  <2> HIDE DEF OAuthInv
  <2> QED
    BY <1>3, <2>4, <2>5
<1>4. CASE /\ flow = OAuth!NoEntry /\ cancel["change"] = OAuth!NoCancel
           /\ change' = OAuth!Next1 /\ UNCHANGED <<flow, cancel, admission, fence, lifecycle>>
  <2>1. cancel' = [cancel EXCEPT !["change"] = OAuth!NoCancel]
    BY <1>4 DEF OAuth!OAuthTypeOK
  <2>2. flow' = flow /\ cancel["change"].step = "idle"
    BY <1>4
  <2> HIDE DEF OAuthInv
  <2> QED
    BY <1>3, <1>4, <2>1, <2>2
<1>5. CASE /\ cancel["change"].step = "done"
           /\ cancel' = [cancel EXCEPT !["change"] = OAuth!NoCancel]
           /\ IF cancel["change"].ok
              THEN change' = OAuth!Next1 /\ UNCHANGED <<admission, fence, lifecycle>>
              ELSE OAuth!Abandoned
           /\ UNCHANGED flow
  BY <1>3, <1>5
<1> QED
  BY <1>2, <1>4, <1>5 DEF OAuth!ChangeCancels

\* When the credential is erased nothing is in the map, so every flow that was admitted
\* has lost its entry.
LEMMA EraseStep ==
    ASSUME OAuthInv, OAuth!EraseCredential
    PROVE  OAuthInv'
<1> USE DEF OAuthInv
<1>1. /\ UNCHANGED <<begin, flow, cancel, replace, handle>> /\ OAuth!Doing("erase")
      /\ change.kind # "none" /\ OAuth!Steps(change.kind)[change.at] = "erase"
      /\ flow = OAuth!NoEntry
  BY DEF OAuth!EraseCredential, OAuth!Doing, ChangeInv
<1>2. cancel["change"].step = "idle"
  <2>1. ~OAuth!Doing("cancel")
    BY <1>1 DEF OAuth!Doing
  <2> QED
    BY <2>1 DEF ChangeInv
<1>3. CASE OAuth!Abandoned /\ UNCHANGED <<credential, stale>>
  BY <1>1, <1>2, <1>3, AbandonStep, ChangeKeepsOAuth DEF OAuth!OAuthTypeOK
<1>4. CASE /\ credential' = NoFlow
           /\ stale' = stale \cup {f \in Flows : begin[f].pc \notin {"idle", "reserve"}}
           /\ change' = OAuth!Next1 /\ UNCHANGED <<admission, fence, lifecycle>>
  <2>1. /\ change' \in [kind : {"none", "clear", "identity", "remove", "mount"}, at : 0..15]
        /\ change.kind \in Kinds /\ change.at \in 1..LastOf(change.kind)
        /\ IF change.at = LastOf(change.kind) THEN change' = OAuth!NoChange
           ELSE /\ change'.kind = change.kind /\ change'.at = change.at + 1
                /\ change'.at \in 1..LastOf(change.kind)
    BY <1>1, <1>4, NextIs
  <2>2. \/ change.kind = "clear" /\ change.at = 5
        \/ change.kind = "identity" /\ change.at = 4
        \/ change.kind = "remove" /\ change.at \in {4, 10}
    BY <1>1, <2>1, StepTable
  <2>3. BlocksOf(change'.kind, change'.at) = BlocksOf(change.kind, change.at)
    BY <2>1, <2>2 DEF BlocksOf, LastOf
  <2>4. ChangeInv'
    BY <1>1, <1>2, <1>4, <2>1, <2>3 DEF ChangeInv, Kinds, Alone
  <2>5. OAuth!OAuthTypeOK'
    BY <1>1, <1>4, <2>1 DEF OAuth!OAuthTypeOK
  <2>6. EntryInv' /\ CancelInv' /\ ReplaceInv'
    BY <1>1, <1>4 DEF EntryInv, EntryOf, CancelInv, Early, Closed, ReplaceInv, Alone
  <2>7. StaleInv'
    <3>1. ASSUME NEW f \in Flows, begin[f].pc \notin {"idle", "reserve"}
          PROVE  Closed(f)
      <4>1. begin[f].pc \in Points /\ EntryOf(f) /\ flow.id # f
        BY <1>1, OAuthTyped DEF FlowTask, EntryInv
      <4> QED
        BY <3>1, <4>1 DEF EntryOf, Closed, Points, Past
    <3>2. \A f \in stale : Closed(f)
      BY DEF StaleInv
    <3>3. \A f \in stale' : Closed(f)
      BY <1>4, <3>1, <3>2
    <3> QED
      BY <1>1, <3>3 DEF StaleInv, Closed
  <2>8. OAuth!ClearedStaysCleared'
    BY <1>4 DEF OAuth!OAuthTypeOK, OAuth!ClearedStaysCleared
  <2> QED
    BY <2>4, <2>5, <2>6, <2>7, <2>8
<1> QED
  BY <1>3, <1>4 DEF OAuth!EraseCredential

-----------------------------------------------------------------------------
\* The replacement of the SDK handle.
LEMMA ReplaceStep ==
    ASSUME OAuthInv, OAuth!CloseAdmission \/ OAuth!SwapHandle \/ OAuth!Reopen
    PROVE  OAuthInv'
<1> USE DEF OAuthInv
<1>1. /\ UNCHANGED <<begin, flow, fence, cancel, change, credential, stale>>
      /\ admission' \in [open : BOOLEAN, blocks : 0..2] /\ admission'.blocks = admission.blocks
      /\ handle' \in 0..(MaxHandles + 1)
      /\ handle' = handle \/ flow = OAuth!NoEntry
  <2>1. CASE OAuth!CloseAdmission
    BY <2>1 DEF OAuth!CloseAdmission, OAuth!OAuthTypeOK
  <2>2. CASE OAuth!SwapHandle
    BY <2>2 DEF ReplaceInv, OAuth!SwapHandle, OAuth!OAuthTypeOK
  <2>3. CASE OAuth!Reopen
    BY <2>3 DEF OAuth!Reopen, OAuth!OAuthTypeOK
  <2> QED
    BY <2>1, <2>2, <2>3
<1>2. OAuth!OAuthTypeOK'
  BY <1>1 DEF OAuth!OAuthTypeOK, OAuth!CloseAdmission, OAuth!SwapHandle, OAuth!Reopen
<1>3. EntryInv'
  BY <1>1 DEF EntryInv, EntryOf
<1>4. CancelInv' /\ ChangeInv' /\ StaleInv' /\ OAuth!ClearedStaysCleared'
  BY <1>1 DEF CancelInv, Early, Closed, ChangeInv, Alone, OAuth!Doing, StaleInv,
              OAuth!ClearedStaysCleared
<1>5. ReplaceInv'
  <2>1. CASE OAuth!CloseAdmission
    BY <2>1 DEF ReplaceInv, Alone, OAuth!CloseAdmission, OAuth!OAuthTypeOK
  <2>2. CASE OAuth!SwapHandle
    BY <2>2 DEF ReplaceInv, Alone, OAuth!SwapHandle, OAuth!OAuthTypeOK
  <2>3. CASE OAuth!Reopen
    BY <2>3 DEF ReplaceInv, Alone, OAuth!Reopen, OAuth!OAuthTypeOK
  <2> QED
    BY <2>1, <2>2, <2>3
<1> QED
  BY <1>2, <1>3, <1>4, <1>5

LEMMA CancelAllStep ==
    ASSUME OAuthInv, OAuth!CancelAll
    PROVE  OAuthInv'
<1> USE DEF OAuthInv
<1>1. /\ UNCHANGED <<begin, admission, fence, lifecycle, change, handle, credential, stale>>
      /\ replace = "cancel"
  BY DEF OAuth!CancelAll
<1>2. CASE OAuth!CancelEntry("replace") /\ UNCHANGED replace
  BY <1>1, <1>2, CancelEntryStep
<1>3. CASE /\ replace' = "swap" /\ flow = OAuth!NoEntry /\ flow' = flow
           /\ cancel' = [cancel EXCEPT !["replace"] = OAuth!NoCancel]
  <2>1. /\ cancel' \in [OAuth!Cancellers -> [step : {"idle", "sdk", "remove", "done"},
                                             id : Flows \cup {NoFlow}, ok : BOOLEAN]]
        /\ \A d \in OAuth!Cancellers : d # "replace" => cancel'[d] = cancel[d]
        /\ cancel'["replace"].step = "idle"
    BY <1>3 DEF OAuth!OAuthTypeOK
  <2>2. OAuth!OAuthTypeOK'
    BY <1>1, <1>3, <2>1 DEF OAuth!OAuthTypeOK
  <2>3. EntryInv' /\ StaleInv' /\ OAuth!ClearedStaysCleared'
    BY <1>1, <1>3 DEF EntryInv, EntryOf, StaleInv, Closed, OAuth!ClearedStaysCleared
  <2>4. CancelInv'
    BY <1>1, <1>3, <2>1 DEF CancelInv, Early, Closed
  <2>5. ReplaceInv'
    BY <1>1, <1>3, <2>1 DEF ReplaceInv, Alone
  <2>6. ChangeInv'
    BY <1>1, <1>3, <2>1 DEF ChangeInv, Alone, OAuth!Doing
  <2> QED
    BY <2>2, <2>3, <2>4, <2>5, <2>6
<1>4. CASE /\ flow = OAuth!NoEntry /\ cancel["replace"] = OAuth!NoCancel
           /\ replace' = "swap" /\ UNCHANGED <<flow, cancel>>
  <2>1. cancel' = [cancel EXCEPT !["replace"] = OAuth!NoCancel]
    BY <1>4 DEF OAuth!OAuthTypeOK
  <2> QED
    BY <1>3, <1>4, <2>1
<1>5. CASE /\ cancel["replace"].step = "done"
           /\ cancel' = [cancel EXCEPT !["replace"] = OAuth!NoCancel]
           /\ flow' = OAuth!NoEntry /\ replace' = "swap"
  <2>1. flow = OAuth!NoEntry
    BY <1>5 DEF ReplaceInv, Alone
  <2> QED
    BY <1>3, <1>5, <2>1
<1> QED
  BY <1>2, <1>4, <1>5 DEF OAuth!CancelAll

-----------------------------------------------------------------------------
LEMMA OAuthStarts == OAuth!OAuthInit => OAuthInv
<1> SUFFICES ASSUME OAuth!OAuthInit PROVE OAuthInv
  OBVIOUS
<1> USE DEF OAuth!OAuthInit
<1>1. OAuth!OAuthTypeOK
  BY DEF OAuth!OAuthTypeOK
<1>2. EntryInv /\ CancelInv /\ StaleInv /\ OAuth!ClearedStaysCleared
  BY DEF EntryInv, EntryOf, CancelInv, StaleInv, OAuth!ClearedStaysCleared
<1>3. ReplaceInv /\ ChangeInv
  BY DEF ReplaceInv, Alone, ChangeInv, OAuth!Doing, BlocksOf
<1> QED
  BY <1>1, <1>2, <1>3 DEF OAuthInv

LEMMA OAuthKeeps == OAuthInv /\ OAuth!OAuthNext => OAuthInv'
<1> SUFFICES ASSUME OAuthInv, OAuth!OAuthNext PROVE OAuthInv'
  OBVIOUS
<1>1. ASSUME NEW f \in Flows,
             \/ OAuth!WaitForFence(f) \/ OAuth!Reserve(f) \/ OAuth!CreateFlow(f)
             \/ OAuth!Register(f) \/ OAuth!Launch(f) \/ OAuth!WaitForCallback(f)
             \/ OAuth!Retire(f) \/ OAuth!AwaitCallback(f) \/ OAuth!ClaimCallback(f)
             \/ OAuth!CompleteFlow(f) \/ OAuth!RemoveFlow(f)
      PROVE  OAuthInv'
  BY <1>1, BeginKeepsOAuth, FenceStep, ReserveStep, CreateStep, RegisterStep, LaunchStep,
     WaitStep, AwaitStep, ClaimStep, CompleteStep, RemoveStep
<1>2. CASE OAuth!CancelUser
  BY <1>2, CancelEntryStep DEF OAuth!CancelUser
<1>3. ASSUME NEW c \in OAuth!Cancellers, OAuth!CancelSdkFlow(c) \/ OAuth!CancelRemove(c)
      PROVE  OAuthInv'
  BY <1>3, CancelSdkStep, CancelRemoveStep
<1>4. CASE OAuth!StartChange \/ OAuth!ChangeLocks \/ OAuth!ChangeBlocks
           \/ OAuth!ChangeCancels \/ OAuth!EraseCredential \/ OAuth!MountServer
  BY <1>4, StartStep, LockStep, BlockStep, ChangeCancelsStep, EraseStep
<1>5. CASE OAuth!CloseAdmission \/ OAuth!CancelAll \/ OAuth!SwapHandle \/ OAuth!Reopen
  BY <1>5, ReplaceStep, CancelAllStep
<1> QED
  BY <1>1, <1>2, <1>3, <1>4, <1>5 DEF OAuth!OAuthNext

LEMMA OAuthRests == OAuthInv /\ UNCHANGED OAuth!oauthVars => OAuthInv'
<1> SUFFICES ASSUME OAuthInv, UNCHANGED OAuth!oauthVars PROVE OAuthInv'
  OBVIOUS
<1> USE DEF OAuthInv, OAuth!oauthVars
<1>1. OAuth!OAuthTypeOK'
  BY DEF OAuth!OAuthTypeOK
<1>2. EntryInv' /\ CancelInv' /\ StaleInv' /\ OAuth!ClearedStaysCleared'
  BY DEF EntryInv, EntryOf, CancelInv, Early, Closed, StaleInv, OAuth!ClearedStaysCleared
<1>3. ReplaceInv' /\ ChangeInv'
  BY DEF ReplaceInv, Alone, ChangeInv, OAuth!Doing
<1> QED
  BY <1>1, <1>2, <1>3

HIDE ServicesAssumption
    DEF OAuth!OAuthAssumption, OAuth!BeginIs, OAuth!Current, OAuth!Interrupted,
        OAuth!others, OAuth!unmoved, OAuth!NoEntry, OAuth!NoCancel, OAuth!NoChange,
        OAuth!Cancellers, OAuth!Admitted

-----------------------------------------------------------------------------
(* Marketplace. *)

MarketSteps(name) ==
    CASE name = "none" -> {"none"}
      [] name = "add" -> {"verify", "cleanUp"}
      [] name = "remove" -> {"remove"}
      [] name = "uninstall" -> {"cancel", "erase", "uninstall"}
      [] name = "removeServer" -> {"cancel", "erase", "unmount", "persist"}
MarketNames == {"none", "add", "remove", "uninstall", "removeServer"}

\* Somebody owns the server, or the handle was left with it.
Owner == userServer \/ installed # {} \/ leftBehind

\* A command that takes the last owner away has ended the flow and then the sign-in, or
\* knows of another owner; nobody begins a flow meanwhile.
UninstallInv ==
    marketOp.name = "uninstall" =>
        /\ marketOp.step # "uninstall" => admissionHeld
        /\ marketOp.step = "erase" => ~authorizing
        /\ marketOp.step = "uninstall" /\ admissionHeld => ~authorizing /\ ~signIn
        /\ ~admissionHeld => userServer \/ installed \ marketOp.plugins # {}
RemoveServerInv ==
    marketOp.name = "removeServer" =>
        /\ admissionHeld
        /\ marketOp.step \in {"erase", "unmount"} => ~authorizing
        /\ marketOp.step = "unmount" => ~signIn
        /\ marketOp.step = "persist" => onHandle # "none" \/ (~signIn /\ ~authorizing)

\* While a Marketplace is added or removed, plugins come from a rebuild only.
CatalogInv ==
    marketOp.name \in {"add", "remove"} \/ catalog = "absent" => installed = {} \/ crossed

CommandOK ==
    /\ marketOp.name \in MarketNames /\ marketOp.step \in MarketSteps(marketOp.name)
    /\ marketOp.plugins \subseteq Plugins /\ (marketOp.name = "none" => marketOp.plugins = {})
    /\ marketOp = [name |-> marketOp.name, step |-> marketOp.step, plugins |-> marketOp.plugins]

MarketInv ==
    /\ Market!MarketTypeOK
    /\ CommandOK
    /\ onHandle # "none" \/ authorizing \/ signIn => Owner
    /\ UninstallInv /\ RemoveServerInv /\ CatalogInv

USE DEF Market!ledger, Market!server, Market!authorization, Market!ghosts

\* What a step does to the command.
Becomes(name, step, plugins) ==
    marketOp'.name = name /\ marketOp'.step = step /\ marketOp'.plugins = plugins

LEMMA MarketOpEffects ==
    ASSUME CommandOK
    PROVE  /\ \A step \in MarketSteps(marketOp.name) : Market!To(step) =>
                  CommandOK' /\ Becomes(marketOp.name, step, marketOp.plugins)
           /\ \A name \in MarketNames \ {"none"}, plugins \in SUBSET Plugins :
                  \A step \in MarketSteps(name) : Market!Begin(name, step, plugins) =>
                      CommandOK' /\ marketOp.name = "none" /\ Becomes(name, step, plugins)
           /\ Market!End => CommandOK' /\ Becomes("none", "none", {}) /\ admissionHeld' = FALSE
           /\ marketOp = Market!Idle <=> marketOp.name = "none"
           /\ marketOp' = marketOp =>
                  CommandOK' /\ Becomes(marketOp.name, marketOp.step, marketOp.plugins)
<1> USE DEF CommandOK, Becomes
<1>1. ASSUME NEW step \in MarketSteps(marketOp.name), Market!To(step)
      PROVE  CommandOK' /\ Becomes(marketOp.name, step, marketOp.plugins)
  <2>1. marketOp' = [name |-> marketOp.name, step |-> step, plugins |-> marketOp.plugins]
    BY <1>1 DEF Market!To
  <2> QED
    BY <2>1 DEF MarketSteps, MarketNames
<1>2. ASSUME NEW name \in MarketNames \ {"none"}, NEW plugins \in SUBSET Plugins,
             NEW step \in MarketSteps(name), Market!Begin(name, step, plugins)
      PROVE  CommandOK' /\ marketOp.name = "none" /\ Becomes(name, step, plugins)
  BY <1>2 DEF Market!Begin, Market!Idle
<1>3. ASSUME Market!End
      PROVE  CommandOK' /\ Becomes("none", "none", {}) /\ admissionHeld' = FALSE
  BY <1>3 DEF Market!End, Market!Idle, MarketNames, MarketSteps
<1>4. marketOp = Market!Idle <=> marketOp.name = "none"
  BY DEF Market!Idle, MarketSteps
<1> QED
  BY <1>1, <1>2, <1>3, <1>4

LEMMA MarketCatalogSteps ==
    ASSUME MarketInv,
           \/ Market!AddMarketplace \/ Market!VerifyAdded \/ Market!CleanUpRejected
           \/ Market!RefreshMarketplace \/ Market!BeginRemoveMarketplace
           \/ Market!RemoveMarketplace \/ Market!RebuildMarketplace \/ Market!EndRebuild
    PROVE  MarketInv'
<1> USE MarketOpEffects
    DEF MarketInv, Market!MarketTypeOK, Owner, UninstallInv, RemoveServerInv, CatalogInv,
        Becomes, MarketNames, MarketSteps
<1>1. CASE Market!AddMarketplace
  BY <1>1 DEF Market!AddMarketplace
<1>2. CASE Market!VerifyAdded
  BY <1>2 DEF Market!VerifyAdded, Market!At
<1>3. CASE Market!CleanUpRejected
  BY <1>3 DEF Market!CleanUpRejected, Market!At
<1>4. CASE Market!RefreshMarketplace
  BY <1>4 DEF Market!RefreshMarketplace
<1>5. CASE Market!BeginRemoveMarketplace
  BY <1>5 DEF Market!BeginRemoveMarketplace
<1>6. CASE Market!RemoveMarketplace
  BY <1>6 DEF Market!RemoveMarketplace, Market!At
<1>7. CASE Market!RebuildMarketplace
  BY <1>7 DEF Market!RebuildMarketplace
<1>8. CASE Market!EndRebuild
  BY <1>8 DEF Market!EndRebuild
<1> QED
  BY <1>1, <1>2, <1>3, <1>4, <1>5, <1>6, <1>7, <1>8

LEMMA MarketPluginSteps ==
    ASSUME MarketInv, NEW p \in Plugins,
           \/ Market!InstallPlugin(p) \/ Market!EnablePlugin(p) \/ Market!DisablePlugin(p)
           \/ Market!BeginUninstall(p) \/ Market!RebuildPlugin(p)
    PROVE  MarketInv'
<1> USE MarketOpEffects
    DEF MarketInv, Market!MarketTypeOK, Owner, UninstallInv, RemoveServerInv, CatalogInv,
        Becomes, MarketNames, MarketSteps
<1>0. authorizing \in BOOLEAN /\ signIn \in BOOLEAN
  OBVIOUS
<1>1. CASE Market!InstallPlugin(p)
  BY <1>1 DEF Market!InstallPlugin
<1>2. CASE Market!EnablePlugin(p)
  BY <1>2 DEF Market!EnablePlugin
<1>3. CASE Market!DisablePlugin(p)
  <2>1. /\ UNCHANGED <<catalog, installed, userServer, signIn, admissionHeld, marketOp,
                       rebuilding,
                       crossed, leftBehind>>
        /\ marketOp = Market!Idle /\ active' \subseteq installed
        /\ onHandle' \in {onHandle, "user", "none"}
        /\ onHandle' # "none" => onHandle # "none"
    BY <1>3 DEF Market!DisablePlugin, Market!Released, Market!Unmounted
  <2>7. authorizing' = authorizing \/ authorizing' = FALSE
    BY <1>3 DEF Market!DisablePlugin, Market!Released, Market!Unmounted
  <2>6. authorizing' \in BOOLEAN /\ (authorizing' => authorizing)
    <3>1. authorizing' \in BOOLEAN
      BY <1>0, <2>7
    <3>2. authorizing' => authorizing
      BY <1>0, <2>7
    <3> QED
      BY <3>1, <3>2
  <2> QED
    BY <2>1, <2>6
<1>4. CASE Market!BeginUninstall(p)
  <2>1. /\ UNCHANGED <<catalog, installed, active, onHandle, userServer, signIn, authorizing,
                       rebuilding, crossed, leftBehind>>
        /\ p \in installed /\ admissionHeld' = (~userServer /\ installed = {p})
        /\ Market!Begin("uninstall", IF ~userServer /\ installed = {p} THEN "cancel"
                                     ELSE "uninstall", {p})
    BY <1>4 DEF Market!BeginUninstall
  <2>2. /\ CommandOK' /\ marketOp.name = "none"
        /\ Becomes("uninstall", IF ~userServer /\ installed = {p} THEN "cancel"
                                ELSE "uninstall", {p})
    BY <2>1
  <2>3. installed \ {p} = {} => installed = {p}
    BY <2>1
  <2> HIDE DEF MarketSteps, MarketNames
  <2>4. UninstallInv' /\ RemoveServerInv' /\ CatalogInv'
    BY <2>1, <2>2, <2>3
  <2>5. Market!MarketTypeOK' /\ (onHandle' # "none" \/ authorizing' \/ signIn' => Owner')
    BY <2>1, <2>2
  <2> QED
    BY <2>2, <2>4, <2>5
<1>5. CASE Market!RebuildPlugin(p)
  <2>1. /\ UNCHANGED <<catalog, onHandle, userServer, signIn, authorizing, admissionHeld,
                       marketOp, rebuilding, leftBehind>>
        /\ catalog # "absent" /\ installed' = installed \cup {p}
        /\ active' \in {active, active \cup {p}}
        /\ crossed' = (crossed \/ marketOp # Market!Idle)
    BY <1>5 DEF Market!RebuildPlugin
  <2>2. CommandOK' /\ Becomes(marketOp.name, marketOp.step, marketOp.plugins)
    BY <2>1
  <2>3. crossed' \in BOOLEAN /\ (crossed \/ marketOp.name # "none" => crossed')
    BY <2>1
  <2> HIDE DEF MarketSteps, MarketNames
  <2>4. UninstallInv' /\ RemoveServerInv' /\ CatalogInv'
    BY <2>1, <2>2, <2>3
  <2>5. Market!MarketTypeOK' /\ (onHandle' # "none" \/ authorizing' \/ signIn' => Owner')
    BY <2>1, <2>2, <2>3
  <2> QED
    BY <2>2, <2>4, <2>5
<1> QED
  BY <1>1, <1>2, <1>3, <1>4, <1>5

LEMMA MarketCleanupSteps ==
    ASSUME MarketInv,
           \/ Market!CancelAuthorization \/ Market!EraseSignIn \/ Market!UninstallPlugin
           \/ Market!UnmountServer \/ Market!PersistRemoval
    PROVE  MarketInv'
<1> USE MarketOpEffects
    DEF MarketInv, Market!MarketTypeOK, Owner, UninstallInv, RemoveServerInv, CatalogInv,
        Becomes, MarketNames, MarketSteps
<1>0. authorizing \in BOOLEAN /\ signIn \in BOOLEAN
  OBVIOUS
<1>1. CASE Market!CancelAuthorization
  <2>1. /\ UNCHANGED <<catalog, installed, active, onHandle, userServer, signIn, rebuilding,
                       crossed, leftBehind>>
        /\ marketOp.step = "cancel"
        /\ \/ authorizing' = FALSE /\ Market!To("erase") /\ admissionHeld' = admissionHeld
           \/ Market!End
    BY <1>1 DEF Market!CancelAuthorization
  <2>7. authorizing' = authorizing \/ authorizing' = FALSE
    BY <1>1 DEF Market!CancelAuthorization
  <2>6. authorizing' \in BOOLEAN /\ (authorizing' => authorizing)
    <3>1. authorizing' \in BOOLEAN
      BY <1>0, <2>7
    <3>2. authorizing' => authorizing
      BY <1>0, <2>7
    <3> QED
      BY <3>1, <3>2
  <2>2. marketOp.name \in {"uninstall", "removeServer"}
    BY <2>1 DEF CommandOK
  <2>3. /\ CommandOK'
        /\ \/ /\ Becomes(marketOp.name, "erase", marketOp.plugins)
              /\ authorizing' = FALSE /\ admissionHeld' = admissionHeld
           \/ Becomes("none", "none", {}) /\ admissionHeld' = FALSE
    BY <2>1, <2>2
  <2> HIDE DEF MarketSteps, MarketNames
  <2>4. UninstallInv' /\ RemoveServerInv' /\ CatalogInv'
    BY <2>1, <2>2, <2>3, <2>6
  <2>5. Market!MarketTypeOK' /\ (onHandle' # "none" \/ authorizing' \/ signIn' => Owner')
    BY <2>1, <2>2, <2>3, <2>6
  <2> QED
    BY <2>3, <2>4, <2>5
<1>2. CASE Market!EraseSignIn
  <2>1. /\ UNCHANGED <<catalog, installed, active, onHandle, userServer, authorizing, rebuilding,
                       crossed, leftBehind>>
        /\ marketOp.step = "erase"
        /\ \/ /\ signIn' = FALSE /\ admissionHeld' = admissionHeld
              /\ Market!To(IF marketOp.name = "uninstall" THEN "uninstall" ELSE "unmount")
           \/ Market!End
    BY <1>2 DEF Market!EraseSignIn
  <2>7. signIn' = signIn \/ signIn' = FALSE
    BY <1>2 DEF Market!EraseSignIn
  <2>6. signIn' \in BOOLEAN /\ (signIn' => signIn)
    <3>1. signIn' \in BOOLEAN
      BY <1>0, <2>7
    <3>2. signIn' => signIn
      BY <1>0, <2>7
    <3> QED
      BY <3>1, <3>2
  <2>2. marketOp.name \in {"uninstall", "removeServer"}
    BY <2>1 DEF CommandOK
  <2>3. /\ CommandOK'
        /\ \/ /\ Becomes(marketOp.name, IF marketOp.name = "uninstall" THEN "uninstall"
                                        ELSE "unmount", marketOp.plugins)
              /\ signIn' = FALSE /\ admissionHeld' = admissionHeld
           \/ Becomes("none", "none", {}) /\ admissionHeld' = FALSE
    BY <2>1, <2>2
  <2> HIDE DEF MarketSteps, MarketNames
  <2>4. UninstallInv' /\ RemoveServerInv' /\ CatalogInv'
    BY <2>1, <2>2, <2>3, <2>6
  <2>5. Market!MarketTypeOK' /\ (onHandle' # "none" \/ authorizing' \/ signIn' => Owner')
    BY <2>1, <2>2, <2>3, <2>6
  <2> QED
    BY <2>3, <2>4, <2>5
<1>3. CASE Market!UninstallPlugin
  <2>1. /\ UNCHANGED <<catalog, userServer, signIn, rebuilding, crossed>>
        /\ marketOp.name = "uninstall" /\ marketOp.step = "uninstall"
        /\ Market!Kept /\ Market!End
        /\ installed' \in {installed, installed \ marketOp.plugins}
               /\ active' \subseteq installed'
        /\ onHandle' \in {onHandle, "user", "none"}
        /\ onHandle' # "none" => onHandle # "none"
    BY <1>3 DEF Market!UninstallPlugin, Market!At, Market!Released, Market!Unmounted
  <2>7. authorizing' = authorizing \/ authorizing' = FALSE
    BY <1>3 DEF Market!UninstallPlugin, Market!At, Market!Released, Market!Unmounted
  <2>6. authorizing' \in BOOLEAN /\ (authorizing' => authorizing)
    <3>1. authorizing' \in BOOLEAN
      BY <1>0, <2>7
    <3>2. authorizing' => authorizing
      BY <1>0, <2>7
    <3> QED
      BY <3>1, <3>2
  <2>2. CommandOK' /\ Becomes("none", "none", {}) /\ admissionHeld' = FALSE
    BY <2>1
  <2>3. (onHandle' # "none" \/ authorizing' \/ signIn') => Owner'
    BY <2>1, <2>6 DEF Market!Kept
  <2>4. leftBehind' \in BOOLEAN
    BY <2>1 DEF Market!Kept
  <2> QED
    BY <2>1, <2>2, <2>3, <2>4, <2>6
<1>4. CASE Market!UnmountServer
  <2>1. /\ UNCHANGED <<catalog, installed, active, userServer, signIn, rebuilding, crossed,
                       leftBehind>>
        /\ marketOp.name = "removeServer" /\ marketOp.step = "unmount"
        /\ onHandle' \in {onHandle, "none"}
        /\ \/ authorizing' = FALSE /\ Market!To("persist") /\ admissionHeld' = admissionHeld
           \/ Market!End
    BY <1>4 DEF Market!UnmountServer, Market!At, Market!Unmounted
  <2>7. authorizing' = authorizing \/ authorizing' = FALSE
    BY <1>4 DEF Market!UnmountServer, Market!At, Market!Unmounted
  <2>6. authorizing' \in BOOLEAN /\ (authorizing' => authorizing)
    <3>1. authorizing' \in BOOLEAN
      BY <1>0, <2>7
    <3>2. authorizing' => authorizing
      BY <1>0, <2>7
    <3> QED
      BY <3>1, <3>2
  <2>3. /\ CommandOK'
        /\ \/ /\ Becomes("removeServer", "persist", marketOp.plugins)
              /\ authorizing' = FALSE /\ admissionHeld' = admissionHeld
           \/ Becomes("none", "none", {}) /\ admissionHeld' = FALSE
    BY <2>1
  <2> HIDE DEF MarketSteps, MarketNames
  <2>8. UninstallInv' /\ CatalogInv'
    BY <2>1, <2>3, <2>6
  <2>9. ~signIn /\ ~signIn' /\ admissionHeld
    BY <2>1
  <2>10. ASSUME Becomes("removeServer", "persist", marketOp.plugins), authorizing' = FALSE,
                admissionHeld' = admissionHeld
         PROVE  RemoveServerInv'
    BY <2>9, <2>10
  <2>11. ASSUME Becomes("none", "none", {})
         PROVE  RemoveServerInv'
    BY <2>11
  <2>4. UninstallInv' /\ RemoveServerInv' /\ CatalogInv'
    BY <2>3, <2>8, <2>10, <2>11
  <2>5. Market!MarketTypeOK' /\ (onHandle' # "none" \/ authorizing' \/ signIn' => Owner')
    BY <2>1, <2>3, <2>6
  <2> QED
    BY <2>3, <2>4, <2>5
<1>5. CASE Market!PersistRemoval
  <2>1. /\ UNCHANGED <<catalog, installed, active, onHandle, signIn, authorizing, rebuilding,
                       crossed>>
        /\ marketOp.name = "removeServer" /\ marketOp.step = "persist"
        /\ Market!Kept /\ Market!End /\ userServer' \in BOOLEAN
    BY <1>5 DEF Market!PersistRemoval, Market!At
  <2>2. CommandOK' /\ Becomes("none", "none", {}) /\ admissionHeld' = FALSE
    BY <2>1
  <2>3. (onHandle' # "none" \/ authorizing' \/ signIn') => Owner'
    BY <2>1 DEF Market!Kept
  <2>4. leftBehind' \in BOOLEAN
    BY <2>1 DEF Market!Kept
  <2> QED
    BY <2>1, <2>2, <2>3, <2>4
<1> QED
  BY <1>1, <1>2, <1>3, <1>4, <1>5

LEMMA MarketServerSteps ==
    ASSUME MarketInv,
           \/ Market!DeclareServer \/ Market!MountServer \/ Market!ReplaceHandle
           \/ Market!BeginRemoveServer \/ Market!BeginAuthorization
           \/ Market!FinishAuthorization
    PROVE  MarketInv'
<1> USE MarketOpEffects
    DEF MarketInv, Market!MarketTypeOK, Owner, UninstallInv, RemoveServerInv, CatalogInv,
        Becomes, MarketNames, MarketSteps
<1>1. CASE Market!DeclareServer
  BY <1>1 DEF Market!DeclareServer
<1>2. CASE Market!MountServer
  BY <1>2 DEF Market!MountServer
<1>3. CASE Market!ReplaceHandle
  BY <1>3 DEF Market!ReplaceHandle, Market!Unmounted
<1>4. CASE Market!BeginRemoveServer
  <2>1. PICK step \in {"cancel", "persist"} :
            /\ Market!Begin("removeServer", step, {})
            /\ step = "persist" => onHandle # "none"
    BY <1>4 DEF Market!BeginRemoveServer
  <2>2. CommandOK' /\ marketOp.name = "none" /\ Becomes("removeServer", step, {})
    BY <2>1
  <2> QED
    BY <1>4, <2>1, <2>2 DEF Market!BeginRemoveServer
<1>5. CASE Market!BeginAuthorization
  BY <1>5 DEF Market!BeginAuthorization
<1>6. CASE Market!FinishAuthorization
  BY <1>6 DEF Market!FinishAuthorization
<1> QED
  BY <1>1, <1>2, <1>3, <1>4, <1>5, <1>6

LEMMA MarketStarts == Market!MarketInit => MarketInv
<1> SUFFICES ASSUME Market!MarketInit PROVE MarketInv
  OBVIOUS
<1> USE DEF Market!MarketInit
<1>1. CommandOK /\ marketOp.name = "none"
  BY DEF Market!Idle, CommandOK, MarketNames, MarketSteps
<1>2. Market!MarketTypeOK
  BY DEF Market!MarketTypeOK, Market!Idle
<1> QED
  BY <1>1, <1>2 DEF MarketInv, UninstallInv, RemoveServerInv, CatalogInv

LEMMA MarketKeeps == MarketInv /\ Market!MarketNext => MarketInv'
<1> SUFFICES ASSUME MarketInv, Market!MarketNext PROVE MarketInv'
  OBVIOUS
<1>1. CASE \/ Market!AddMarketplace \/ Market!VerifyAdded \/ Market!CleanUpRejected
           \/ Market!RefreshMarketplace \/ Market!BeginRemoveMarketplace
           \/ Market!RemoveMarketplace \/ Market!RebuildMarketplace \/ Market!EndRebuild
  BY <1>1, MarketCatalogSteps
<1>2. ASSUME NEW p \in Plugins,
             \/ Market!InstallPlugin(p) \/ Market!EnablePlugin(p) \/ Market!DisablePlugin(p)
             \/ Market!BeginUninstall(p) \/ Market!RebuildPlugin(p)
      PROVE  MarketInv'
  BY <1>2, MarketPluginSteps
<1>3. CASE \/ Market!CancelAuthorization \/ Market!EraseSignIn \/ Market!UninstallPlugin
           \/ Market!UnmountServer \/ Market!PersistRemoval
  BY <1>3, MarketCleanupSteps
<1>4. CASE \/ Market!DeclareServer \/ Market!MountServer \/ Market!ReplaceHandle
           \/ Market!BeginRemoveServer \/ Market!BeginAuthorization
           \/ Market!FinishAuthorization
  BY <1>4, MarketServerSteps
<1> QED
  BY <1>1, <1>2, <1>3, <1>4 DEF Market!MarketNext

LEMMA MarketRests == MarketInv /\ UNCHANGED Market!marketVars => MarketInv'
  BY DEF Market!marketVars, MarketInv, CommandOK, Market!MarketTypeOK, Owner, UninstallInv,
         RemoveServerInv, CatalogInv

LEMMA MarketInvHolds == MarketInv => Market!MarketplaceHolds
  BY DEF MarketInv, Owner, CatalogInv, Market!MarketplaceHolds, Market!SignInHasOwner,
         Market!InstalledHasMarketplace

HIDE DEF Market!ledger, Market!server, Market!authorization, Market!ghosts

-----------------------------------------------------------------------------
(* McpServers. *)

McpSteps(name) ==
    CASE name = "none" -> {"none"}
      [] name = "remove" -> {"unmount", "clear", "persist", "done", "failed"}
      [] name = "enable" -> {"register", "commit", "start", "ok", "authorize", "refused", "done",
                             "rollback", "restore", "reclaim", "failed"}
      [] name = "release" -> {"unregister", "restore", "reclaim", "done", "failed"}
      [] name = "boot" -> {"reconcile", "start", "ok", "authorize", "refused", "done"}
McpNames == {"none", "remove", "enable", "release", "boot"}

McpOpOK ==
    /\ mcpOp \in [name : McpNames, step : UNION {McpSteps(name) : name \in McpNames},
                  plugin : Plugins \cup {NoPlugin}, independent : BOOLEAN, kept : BOOLEAN,
                  mine : BOOLEAN, deferred : BOOLEAN]
    /\ mcpOp.step \in McpSteps(mcpOp.name)
    /\ mcpOp.name \in {"enable", "release"} => mcpOp.plugin \in Plugins

\* A release of a plugin knows whether the user declares the server, and when its last
\* owner has gone it leaves nothing tracked that the user declares.
ReleaseInv ==
    mcpOp.name = "release" =>
        /\ mcpOp.independent <=> declared # "none"
        /\ mcpOp.deferred => mcpOp.independent
        /\ mcpOp.step = "unregister" => ~mcpOp.deferred /\ ~mcpOp.kept
        /\ mcpOp.step = "reclaim" /\ claims = {} =>
               /\ mcpOp.independent => ~tracked
               /\ mcpOp.deferred /\ declared = "enabled" => mounted = "user"

ServersInv ==
    /\ Servers!McpTypeOK /\ McpOpOK /\ ReleaseInv
    /\ Servers!McpServersHold

USE DEF Servers!mcpHandle

\* The fields of the operation after a step.
OpBecomes(name, step, plugin, independent) ==
    /\ mcpOp'.name = name /\ mcpOp'.step = step /\ mcpOp'.plugin = plugin
    /\ mcpOp'.independent = independent
OpGoesOn(step) ==
    /\ OpBecomes(mcpOp.name, step, mcpOp.plugin, mcpOp.independent)
    /\ mcpOp'.kept = mcpOp.kept /\ mcpOp'.mine = mcpOp.mine /\ mcpOp'.deferred = mcpOp.deferred

LEMMA McpGoToEffect ==
    ASSUME McpOpOK, NEW step \in McpSteps(mcpOp.name), Servers!McpGoTo(step)
    PROVE  McpOpOK' /\ OpGoesOn(step)
<1>1. step \in UNION {McpSteps(name) : name \in McpNames}
  BY DEF McpOpOK
<1> QED
  BY <1>1 DEF McpOpOK, OpGoesOn, OpBecomes, Servers!McpGoTo

LEMMA McpBeginEffect ==
    ASSUME NEW name \in McpNames, NEW step \in McpSteps(name),
           NEW plugin \in Plugins \cup {NoPlugin},
           NEW independent \in BOOLEAN,
           name \in {"enable", "release"} => plugin \in Plugins,
           mcpOp' = [Servers!NoMcpOp EXCEPT !.name = name, !.step = step, !.plugin = plugin,
                                            !.independent = independent]
    PROVE  /\ McpOpOK' /\ OpBecomes(name, step, plugin, independent)
           /\ mcpOp'.kept = FALSE /\ mcpOp'.deferred = FALSE
<1>1. step \in UNION {McpSteps(n) : n \in McpNames}
  OBVIOUS
<1> QED
  BY <1>1 DEF McpOpOK, OpBecomes, Servers!NoMcpOp

LEMMA McpIdleIsNone ==
    ASSUME Servers!McpIdle
    PROVE  mcpOp.name = "none" /\ mcpOp.step = "none"
  BY DEF Servers!McpIdle, Servers!NoMcpOp

\* A step that leaves the declarations, the plugins and the operation as they are.
LEMMA McpQuietStep ==
    ASSUME ServersInv, UNCHANGED <<declared, mounted, tracked, enabled, claims, mcpOp>>,
           serving' \in BOOLEAN, startFailed' \in BOOLEAN, stopping' \in BOOLEAN,
           handlePhase' \in {"dormant", "running", "down"},
           pendingStart' \in {"none", "prepared", "ok", "authorize", "refused", "authorized"},
           startFailed' /\ mounted = "none" => startFailed /\ (stopping => stopping')
    PROVE  ServersInv'
<1> USE DEF ServersInv
<1>1. Servers!McpTypeOK' /\ McpOpOK' /\ ReleaseInv'
  BY DEF Servers!McpTypeOK, McpOpOK, ReleaseInv
<1>2. Servers!DiagnosticHasServer'
  BY DEF Servers!McpServersHold, Servers!DiagnosticHasServer, Servers!McpAt
<1>3. Servers!PluginMountIsTracked' /\ Servers!ReleaseRestores'
  BY DEF Servers!McpServersHold, Servers!PluginMountIsTracked, Servers!ReleaseRestores
<1> QED
  BY <1>1, <1>2, <1>3 DEF Servers!McpServersHold

\* Steps beside the exclusive lease.
LEMMA McpSharedSteps ==
    ASSUME ServersInv,
           \/ Servers!PrepareStart \/ Servers!PrepareStartAll \/ Servers!ExecuteStart
           \/ Servers!StartAuthorized \/ Servers!ObserveStart \/ Servers!StopServer
           \/ Servers!StopCleanup \/ Servers!StopComputer
           \/ \E declaration \in Servers!Declarations : Servers!EditDeclaration(declaration)
    PROVE  ServersInv'
<1>1. CASE Servers!PrepareStart \/ Servers!PrepareStartAll
  BY <1>1, McpIdleIsNone
  DEF Servers!PrepareStart, Servers!PrepareStartAll, Servers!ExclusiveFree, Servers!MountLatest,
      Servers!Candidate, ServersInv, Servers!McpTypeOK, McpOpOK, ReleaseInv,
      Servers!McpServersHold, Servers!DiagnosticHasServer, Servers!PluginMountIsTracked,
      Servers!ReleaseRestores, Servers!McpAt
<1>2. ASSUME NEW declaration \in Servers!Declarations, Servers!EditDeclaration(declaration)
      PROVE  ServersInv'
  BY <1>2, McpIdleIsNone
  DEF Servers!EditDeclaration, Servers!ExclusiveFree, ServersInv, Servers!McpTypeOK, McpOpOK,
      ReleaseInv, Servers!McpServersHold, Servers!DiagnosticHasServer,
      Servers!PluginMountIsTracked, Servers!ReleaseRestores, Servers!McpAt
<1> USE DEF ServersInv, Servers!McpTypeOK
<1>3. CASE Servers!ExecuteStart
  <2>1. pendingStart' \in {"ok", "authorize", "refused"} /\ serving' \in BOOLEAN
    BY <1>3 DEF Servers!ExecuteStart, Servers!StartResults
  <2> QED
    BY <1>3, <2>1, McpQuietStep DEF Servers!ExecuteStart
<1>4. CASE Servers!StartAuthorized
  BY <1>4, McpQuietStep DEF Servers!StartAuthorized
<1>5. CASE Servers!ObserveStart
  <2>1. /\ startFailed' \in BOOLEAN /\ serving' \in BOOLEAN
        /\ startFailed' /\ mounted = "none" => startFailed
    BY <1>5 DEF Servers!ObserveStart, Servers!RecordStart
  <2> QED
    BY <1>5, <2>1, McpQuietStep DEF Servers!ObserveStart
<1>6. CASE Servers!StopServer
  BY <1>6, McpQuietStep DEF Servers!StopServer
<1>7. CASE Servers!StopCleanup
  BY <1>7, McpQuietStep DEF Servers!StopCleanup
<1>8. CASE Servers!StopComputer
  BY <1>8, McpQuietStep DEF Servers!StopComputer
<1> QED
  BY <1>1, <1>2, <1>3, <1>4, <1>5, <1>6, <1>7, <1>8

\* What is left to show of a step of an operation.
LEMMA McpOpStep ==
    ASSUME McpOpOK', ReleaseInv', Servers!DiagnosticHasServer', Servers!PluginMountIsTracked',
           Servers!ReleaseRestores',
           declared' \in Servers!Declarations,
           mounted' \in {"none", "user", "disabled", "plugin"},
           serving' \in BOOLEAN, tracked' \in BOOLEAN, startFailed' \in BOOLEAN,
           stopping' \in BOOLEAN, enabled' \subseteq Plugins, claims' \subseteq Plugins,
           handlePhase' \in {"dormant", "running", "down"},
           pendingStart' \in {"none", "prepared", "ok", "authorize", "refused", "authorized"}
    PROVE  ServersInv'
  BY DEF ServersInv, Servers!McpTypeOK, McpOpOK, McpNames, Servers!McpServersHold

\* An operation that is not a release.
LEMMA McpOtherOpStep ==
    ASSUME McpOpOK', mcpOp'.name # "release", Servers!DiagnosticHasServer',
           Servers!PluginMountIsTracked',
           declared' \in Servers!Declarations,
           mounted' \in {"none", "user", "disabled", "plugin"},
           serving' \in BOOLEAN, tracked' \in BOOLEAN, startFailed' \in BOOLEAN,
           stopping' \in BOOLEAN, enabled' \subseteq Plugins, claims' \subseteq Plugins,
           handlePhase' \in {"dormant", "running", "down"},
           pendingStart' \in {"none", "prepared", "ok", "authorize", "refused", "authorized"}
    PROVE  ServersInv'
  BY McpOpStep DEF ReleaseInv, Servers!ReleaseRestores

LEMMA McpRemoveSteps ==
    ASSUME ServersInv,
           \/ Servers!EndMcpOp \/ Servers!RemoveUnmount \/ Servers!RemoveClear
           \/ Servers!RemovePersist \/ \E named \in BOOLEAN : Servers!BeginRemove(named)
    PROVE  ServersInv'
<1> USE DEF ServersInv, Servers!McpTypeOK, Servers!McpServersHold, Servers!McpAt
<1>1. CASE Servers!EndMcpOp
  <2>1. /\ UNCHANGED <<declared, mounted, serving, tracked, claims, startFailed, enabled,
                       handlePhase, pendingStart, stopping>>
        /\ mcpOp.step \in {"done", "failed"} /\ mcpOp' = Servers!NoMcpOp
    BY <1>1 DEF Servers!EndMcpOp
  <2>2. McpOpOK' /\ mcpOp'.name = "none"
    BY <2>1 DEF McpOpOK, Servers!NoMcpOp, McpNames, McpSteps
  <2>3. Servers!DiagnosticHasServer' /\ Servers!PluginMountIsTracked'
    BY <2>1 DEF Servers!DiagnosticHasServer, Servers!PluginMountIsTracked
  <2> QED
    BY <2>1, <2>2, <2>3, McpOtherOpStep
<1>2. CASE Servers!RemoveUnmount
  <2>1. /\ UNCHANGED <<declared, tracked, enabled, claims, startFailed, pendingStart, stopping>>
        /\ mcpOp.name = "remove" /\ mcpOp.step = "unmount"
        /\ \/ /\ mounted' = "none" /\ serving' = FALSE
              /\ handlePhase' \in {handlePhase, "dormant"} /\ Servers!McpGoTo("clear")
           \/ UNCHANGED <<mounted, serving, handlePhase>> /\ Servers!McpGoTo("failed")
    BY <1>2 DEF Servers!RemoveUnmount
  <2>2. /\ McpOpOK' /\ mcpOp'.name = "remove"
        /\ Servers!McpGoTo("clear") => mcpOp'.step = "clear"
    BY <2>1, McpGoToEffect DEF OpGoesOn, OpBecomes, McpSteps
  <2>3. Servers!DiagnosticHasServer' /\ Servers!PluginMountIsTracked'
    BY <2>1, <2>2 DEF Servers!DiagnosticHasServer, Servers!PluginMountIsTracked
  <2>4. /\ mounted' \in {"none", "user", "disabled", "plugin"} /\ serving' \in BOOLEAN
        /\ handlePhase' \in {"dormant", "running", "down"}
    BY <2>1
  <2> QED
    BY <2>1, <2>2, <2>3, <2>4, McpOtherOpStep
<1>3. CASE Servers!RemoveClear
  <2>1. /\ UNCHANGED <<declared, mounted, serving, tracked, enabled, claims, handlePhase,
                       pendingStart,
                       stopping>>
        /\ mcpOp.name = "remove" /\ startFailed' = FALSE /\ Servers!McpGoTo("persist")
    BY <1>3 DEF Servers!RemoveClear
  <2>2. McpOpOK' /\ mcpOp'.name = "remove"
    BY <2>1, McpGoToEffect DEF OpGoesOn, OpBecomes, McpSteps
  <2>3. Servers!DiagnosticHasServer' /\ Servers!PluginMountIsTracked'
    BY <2>1 DEF Servers!DiagnosticHasServer, Servers!PluginMountIsTracked
  <2> QED
    BY <2>1, <2>2, <2>3, McpOtherOpStep
<1>4. CASE Servers!RemovePersist
  <2>1. /\ UNCHANGED <<mounted, serving, tracked, enabled, claims, startFailed, handlePhase,
                       pendingStart, stopping>>
        /\ mcpOp.name = "remove" /\ mcpOp.step = "persist"
        /\ Servers!McpGoTo("done") \/ Servers!McpGoTo("failed")
        /\ declared' \in {declared, "none"}
    BY <1>4 DEF Servers!RemovePersist
  <2>2. McpOpOK' /\ mcpOp'.name = "remove"
    BY <2>1, McpGoToEffect DEF OpGoesOn, OpBecomes, McpSteps
  <2>3. Servers!DiagnosticHasServer' /\ Servers!PluginMountIsTracked'
    BY <2>1 DEF Servers!DiagnosticHasServer, Servers!PluginMountIsTracked
  <2> QED
    BY <2>1, <2>2, <2>3, McpOtherOpStep DEF Servers!Declarations
<1>5. ASSUME NEW named \in BOOLEAN, Servers!BeginRemove(named)
      PROVE  ServersInv'
  <2>1. /\ UNCHANGED <<declared, mounted, serving, tracked, claims, startFailed, enabled,
                       handlePhase, pendingStart, stopping>>
        /\ Servers!McpIdle
    BY <1>5 DEF Servers!BeginRemove, Servers!ExclusiveFree
  <2>2. PICK step \in {"persist", "unmount"} :
            mcpOp' = [Servers!NoMcpOp EXCEPT !.name = "remove", !.step = step]
    BY <1>5 DEF Servers!BeginRemove
  <2>3. McpOpOK' /\ mcpOp'.name = "remove"
    <3>1. mcpOp' = [name |-> "remove", step |-> step, plugin |-> NoPlugin, independent |-> FALSE,
                    kept |-> FALSE, mine |-> FALSE, deferred |-> FALSE]
      BY <2>2 DEF Servers!NoMcpOp
    <3>2. "remove" \in McpNames /\ step \in McpSteps("remove")
      BY DEF McpNames, McpSteps
    <3> QED
      BY <3>1, <3>2 DEF McpOpOK
  <2>4. Servers!DiagnosticHasServer' /\ Servers!PluginMountIsTracked'
    BY <2>1, McpIdleIsNone DEF Servers!DiagnosticHasServer, Servers!PluginMountIsTracked
  <2> QED
    BY <2>1, <2>3, <2>4, McpOtherOpStep
<1> QED
  BY <1>1, <1>2, <1>3, <1>4, <1>5

\* remove_plugin_server: what is unmounted is tracked no more, and has no diagnostic.
PluginGone ==
    /\ mounted' = "none" /\ serving' = FALSE /\ tracked' = FALSE /\ startFailed' = FALSE
NothingMounted == UNCHANGED <<mounted, serving, tracked, startFailed>>

LEMMA McpUnmountEffect ==
    ASSUME McpOpOK, NEW next \in McpSteps(mcpOp.name), NEW undo \in McpSteps(mcpOp.name),
           Servers!UnmountPlugin(next, undo)
    PROVE  /\ McpOpOK'
           /\ \/ OpGoesOn(next) /\ PluginGone
              \/ OpGoesOn(undo) /\ NothingMounted
  BY McpGoToEffect DEF Servers!UnmountPlugin, PluginGone, NothingMounted

\* What the hooks do when a plugin gives its server up.
LEMMA McpUnhookEffect ==
    ASSUME McpOpOK, NEW next \in McpSteps(mcpOp.name), NEW undo \in McpSteps(mcpOp.name),
           Servers!Unhook(next, undo)
    PROVE  /\ McpOpOK'
           /\ OpBecomes(mcpOp.name, next, mcpOp.plugin, mcpOp.independent)
              \/ OpBecomes(mcpOp.name, undo, mcpOp.plugin, mcpOp.independent)
           /\ mcpOp'.deferred = mcpOp.deferred \/ (mcpOp.kept \/ mcpOp.independent)
           /\ mcpOp'.kept = mcpOp.kept
           /\ NothingMounted \/ PluginGone
<1>1. CASE /\ mcpOp' = [mcpOp EXCEPT !.step = next, !.deferred = TRUE]
           /\ mcpOp.kept \/ mcpOp.independent
           /\ NothingMounted
  <2>1. next \in UNION {McpSteps(name) : name \in McpNames}
    BY DEF McpOpOK
  <2>2. /\ McpOpOK' /\ OpBecomes(mcpOp.name, next, mcpOp.plugin, mcpOp.independent)
        /\ mcpOp'.kept = mcpOp.kept
    BY <1>1, <2>1 DEF McpOpOK, OpBecomes
  <2> QED
    BY <1>1, <2>2
<1>2. CASE Servers!McpGoTo(next) /\ NothingMounted
  BY <1>2, McpGoToEffect DEF OpGoesOn
<1>3. CASE Servers!UnmountPlugin(next, undo)
  BY <1>3, McpUnmountEffect DEF OpGoesOn
<1> QED
  BY <1>1, <1>2, <1>3 DEF Servers!Unhook, Servers!Defer, NothingMounted

\* A release or an enabling begins: the operation knows whether the user declares the server.
LEMMA McpBeginSteps ==
    ASSUME ServersInv, NEW plugin \in Plugins,
           Servers!EnablePlugin(plugin) \/ Servers!ReleasePlugin(plugin)
    PROVE  ServersInv'
<1> USE DEF ServersInv, Servers!McpTypeOK, Servers!McpServersHold
<1>1. PICK name \in {"enable", "release"}, step \in {"register", "unregister", "restore"} :
          /\ mcpOp' = [Servers!NoMcpOp EXCEPT !.name = name, !.step = step, !.plugin = plugin,
                                              !.independent = (declared # "none")]
          /\ step \in McpSteps(name)
          /\ enabled' \in {enabled, enabled \cup {plugin}}
          /\ Servers!McpIdle
          /\ UNCHANGED <<declared, mounted, serving, tracked, claims, startFailed, handlePhase,
                         pendingStart, stopping>>
  BY DEF Servers!EnablePlugin, Servers!ReleasePlugin, Servers!BeginPlugin, Servers!ExclusiveFree,
         McpSteps
<1>2. /\ McpOpOK' /\ OpBecomes(name, step, plugin, declared # "none")
      /\ mcpOp'.kept = FALSE /\ mcpOp'.deferred = FALSE
  BY <1>1, McpBeginEffect DEF McpNames
<1>3. ReleaseInv' /\ Servers!ReleaseRestores'
  BY <1>1, <1>2 DEF OpBecomes, ReleaseInv, Servers!ReleaseRestores
<1>4. Servers!DiagnosticHasServer' /\ Servers!PluginMountIsTracked'
  BY <1>1, McpIdleIsNone
  DEF Servers!DiagnosticHasServer, Servers!PluginMountIsTracked, Servers!McpAt
<1> QED
  BY <1>1, <1>2, <1>3, <1>4, McpOpStep

LEMMA McpEnableSteps ==
    ASSUME ServersInv,
           Servers!RegisterServer \/ Servers!CommitEnable \/ Servers!RollBackEnable
    PROVE  ServersInv'
<1> USE DEF ServersInv, Servers!McpTypeOK, Servers!McpServersHold, Servers!McpAt
<1>1. /\ UNCHANGED <<declared, handlePhase, pendingStart, stopping>>
      /\ mcpOp.name = "enable" /\ mcpOp.step \in {"register", "commit", "rollback"}
  BY DEF Servers!RegisterServer, Servers!CommitEnable, Servers!RollBackEnable, Servers!mcpHandle
<1>2. mcpOp.plugin \in Plugins
  BY <1>1 DEF McpOpOK
<1>3. CASE Servers!RegisterServer
  <2>1. /\ enabled' = enabled /\ claims' \in {claims, claims \cup {mcpOp.plugin}}
        /\ \/ mcpOp' = [mcpOp EXCEPT !.step = "commit", !.kept = TRUE]
           \/ mcpOp' = [mcpOp EXCEPT !.step = "commit", !.mine = TRUE]
           \/ Servers!McpGoTo("rollback")
        /\ \/ NothingMounted
           \/ mounted' = "plugin" /\ tracked' = TRUE /\ startFailed' = FALSE /\ serving' = serving
    BY <1>3 DEF Servers!RegisterServer, Servers!MountPlugin, NothingMounted
  <2>2. McpOpOK' /\ mcpOp'.name = "enable"
    <3>1. /\ "commit" \in McpSteps("enable") /\ "rollback" \in McpSteps("enable")
          /\ "commit" \in UNION {McpSteps(name) : name \in McpNames}
      BY DEF McpSteps, McpNames
    <3>2. CASE mcpOp' = [mcpOp EXCEPT !.step = "commit", !.kept = TRUE]
      BY <1>1, <3>1, <3>2 DEF McpOpOK
    <3>3. CASE mcpOp' = [mcpOp EXCEPT !.step = "commit", !.mine = TRUE]
      BY <1>1, <3>1, <3>3 DEF McpOpOK
    <3>4. CASE Servers!McpGoTo("rollback")
      BY <1>1, <3>1, <3>4, McpGoToEffect DEF OpGoesOn, OpBecomes
    <3> QED
      BY <2>1, <3>2, <3>3, <3>4
  <2>3. Servers!DiagnosticHasServer' /\ Servers!PluginMountIsTracked'
    BY <1>1, <2>1
    DEF Servers!DiagnosticHasServer, Servers!PluginMountIsTracked, NothingMounted
  <2>4. /\ mounted' \in {"none", "user", "disabled", "plugin"} /\ serving' \in BOOLEAN
        /\ tracked' \in BOOLEAN /\ startFailed' \in BOOLEAN
        /\ claims' \subseteq Plugins /\ enabled' \subseteq Plugins
    BY <1>2, <2>1 DEF NothingMounted
  <2> QED
    BY <1>1, <2>2, <2>3, <2>4, McpOtherOpStep
<1>4. CASE Servers!CommitEnable
  <2>1. /\ Servers!McpGoTo("start") \/ Servers!McpGoTo("rollback")
        /\ UNCHANGED <<mounted, serving, tracked, claims, startFailed, enabled>>
    BY <1>4 DEF Servers!CommitEnable
  <2>2. McpOpOK' /\ mcpOp'.name = "enable"
    BY <1>1, <2>1, McpGoToEffect DEF OpGoesOn, OpBecomes, McpSteps
  <2>3. Servers!DiagnosticHasServer' /\ Servers!PluginMountIsTracked'
    BY <1>1, <2>1 DEF Servers!DiagnosticHasServer, Servers!PluginMountIsTracked
  <2> QED
    BY <1>1, <2>1, <2>2, <2>3, McpOtherOpStep
<1>5. CASE Servers!RollBackEnable
  <2>1. /\ McpOpOK' /\ mcpOp'.name = "enable" /\ (NothingMounted \/ PluginGone)
    BY <1>1, <1>5, McpUnhookEffect DEF Servers!RollBackEnable, OpBecomes, McpSteps
  <2>2. enabled' \subseteq Plugins /\ claims' \subseteq Plugins
    BY <1>5 DEF Servers!RollBackEnable, Servers!ReleaseClaim
  <2>3. Servers!DiagnosticHasServer' /\ Servers!PluginMountIsTracked'
    BY <1>1, <2>1
    DEF Servers!DiagnosticHasServer, Servers!PluginMountIsTracked, NothingMounted, PluginGone
  <2>4. /\ mounted' \in {"none", "user", "disabled", "plugin"} /\ serving' \in BOOLEAN
        /\ tracked' \in BOOLEAN /\ startFailed' \in BOOLEAN
    BY <2>1 DEF NothingMounted, PluginGone
  <2> QED
    BY <1>1, <2>1, <2>2, <2>3, <2>4, McpOtherOpStep
<1> QED
  BY <1>3, <1>4, <1>5

LEMMA McpBatchSteps ==
    ASSUME ServersInv,
           \/ Servers!StartBatch \/ Servers!ObserveBatch \/ Servers!BeginBoot
           \/ Servers!Reconcile
    PROVE  ServersInv'
<1> USE DEF ServersInv, Servers!McpTypeOK, Servers!McpServersHold, Servers!McpAt
<1>1. CASE Servers!StartBatch
  <2>1. /\ UNCHANGED <<declared, mounted, tracked, enabled, claims, startFailed, handlePhase,
                       pendingStart, stopping>>
        /\ mcpOp.step = "start"
    BY <1>1 DEF Servers!StartBatch
  <2>2. PICK step \in {"ok", "authorize", "refused", "done"} :
            Servers!McpGoTo(step) /\ serving' \in BOOLEAN
    BY <1>1 DEF Servers!StartBatch, Servers!StartResults
  <2>3. mcpOp.name \in {"enable", "boot"}
    BY <2>1 DEF McpOpOK, McpNames, McpSteps
  <2>4. McpOpOK' /\ mcpOp'.name # "release"
    BY <2>2, <2>3, McpGoToEffect DEF OpGoesOn, OpBecomes, McpSteps
  <2>5. Servers!DiagnosticHasServer' /\ Servers!PluginMountIsTracked'
    BY <2>1 DEF Servers!DiagnosticHasServer, Servers!PluginMountIsTracked
  <2> QED
    BY <2>1, <2>2, <2>4, <2>5, McpOtherOpStep
<1>2. CASE Servers!ObserveBatch
  <2>1. /\ UNCHANGED <<declared, mounted, serving, tracked, enabled, claims, handlePhase,
                       pendingStart,
                       stopping>>
        /\ mcpOp.step \in {"ok", "authorize", "refused"} /\ Servers!McpGoTo("done")
        /\ Servers!RecordStart(mcpOp.step)
    BY <1>2 DEF Servers!ObserveBatch
  <2>2. startFailed' \in BOOLEAN /\ (startFailed' => startFailed \/ mounted # "none")
    BY <2>1 DEF Servers!RecordStart
  <2>3. mcpOp.name \in {"enable", "boot"}
    BY <2>1 DEF McpOpOK, McpNames, McpSteps
  <2>4. McpOpOK' /\ mcpOp'.name # "release"
    BY <2>1, <2>3, McpGoToEffect DEF OpGoesOn, OpBecomes, McpSteps
  <2>5. Servers!DiagnosticHasServer' /\ Servers!PluginMountIsTracked'
    BY <2>1, <2>2 DEF Servers!DiagnosticHasServer, Servers!PluginMountIsTracked
  <2> QED
    BY <2>1, <2>2, <2>4, <2>5, McpOtherOpStep
<1>3. CASE Servers!BeginBoot
  <2>1. /\ UNCHANGED <<declared, enabled, pendingStart, stopping>> /\ Servers!McpIdle
        /\ mcpOp' = [Servers!NoMcpOp EXCEPT !.name = "boot", !.step = "reconcile"]
        /\ handlePhase' = "running"
        /\ \/ NothingMounted /\ claims' = claims
           \/ /\ mounted' = Servers!AsMounted(declared) /\ serving' = FALSE /\ tracked' = FALSE
              /\ claims' = {} /\ startFailed' = FALSE
    BY <1>3 DEF Servers!BeginBoot, Servers!ExclusiveFree, NothingMounted
  <2>2. McpOpOK' /\ mcpOp'.name = "boot"
    <3>1. mcpOp' = [name |-> "boot", step |-> "reconcile", plugin |-> NoPlugin,
                    independent |-> FALSE, kept |-> FALSE, mine |-> FALSE, deferred |-> FALSE]
      BY <2>1 DEF Servers!NoMcpOp
    <3>2. "boot" \in McpNames /\ "reconcile" \in McpSteps("boot")
      BY DEF McpNames, McpSteps
    <3> QED
      BY <3>1, <3>2 DEF McpOpOK
  <2>3. Servers!AsMounted(declared) \in {"none", "user", "disabled"}
    BY DEF Servers!AsMounted
  <2>4. Servers!DiagnosticHasServer' /\ Servers!PluginMountIsTracked'
    BY <2>1, <2>3, McpIdleIsNone
    DEF Servers!DiagnosticHasServer, Servers!PluginMountIsTracked, NothingMounted
  <2>5. /\ mounted' \in {"none", "user", "disabled", "plugin"} /\ serving' \in BOOLEAN
        /\ tracked' \in BOOLEAN /\ startFailed' \in BOOLEAN /\ claims' \subseteq Plugins
    BY <2>1, <2>3 DEF NothingMounted
  <2> QED
    BY <2>1, <2>2, <2>4, <2>5, McpOtherOpStep
<1>4. CASE Servers!Reconcile
  <2>1. /\ UNCHANGED <<declared, enabled, handlePhase, pendingStart, stopping>>
        /\ mcpOp.name = "boot" /\ mcpOp.step = "reconcile" /\ Servers!McpGoTo("start")
        /\ claims' \in {claims, enabled}
        /\ \/ NothingMounted
           \/ mounted' = "plugin" /\ tracked' = TRUE /\ startFailed' = FALSE /\ serving' = serving
           \/ UNCHANGED <<mounted, serving>> /\ tracked' = TRUE /\ startFailed' = FALSE
    BY <1>4 DEF Servers!Reconcile, Servers!Recover, Servers!MountPlugin, NothingMounted
  <2>2. McpOpOK' /\ mcpOp'.name = "boot"
    BY <2>1, McpGoToEffect DEF OpGoesOn, OpBecomes, McpSteps
  <2>3. Servers!DiagnosticHasServer' /\ Servers!PluginMountIsTracked'
    BY <2>1 DEF Servers!DiagnosticHasServer, Servers!PluginMountIsTracked, NothingMounted
  <2>4. /\ mounted' \in {"none", "user", "disabled", "plugin"} /\ serving' \in BOOLEAN
        /\ tracked' \in BOOLEAN /\ startFailed' \in BOOLEAN /\ claims' \subseteq Plugins
    BY <2>1 DEF NothingMounted
  <2> QED
    BY <2>1, <2>2, <2>3, <2>4, McpOtherOpStep
<1> QED
  BY <1>1, <1>2, <1>3, <1>4

\* The steps of a release, and of an enabling that is rolled back.
LEMMA McpUnregisterStep ==
    ASSUME ServersInv, Servers!UnregisterServer
    PROVE  ServersInv'
<1> USE DEF ServersInv, Servers!McpTypeOK, Servers!McpServersHold, Servers!McpAt
<1>1. /\ UNCHANGED <<declared, handlePhase, pendingStart, stopping>>
      /\ mcpOp.name = "release" /\ mcpOp.step = "unregister"
      /\ mcpOp.plugin \in Plugins /\ mcpOp.kept = FALSE
      /\ enabled' \subseteq Plugins /\ claims' \subseteq Plugins
  BY DEF Servers!UnregisterServer, Servers!ReleaseClaim, McpOpOK, ReleaseInv
<1>2. /\ McpOpOK' /\ mcpOp'.name = "release" /\ mcpOp'.step \in {"restore", "failed"}
      /\ mcpOp'.independent = mcpOp.independent
      /\ mcpOp'.deferred => mcpOp.deferred \/ mcpOp.independent
      /\ NothingMounted \/ PluginGone
  <2>1. "restore" \in McpSteps(mcpOp.name) /\ "failed" \in McpSteps(mcpOp.name)
    BY <1>1 DEF McpSteps
  <2>2. CASE Servers!McpGoTo("restore") /\ NothingMounted
    BY <1>1, <2>1, <2>2, McpGoToEffect DEF OpGoesOn, OpBecomes
  <2>3. CASE Servers!Unhook("restore", "failed")
    BY <1>1, <2>1, <2>3, McpUnhookEffect DEF OpBecomes
  <2> QED
    BY <2>2, <2>3 DEF Servers!UnregisterServer, NothingMounted
<1>3. ReleaseInv' /\ Servers!ReleaseRestores'
  BY <1>1, <1>2 DEF ReleaseInv, Servers!ReleaseRestores
<1>4. Servers!DiagnosticHasServer' /\ Servers!PluginMountIsTracked'
  BY <1>1, <1>2
  DEF Servers!DiagnosticHasServer, Servers!PluginMountIsTracked, NothingMounted, PluginGone
<1>5. /\ mounted' \in {"none", "user", "disabled", "plugin"} /\ serving' \in BOOLEAN
      /\ tracked' \in BOOLEAN /\ startFailed' \in BOOLEAN
  BY <1>2 DEF NothingMounted, PluginGone
<1> QED
  BY <1>1, <1>2, <1>3, <1>4, <1>5, McpOpStep

LEMMA McpRestoreStep ==
    ASSUME ServersInv, Servers!RestoreDeferred
    PROVE  ServersInv'
<1> USE DEF ServersInv, Servers!McpTypeOK, Servers!McpServersHold, Servers!McpAt
<1>1. /\ UNCHANGED <<declared, enabled, claims, handlePhase, pendingStart, stopping>>
      /\ mcpOp.step = "restore" /\ mcpOp.name \in {"enable", "release"}
      /\ "reclaim" \in McpSteps(mcpOp.name) /\ "failed" \in McpSteps(mcpOp.name)
  BY DEF Servers!RestoreDeferred, McpOpOK, McpNames, McpSteps
<1>2. CASE Servers!Restorable /\ Servers!RestoreUser
  <2>1. declared # "none"
    BY <1>2 DEF Servers!RestoreUser
  <2>2. CASE /\ mounted' = Servers!AsMounted(declared) /\ tracked' = FALSE
             /\ IF declared = "enabled" /\ handlePhase = "running"
                THEN serving' \in BOOLEAN /\ startFailed' = ~serving'
                ELSE serving' = FALSE /\ startFailed' = FALSE
             /\ Servers!McpGoTo("reclaim")
    <3>1. McpOpOK' /\ OpGoesOn("reclaim")
      BY <1>1, <2>2, McpGoToEffect
    <3>2. /\ mounted' \in {"user", "disabled"} /\ (declared = "enabled" => mounted' = "user")
          /\ serving' \in BOOLEAN /\ startFailed' \in BOOLEAN
      BY <2>1, <2>2 DEF Servers!AsMounted, Servers!Declarations
    <3>3. ReleaseInv' /\ Servers!ReleaseRestores'
      BY <1>1, <2>2, <3>1, <3>2 DEF OpGoesOn, OpBecomes, ReleaseInv, Servers!ReleaseRestores
    <3>4. Servers!DiagnosticHasServer' /\ Servers!PluginMountIsTracked'
      BY <3>2 DEF Servers!DiagnosticHasServer, Servers!PluginMountIsTracked
    <3> QED
      BY <1>1, <2>2, <3>1, <3>2, <3>3, <3>4, McpOpStep
  <2>3. CASE /\ serving' \in {serving, FALSE} /\ Servers!McpGoTo("failed")
             /\ UNCHANGED <<mounted, tracked, startFailed>>
    <3>1. McpOpOK' /\ OpGoesOn("failed")
      BY <1>1, <2>3, McpGoToEffect
    <3>2. ReleaseInv' /\ Servers!ReleaseRestores'
      BY <1>1, <2>3, <3>1 DEF OpGoesOn, OpBecomes, ReleaseInv, Servers!ReleaseRestores
    <3>3. Servers!DiagnosticHasServer' /\ Servers!PluginMountIsTracked'
      BY <1>1, <2>3 DEF Servers!DiagnosticHasServer, Servers!PluginMountIsTracked
    <3>4. serving' \in BOOLEAN
      BY <2>3
    <3> QED
      BY <1>1, <2>3, <3>1, <3>2, <3>3, <3>4, McpOpStep
  <2> QED
    BY <1>2, <2>2, <2>3 DEF Servers!RestoreUser
<1>3. CASE Servers!Restorable /\ declared = "none" /\ Servers!UnmountPlugin("reclaim", "failed")
  <2>1. /\ McpOpOK'
        /\ \/ OpGoesOn("reclaim") /\ PluginGone
           \/ OpGoesOn("failed") /\ NothingMounted
    BY <1>1, <1>3, McpUnmountEffect
  <2>2. ReleaseInv' /\ Servers!ReleaseRestores'
    BY <1>1, <1>3, <2>1
    DEF OpGoesOn, OpBecomes, ReleaseInv, Servers!ReleaseRestores, PluginGone, NothingMounted
  <2>3. Servers!DiagnosticHasServer' /\ Servers!PluginMountIsTracked'
    BY <1>1, <2>1
    DEF Servers!DiagnosticHasServer, Servers!PluginMountIsTracked, PluginGone, NothingMounted
  <2>4. /\ mounted' \in {"none", "user", "disabled", "plugin"} /\ serving' \in BOOLEAN
        /\ tracked' \in BOOLEAN /\ startFailed' \in BOOLEAN
    BY <2>1 DEF PluginGone, NothingMounted
  <2> QED
    BY <1>1, <2>1, <2>2, <2>3, <2>4, McpOpStep
<1>4. CASE /\ Servers!Restorable => declared = "none" /\ ~tracked
           /\ Servers!McpGoTo("reclaim") /\ UNCHANGED <<mounted, serving, tracked, startFailed>>
  <2>1. McpOpOK' /\ OpGoesOn("reclaim")
    BY <1>1, <1>4, McpGoToEffect
  <2>2. claims = {} => ~Servers!Owned
    BY DEF Servers!Owned
  <2>3. ReleaseInv' /\ Servers!ReleaseRestores'
    BY <1>1, <1>4, <2>1, <2>2
    DEF OpGoesOn, OpBecomes, ReleaseInv, Servers!ReleaseRestores, Servers!Restorable
  <2>4. Servers!DiagnosticHasServer' /\ Servers!PluginMountIsTracked'
    BY <1>1, <1>4 DEF Servers!DiagnosticHasServer, Servers!PluginMountIsTracked
  <2> QED
    BY <1>1, <1>4, <2>1, <2>3, <2>4, McpOpStep
<1> QED
  BY <1>2, <1>3, <1>4 DEF Servers!RestoreDeferred

LEMMA McpReclaimStep ==
    ASSUME ServersInv, Servers!Reclaim
    PROVE  ServersInv'
<1> USE DEF ServersInv, Servers!McpTypeOK, Servers!McpServersHold, Servers!McpAt
<1>1. /\ UNCHANGED <<declared, enabled, claims, handlePhase, pendingStart, stopping>>
      /\ mcpOp.step = "reclaim" /\ mcpOp.name \in {"enable", "release"}
      /\ "done" \in McpSteps(mcpOp.name) /\ "failed" \in McpSteps(mcpOp.name)
  BY DEF Servers!Reclaim, McpOpOK, McpNames, McpSteps
<1>2. PICK next \in {"done", "failed"} :
          \/ tracked /\ ~mcpOp.independent /\ Servers!UnmountPlugin(next, "failed")
          \/ /\ ~(tracked /\ ~mcpOp.independent /\ ~Servers!Owned)
             /\ Servers!McpGoTo(next) /\ NothingMounted
  BY DEF Servers!Reclaim, NothingMounted
<1>3. CASE tracked /\ ~mcpOp.independent /\ Servers!UnmountPlugin(next, "failed")
  <2>1. /\ McpOpOK'
        /\ \/ OpGoesOn(next) /\ PluginGone
           \/ OpGoesOn("failed") /\ NothingMounted
    BY <1>1, <1>3, McpUnmountEffect
  <2>2. ReleaseInv' /\ Servers!ReleaseRestores'
    BY <1>1, <1>3, <2>1
    DEF OpGoesOn, OpBecomes, ReleaseInv, Servers!ReleaseRestores, PluginGone, NothingMounted
  <2>3. Servers!DiagnosticHasServer' /\ Servers!PluginMountIsTracked'
    BY <1>1, <2>1
    DEF Servers!DiagnosticHasServer, Servers!PluginMountIsTracked, PluginGone, NothingMounted
  <2>4. /\ mounted' \in {"none", "user", "disabled", "plugin"} /\ serving' \in BOOLEAN
        /\ tracked' \in BOOLEAN /\ startFailed' \in BOOLEAN
    BY <2>1 DEF PluginGone, NothingMounted
  <2> QED
    BY <1>1, <2>1, <2>2, <2>3, <2>4, McpOpStep
<1>4. CASE /\ ~(tracked /\ ~mcpOp.independent /\ ~Servers!Owned)
           /\ Servers!McpGoTo(next) /\ NothingMounted
  <2>1. McpOpOK' /\ OpGoesOn(next)
    BY <1>1, <1>4, McpGoToEffect
  <2>2. claims = {} => ~Servers!Owned
    BY DEF Servers!Owned
  <2>3. ReleaseInv' /\ Servers!ReleaseRestores'
    BY <1>1, <1>4, <2>1, <2>2
    DEF OpGoesOn, OpBecomes, ReleaseInv, Servers!ReleaseRestores, NothingMounted,
        Servers!PluginMountIsTracked
  <2>4. Servers!DiagnosticHasServer' /\ Servers!PluginMountIsTracked'
    BY <1>1, <1>4
    DEF Servers!DiagnosticHasServer, Servers!PluginMountIsTracked, NothingMounted
  <2> QED
    BY <1>1, <1>4, <2>1, <2>3, <2>4, McpOpStep DEF NothingMounted
<1> QED
  BY <1>2, <1>3, <1>4

LEMMA ServersStart == Servers!McpInit => ServersInv
<1> SUFFICES ASSUME Servers!McpInit PROVE ServersInv
  OBVIOUS
<1> USE DEF Servers!McpInit, Servers!NoMcpOp
<1>1. McpOpOK /\ mcpOp.name = "none"
  BY DEF McpOpOK, McpNames, McpSteps
<1>2. Servers!McpTypeOK
  BY DEF Servers!McpTypeOK, Servers!Declarations, Servers!AsMounted
<1>3. mounted # "plugin"
  BY DEF Servers!Declarations, Servers!AsMounted
<1> QED
  BY <1>1, <1>2, <1>3
  DEF ServersInv, ReleaseInv, Servers!McpServersHold, Servers!DiagnosticHasServer,
      Servers!PluginMountIsTracked, Servers!ReleaseRestores

LEMMA ServersKeep == ServersInv /\ Servers!McpNext => ServersInv'
<1> SUFFICES ASSUME ServersInv, Servers!McpNext PROVE ServersInv'
  OBVIOUS
<1>1. CASE \/ Servers!PrepareStart \/ Servers!PrepareStartAll \/ Servers!ExecuteStart
           \/ Servers!StartAuthorized \/ Servers!ObserveStart \/ Servers!StopServer
           \/ Servers!StopCleanup \/ Servers!StopComputer
           \/ \E declaration \in Servers!Declarations : Servers!EditDeclaration(declaration)
  BY <1>1, McpSharedSteps
<1>2. CASE \/ Servers!EndMcpOp \/ Servers!RemoveUnmount \/ Servers!RemoveClear
           \/ Servers!RemovePersist \/ \E named \in BOOLEAN : Servers!BeginRemove(named)
  BY <1>2, McpRemoveSteps
<1>3. ASSUME NEW plugin \in Plugins,
             Servers!EnablePlugin(plugin) \/ Servers!ReleasePlugin(plugin)
      PROVE  ServersInv'
  BY <1>3, McpBeginSteps
<1>4. CASE Servers!RegisterServer \/ Servers!CommitEnable \/ Servers!RollBackEnable
  BY <1>4, McpEnableSteps
<1>5. CASE Servers!UnregisterServer \/ Servers!RestoreDeferred \/ Servers!Reclaim
  BY <1>5, McpUnregisterStep, McpRestoreStep, McpReclaimStep
<1>6. CASE \/ Servers!StartBatch \/ Servers!ObserveBatch \/ Servers!BeginBoot
           \/ Servers!Reconcile
  BY <1>6, McpBatchSteps
<1> QED
  BY <1>1, <1>2, <1>3, <1>4, <1>5, <1>6 DEF Servers!McpNext

LEMMA ServersRest == ServersInv /\ UNCHANGED Servers!mcpVars => ServersInv'
  BY DEF Servers!mcpVars, ServersInv, Servers!McpTypeOK, McpOpOK, ReleaseInv,
         Servers!McpServersHold, Servers!DiagnosticHasServer, Servers!PluginMountIsTracked,
         Servers!ReleaseRestores, Servers!McpAt

HIDE DEF Servers!mcpHandle

-----------------------------------------------------------------------------
(* RuntimeEvents: what the relay drops of a batch leaves something of it. *)

UpTo(queue, i) == {j \in Events!Kept(queue) : j <= i}

LEMMA CardinalityOfEvents == \A S : Events!Cardinality(S) = Cardinality(S)
  BY DEF Events!Cardinality, Cardinality

\* Counting up to each place kept numbers them all, so that every number has its place.
LEMMA KeptIsNumbered ==
    ASSUME NEW queue \in Seq(Events!Causes)
    PROVE  /\ Cardinality(Events!Kept(queue)) \in Nat
           /\ queue # <<>> => Cardinality(Events!Kept(queue)) >= 1
           /\ \A n \in 1..Cardinality(Events!Kept(queue)) :
                  Events!Place(queue, n) \in Events!Kept(queue)
<1> DEFINE kept == Events!Kept(queue)
           size == Cardinality(kept)
           number == [i \in kept |-> Cardinality(UpTo(queue, i))]
<1>1. kept \subseteq 1..Len(queue) /\ Len(queue) \in Nat
  BY DEF Events!Kept
<1>2. IsFiniteSet(kept) /\ size \in Nat
  <2>1. IsFiniteSet(1..Len(queue)) /\ kept \in SUBSET (1..Len(queue))
    BY <1>1, FS_Interval
  <2>2. IsFiniteSet(kept)
    BY <2>1, FS_Subset
  <2> QED
    BY <2>2, FS_CardinalityType
<1>3. ASSUME NEW i \in kept
      PROVE  /\ i \in UpTo(queue, i) /\ UpTo(queue, i) \in SUBSET kept
             /\ IsFiniteSet(UpTo(queue, i))
             /\ Cardinality(UpTo(queue, i)) \in 1..size
  <2>1. i \in Nat
    BY <1>1
  <2>2. i \in UpTo(queue, i) /\ UpTo(queue, i) \in SUBSET kept
    BY <2>1 DEF UpTo
  <2>3. IsFiniteSet(UpTo(queue, i)) /\ Cardinality(UpTo(queue, i)) <= size
    BY <1>2, <2>2, FS_Subset
  <2>4. Cardinality(UpTo(queue, i)) \in Nat /\ Cardinality(UpTo(queue, i)) # 0
    BY <2>2, <2>3, FS_CardinalityType, FS_EmptySet
  <2> QED
    BY <1>2, <2>2, <2>3, <2>4
<1>4. ASSUME NEW i \in kept, NEW j \in kept, i < j
      PROVE  Cardinality(UpTo(queue, i)) # Cardinality(UpTo(queue, j))
  <2>1. i \in Nat /\ j \in Nat
    BY <1>1
  <2>2. UpTo(queue, i) \in SUBSET UpTo(queue, j) /\ j \notin UpTo(queue, i)
    BY <1>1, <1>4, <2>1 DEF UpTo
  <2>3. IsFiniteSet(UpTo(queue, j)) /\ j \in UpTo(queue, j)
    BY <1>3
  <2> QED
    BY <2>2, <2>3, FS_Subset
<1>5. number \in Injection(kept, 1..size)
  <2>1. number \in [kept -> 1..size]
    BY <1>3
  <2>2. ASSUME NEW i \in kept, NEW j \in kept, number[i] = number[j] PROVE i = j
    <3>1. i \in Nat /\ j \in Nat
      BY <1>1
    <3>2. ~(i < j) /\ ~(j < i)
      BY <1>4, <2>2
    <3> QED
      BY <3>1, <3>2
  <2> QED
    BY <2>1, <2>2 DEF Injection, IsInjective
<1>6. number \in Surjection(kept, 1..size)
  <2>1. IsFiniteSet(1..size) /\ Cardinality(1..size) = size
    BY <1>2, FS_Interval
  <2> QED
    BY <1>5, <2>1, FS_Injection
<1>7. \A n \in 1..size : \E i \in kept : Cardinality(UpTo(queue, i)) = n
  BY <1>6 DEF Surjection
<1>8. \A n \in 1..size : Events!Place(queue, n) \in kept
  BY <1>7, CardinalityOfEvents DEF Events!Place, UpTo
<1>9. queue # <<>> => Len(queue) \in kept
  <2>1. queue # <<>> => Len(queue) \in DOMAIN queue
    BY <1>1
  <2>2. \A j \in DOMAIN queue : ~(j > Len(queue))
    BY <1>1
  <2> QED
    BY <2>1, <2>2 DEF Events!Kept
<1>10. queue # <<>> => size # 0
  BY <1>2, <1>9, FS_EmptySet
<1> QED
  BY <1>2, <1>8, <1>10

\* The batch of a queue is made of its causes, and is not empty.
LEMMA BatchIsOfQueue ==
    ASSUME NEW queue \in Seq(Events!Causes)
    PROVE  /\ Events!KeepLastOAuth(queue) \in Seq(Events!Causes)
           /\ queue # <<>> => Events!KeepLastOAuth(queue) # <<>>
           /\ \A n \in DOMAIN Events!KeepLastOAuth(queue) :
                 \E i \in DOMAIN queue : Events!KeepLastOAuth(queue)[n] = queue[i]
<1> DEFINE batch == Events!KeepLastOAuth(queue)
           size == Cardinality(Events!Kept(queue))
<1>1. batch = [n \in 1..size |-> queue[Events!Place(queue, n)]]
  BY CardinalityOfEvents DEF Events!KeepLastOAuth
<1>2. size \in Nat /\ (queue # <<>> => size >= 1)
  BY KeptIsNumbered
<1>3. \A n \in 1..size : Events!Place(queue, n) \in DOMAIN queue
  BY KeptIsNumbered DEF Events!Kept
<1>4. \A i \in DOMAIN queue : queue[i] \in Events!Causes
  OBVIOUS
<1>5. batch \in [1..size -> Events!Causes] /\ DOMAIN batch = 1..size
  BY <1>1, <1>3, <1>4
<1>6. batch \in Seq(Events!Causes)
  BY <1>2, <1>5
<1>7. queue # <<>> => batch # <<>>
  <2>1. queue # <<>> => 1 \in DOMAIN batch
    BY <1>2, <1>5
  <2> QED
    BY <2>1
<1> QED
  BY <1>1, <1>3, <1>5, <1>6, <1>7

-----------------------------------------------------------------------------
(* RuntimeEvents. *)

\* The part of a snapshot the screen keeps; the views there are: the one that is shown and
\* those that are under way.
See(s) == [generation |-> s.generation, revision |-> s.revision, change |-> s.change,
           diagnosed |-> s.diagnosed]
UnderWay(t) == taskSnapshot[t] # NoSnapshot /\ taskSnapshot[t].kind = "published"
Views ==
    {shown} \cup (IF relay.taken = NoSnapshot THEN {} ELSE {See(relay.taken)})
        \cup {See(taskSnapshot[t]) : t \in {u \in Tasks : UnderWay(u)}}

\* Who still has to take a snapshot, after a change of the SDK and of the diagnostics.
SdkOwed ==
    \/ relay.generation = generation /\ (relay.queue # <<>> \/ relay.pending # <<>>)
    \/ Events!Replacing
DiagnosticOwed ==
    \E t \in Tasks : taskSnapshot[t] # NoSnapshot
                     /\ taskSnapshot[t].kind \in {"diagnostic", "replaced"}

OfSdk(view) == view.change = sdkChange /\ view.generation = generation

\* The view of the latest revision is the newest, and current unless someone owes another.
ViewsInv ==
    /\ \A s \in Views : s.generation \in 1..generation /\ s.revision \in 1..revision
    /\ \A s \in Views : s.revision = revision =>
           /\ OfSdk(s) \/ SdkOwed
           /\ s.diagnosed = diagnosed \/ DiagnosticOwed
           /\ \A x \in Views : x.generation <= s.generation
\* It is not lost before it is shown.
LatestKept == Events!Replacing \/ \E s \in Views : s.revision = revision

\* There is a relay of the current handle, unless it ended with the handle or somebody
\* replaces it; the last cause it relays is the handle's end.
RelayInv ==
    /\ relay.generation \in {0, generation}
    /\ relay.generation = 0 => relay = Events!NoRelay
    /\ relay.generation = 0 => ended \/ Events!Replacing
    /\ \A i \in DOMAIN relay.queue : relay.queue[i] = "shutdown" => ended
    /\ \A i \in DOMAIN relay.pending : relay.pending[i] = "shutdown" => ended
    /\ relay.taken # NoSnapshot =>
           /\ relay.taken.kind \in Events!Causes \cup {"resync"}
           /\ relay.taken.kind = "shutdown" =>
                  ended /\ \A s \in Views : s.revision = revision => OfSdk(s)

TaskInv ==
    \A t \in Tasks : taskSnapshot[t] # NoSnapshot =>
        taskSnapshot[t].kind \in {"published", "diagnostic", "replaced"}

EventsInv == Events!EventsTypeOK /\ ViewsInv /\ LatestKept /\ RelayInv /\ TaskInv

\* What the types say of the parts the proofs use.
LEMMA EventTypes ==
    ASSUME Events!EventsTypeOK
    PROVE  /\ generation \in {1, 2} /\ revision \in 1..MaxSnapshots /\ MaxSnapshots \in Nat
           /\ sdkChange \in 0..MaxChanges /\ diagnosed \in 0..MaxDiagnostics
           /\ MaxChanges \in Nat /\ MaxDiagnostics \in Nat /\ ended \in BOOLEAN
           /\ relay.generation \in 0..2
           /\ relay.queue \in Seq(Events!Causes)
           /\ relay.pending \in Seq(Events!Causes \cup {"resync"})
           /\ relay.taken # NoSnapshot => relay.taken \in Events!Snapshots
           /\ \A t \in Tasks :
                 taskSnapshot[t] # NoSnapshot => taskSnapshot[t] \in Events!Snapshots
  BY ServicesAssumption DEF Events!EventsTypeOK, Events!RuntimeEventsAssumption

\* A snapshot says what is, under the next revision.
LEMMA SnapshotIsOfNow ==
    ASSUME Events!EventsTypeOK, revision < MaxSnapshots, NEW kind \in Events!Kinds
    PROVE  /\ Events!Snapshot(kind) \in Events!Snapshots
           /\ Events!Snapshot(kind) # NoSnapshot
           /\ Events!Snapshot(kind).kind = kind
           /\ Events!Snapshot(kind).revision = revision + 1
           /\ See(Events!Snapshot(kind)).generation = generation
           /\ See(Events!Snapshot(kind)).revision = revision + 1
           /\ See(Events!Snapshot(kind)).change = sdkChange
           /\ See(Events!Snapshot(kind)).diagnosed = diagnosed
<1>1. generation \in 1..2 /\ revision + 1 \in 0..MaxSnapshots
      /\ sdkChange \in 0..MaxChanges /\ diagnosed \in 0..MaxDiagnostics
      /\ oauthStatus \in 0..MaxChanges
  BY EventTypes DEF Events!EventsTypeOK
<1>2. Events!Snapshot(kind) \in Events!Snapshots
  BY <1>1 DEF Events!Snapshot, Events!Snapshots, Events!Problems
<1>3. NoSnapshot \notin Events!Snapshots
  BY ServicesAssumption DEF Events!RuntimeEventsAssumption
<1> QED
  BY <1>1, <1>2, <1>3 DEF Events!Snapshot, Events!Problems, See

\* A command that owes an event has it as a record of its kind.
LEMMA OwedIsTyped ==
    ASSUME Events!EventsTypeOK, NEW kind \in Events!Kinds
    PROVE  /\ Events!Owed(kind) \in Events!Snapshots
           /\ Events!Owed(kind) # NoSnapshot
           /\ Events!Owed(kind).kind = kind
<1>1. Events!Owed(kind) \in Events!Snapshots
  BY EventTypes DEF Events!Owed, Events!Snapshots, Events!EventsTypeOK
<1>2. NoSnapshot \notin Events!Snapshots
  BY ServicesAssumption DEF Events!RuntimeEventsAssumption
<1> QED
  BY <1>1, <1>2 DEF Events!Owed

LEMMA EventKinds ==
    /\ Events!Causes \subseteq Events!Kinds
    /\ {"resync", "published", "diagnostic", "replaced"} \subseteq Events!Kinds
  BY DEF Events!Kinds

\* No view is added: what is left of the invariant is what the latest says.
LEMMA OldViews ==
    ASSUME Events!EventsTypeOK, ViewsInv, Views' \subseteq Views,
           revision' = revision, generation' \in Nat, generation' >= generation,
           \A s \in Views' : s.revision = revision =>
               /\ (s.change = sdkChange' /\ s.generation = generation') \/ SdkOwed'
               /\ s.diagnosed = diagnosed' \/ DiagnosticOwed'
    PROVE  ViewsInv'
<1>1. generation \in Nat /\ revision \in Nat
  BY EventTypes
<1>2. \A s \in Views' : s.generation \in 1..generation' /\ s.revision \in 1..revision'
  BY <1>1 DEF ViewsInv
<1>3. \A s \in Views' : s.revision = revision' => \A x \in Views' : x.generation <= s.generation
  BY DEF ViewsInv
<1> QED
  BY <1>2, <1>3 DEF ViewsInv, OfSdk

\* A view of what is, under a new revision: it is the only latest.
LEMMA NewView ==
    ASSUME Events!EventsTypeOK, ViewsInv, NEW v, v \in Views', Views' \subseteq Views \cup {v},
           UNCHANGED <<generation, sdkChange, diagnosed>>, revision' = revision + 1,
           v.revision = revision + 1, v.generation = generation, v.change = sdkChange,
           v.diagnosed = diagnosed
    PROVE  /\ ViewsInv' /\ LatestKept'
           /\ \A s \in Views' : s.revision = revision' => OfSdk(s)'
<1>1. generation \in {1, 2} /\ revision \in Nat /\ revision >= 1
  BY EventTypes
<1>2. \A s \in Views : s.generation \in 1..generation /\ s.revision \in 1..revision
  BY DEF ViewsInv
<1>3. \A s \in Views' : s.revision = revision' => s = v
  BY <1>1, <1>2
<1>4. \A s \in Views' : s.generation \in 1..generation' /\ s.revision \in 1..revision'
  BY <1>1, <1>2
<1>5. \A x \in Views' : x.generation <= v.generation
  BY <1>1, <1>4
<1>6. LatestKept'
  BY DEF LatestKept
<1> QED
  BY <1>3, <1>4, <1>5, <1>6 DEF ViewsInv, OfSdk

\* A broadcast reaches the relay of the current handle.
LEMMA BroadcastReaches ==
    ASSUME Events!EventsTypeOK, NEW kind \in Events!Causes, Events!Broadcast(kind)
    PROVE  /\ relay' \in [generation : 0..2, queue : Seq(Events!Causes), lagged : BOOLEAN,
                          pending : Seq(Events!Causes \cup {"resync"}),
                          taken : Events!Snapshots \cup {NoSnapshot}]
           /\ Len(relay'.queue) <= EventCapacity
           /\ relay'.generation = relay.generation /\ relay'.pending = relay.pending
           /\ relay'.taken = relay.taken
           /\ relay.generation = generation => relay'.queue # <<>>
           /\ relay.generation # generation => relay' = relay
           /\ \A i \in DOMAIN relay'.queue :
                 relay'.queue[i] = kind \/ \E j \in DOMAIN relay.queue :
                                               relay'.queue[i] = relay.queue[j]
<1>1. CASE relay.generation # generation
  BY <1>1 DEF Events!Broadcast, Events!EventsTypeOK
<1>2. CASE relay.generation = generation /\ Len(relay.queue) < EventCapacity
  <2>1. relay' = [relay EXCEPT !.queue = Append(relay.queue, kind)]
    BY <1>2 DEF Events!Broadcast
  <2>2. Append(relay.queue, kind) \in Seq(Events!Causes)
    BY EventTypes
  <2>3. Len(Append(relay.queue, kind)) = Len(relay.queue) + 1
        /\ Append(relay.queue, kind) # <<>>
    BY EventTypes
  <2>4. \A i \in DOMAIN Append(relay.queue, kind) :
            Append(relay.queue, kind)[i] = kind
            \/ \E j \in DOMAIN relay.queue : Append(relay.queue, kind)[i] = relay.queue[j]
    BY EventTypes
  <2>5. EventCapacity \in Nat
    BY ServicesAssumption DEF Events!RuntimeEventsAssumption
  <2>6. Len(relay.queue) \in Nat
    BY EventTypes
  <2> HIDE DEF Events!Causes
  <2>7. relay'.queue = Append(relay.queue, kind)
    BY <2>1 DEF Events!EventsTypeOK
  <2>8. /\ relay'.generation = relay.generation /\ relay'.pending = relay.pending
        /\ relay'.taken = relay.taken
    BY <2>1 DEF Events!EventsTypeOK
  <2>9. relay' \in [generation : 0..2, queue : Seq(Events!Causes), lagged : BOOLEAN,
                    pending : Seq(Events!Causes \cup {"resync"}),
                    taken : Events!Snapshots \cup {NoSnapshot}]
    BY <2>1, <2>2 DEF Events!EventsTypeOK
  <2> QED
    BY <1>2, <2>2, <2>3, <2>4, <2>5, <2>6, <2>7, <2>8, <2>9
<1>3. CASE relay.generation = generation /\ ~(Len(relay.queue) < EventCapacity)
  <2>1. relay' = [relay EXCEPT !.queue = Append(Tail(relay.queue), kind), !.lagged = TRUE]
    BY <1>3 DEF Events!Broadcast
  <2>2. EventCapacity \in Nat \ {0} /\ Len(relay.queue) \in Nat
        /\ Len(relay.queue) = EventCapacity
    BY <1>3, ServicesAssumption, EventTypes
    DEF Events!RuntimeEventsAssumption, Events!EventsTypeOK
  <2>3. relay.queue # <<>> /\ relay.queue \in Seq(Events!Causes)
    BY <2>2, EventTypes
  <2>4. Tail(relay.queue) \in Seq(Events!Causes)
        /\ Len(Tail(relay.queue)) = Len(relay.queue) - 1
        /\ \A i \in DOMAIN Tail(relay.queue) :
              i + 1 \in DOMAIN relay.queue /\ Tail(relay.queue)[i] = relay.queue[i + 1]
    BY <2>3
  <2> DEFINE grown == Append(Tail(relay.queue), kind)
  <2>5. grown \in Seq(Events!Causes) /\ Len(grown) = Len(relay.queue) /\ grown # <<>>
    BY <2>2, <2>4
  <2>6. \A i \in DOMAIN grown :
            grown[i] = kind \/ \E j \in DOMAIN relay.queue : grown[i] = relay.queue[j]
    BY <2>4
  <2>7. relay'.queue = grown
    BY <2>1 DEF Events!EventsTypeOK
  <2> HIDE DEF grown
  <2>8. relay' = [relay EXCEPT !.queue = grown, !.lagged = TRUE]
    BY <2>1 DEF grown
  <2>9. /\ relay'.generation = relay.generation /\ relay'.pending = relay.pending
        /\ relay'.taken = relay.taken
    BY <2>8 DEF Events!EventsTypeOK
  <2>10. relay' \in [generation : 0..2, queue : Seq(Events!Causes), lagged : BOOLEAN,
                     pending : Seq(Events!Causes \cup {"resync"}),
                     taken : Events!Snapshots \cup {NoSnapshot}]
    BY <2>5, <2>8 DEF Events!EventsTypeOK
  <2> QED
    BY <1>3, <2>2, <2>5, <2>6, <2>7, <2>9, <2>10
<1> QED
  BY <1>1, <1>2, <1>3

LEMMA SdkChangeStep ==
    ASSUME EventsInv, NEW kind \in Events!Causes, Events!SdkChanges(kind)
    PROVE  EventsInv'
<1>1. /\ ended = FALSE /\ sdkChange < MaxChanges /\ sdkChange' = sdkChange + 1
      /\ oauthStatus' \in {oauthStatus, sdkChange'} /\ ended' = (kind = "shutdown")
      /\ kind = "shutdown" => ~Events!Replacing
      /\ UNCHANGED <<generation, diagnosed, revision, taskSnapshot, shown, shownOAuth>>
  BY DEF Events!SdkChanges, EventsInv, Events!EventsTypeOK
<1>2. /\ Len(relay'.queue) <= EventCapacity
      /\ relay'.generation = relay.generation /\ relay'.pending = relay.pending
      /\ relay'.taken = relay.taken
      /\ relay.generation = generation => relay'.queue # <<>>
      /\ relay.generation # generation => relay' = relay
      /\ \A i \in DOMAIN relay'.queue :
            relay'.queue[i] = kind \/ \E j \in DOMAIN relay.queue :
                                          relay'.queue[i] = relay.queue[j]
  BY BroadcastReaches DEF Events!SdkChanges, EventsInv
<1>3. relay' \in [generation : 0..2, queue : Seq(Events!Causes), lagged : BOOLEAN,
                  pending : Seq(Events!Causes \cup {"resync"}),
                  taken : Events!Snapshots \cup {NoSnapshot}]
  BY BroadcastReaches DEF Events!SdkChanges, EventsInv
<1>4. Events!EventsTypeOK /\ ViewsInv /\ LatestKept /\ RelayInv /\ TaskInv
  BY DEF EventsInv
<1>5. sdkChange' \in 0..MaxChanges /\ oauthStatus' \in 0..MaxChanges
  <2>1. sdkChange \in 0..MaxChanges /\ MaxChanges \in Nat
    BY <1>4, EventTypes
  <2> QED
    BY <1>1, <1>4, <2>1 DEF Events!EventsTypeOK
<1>6. Events!EventsTypeOK'
  BY <1>1, <1>2, <1>3, <1>4, <1>5 DEF Events!EventsTypeOK
<1>7. Views' = Views
  BY <1>1, <1>2 DEF Views, UnderWay
<1>8. Events!Replacing' = Events!Replacing /\ DiagnosticOwed' = DiagnosticOwed
  BY <1>1 DEF Events!Replacing, DiagnosticOwed
<1>9. SdkOwed'
  BY <1>1, <1>2, <1>4, <1>8 DEF SdkOwed, RelayInv
<1>10. ViewsInv'
  <2>1. generation' \in Nat /\ generation' >= generation
    BY <1>1, <1>4, EventTypes
  <2>2. \A s \in Views : s.revision = revision => s.diagnosed = diagnosed \/ DiagnosticOwed
    BY <1>4 DEF ViewsInv
  <2> QED
    BY <1>1, <1>4, <1>7, <1>8, <1>9, <2>1, <2>2, OldViews
<1>11. LatestKept'
  BY <1>1, <1>4, <1>7, <1>8 DEF LatestKept
<1>12. RelayInv'
  <2>1. \A i \in DOMAIN relay.queue : relay.queue[i] # "shutdown"
    BY <1>1, <1>4 DEF RelayInv
  <2>2. \A i \in DOMAIN relay.pending : relay.pending[i] # "shutdown"
    BY <1>1, <1>4 DEF RelayInv
  <2>3. \A i \in DOMAIN relay'.queue : relay'.queue[i] = "shutdown" => ended'
    BY <1>1, <1>2, <2>1
  <2>4. relay.generation = 0 => generation # 0
    BY <1>4, EventTypes
  <2>5. relay.taken # NoSnapshot =>
            relay.taken.kind \in Events!Causes \cup {"resync"}
            /\ relay.taken.kind # "shutdown"
    BY <1>1, <1>4 DEF RelayInv
  <2>6. /\ relay.generation \in {0, generation}
        /\ relay.generation = 0 => relay = Events!NoRelay
        /\ relay.generation = 0 => ended \/ Events!Replacing
    BY <1>4 DEF RelayInv
  <2> HIDE DEF Events!Causes, Events!Replacing
  <2>7. relay'.generation = 0 => relay' = Events!NoRelay /\ (ended' \/ Events!Replacing')
    BY <1>1, <1>2, <1>8, <2>4, <2>6 DEF Events!NoRelay
  <2> QED
    BY <1>1, <1>2, <2>2, <2>3, <2>5, <2>6, <2>7 DEF RelayInv
<1>13. TaskInv'
  BY <1>1, <1>4 DEF TaskInv
<1> QED
  BY <1>6, <1>10, <1>11, <1>12, <1>13 DEF EventsInv

LEMMA RelayReceiveStep ==
    ASSUME EventsInv, Events!RelayReceive
    PROVE  EventsInv'
<1>1. Events!EventsTypeOK /\ ViewsInv /\ LatestKept /\ RelayInv /\ TaskInv
  BY DEF EventsInv
<1>2. /\ relay.pending = <<>> /\ relay.taken = NoSnapshot /\ relay.queue # <<>>
      /\ relay.generation # 0
      /\ UNCHANGED <<generation, sdkChange, oauthStatus, diagnosed, ended, revision,
                     taskSnapshot, shown, shownOAuth>>
  BY DEF Events!RelayReceive
<1> DEFINE batch == IF relay.lagged THEN <<"resync">> ELSE Events!KeepLastOAuth(relay.queue)
<1>3. relay' = [relay EXCEPT !.queue = <<>>, !.lagged = FALSE, !.pending = batch]
  BY DEF Events!RelayReceive
<1>4. /\ batch \in Seq(Events!Causes \cup {"resync"}) /\ batch # <<>>
      /\ \A n \in DOMAIN batch : batch[n] = "shutdown" =>
            \E i \in DOMAIN relay.queue : relay.queue[i] = "shutdown"
  <2>1. relay.queue \in Seq(Events!Causes)
    BY <1>1, EventTypes
  <2>2. CASE relay.lagged
    BY <2>2
  <2>3. CASE ~relay.lagged
    <3>1. batch = Events!KeepLastOAuth(relay.queue)
      BY <2>3
    <3>2. batch \in Seq(Events!Causes) /\ batch # <<>>
          /\ \A n \in DOMAIN batch : \E i \in DOMAIN relay.queue : batch[n] = relay.queue[i]
      BY <1>2, <2>1, <3>1, BatchIsOfQueue
    <3> HIDE DEF batch, Events!Causes
    <3>3. batch \in Seq(Events!Causes \cup {"resync"})
      BY <3>2
    <3> QED
      BY <3>2, <3>3
  <2> QED
    BY <2>2, <2>3
<1> HIDE DEF batch, Events!Causes
<1>5. relay' \in [generation : 0..2, queue : Seq(Events!Causes), lagged : BOOLEAN,
                  pending : Seq(Events!Causes \cup {"resync"}),
                  taken : Events!Snapshots \cup {NoSnapshot}]
  <2>1. relay \in [generation : 0..2, queue : Seq(Events!Causes), lagged : BOOLEAN,
                   pending : Seq(Events!Causes \cup {"resync"}),
                   taken : Events!Snapshots \cup {NoSnapshot}]
    BY <1>1 DEF Events!EventsTypeOK
  <2>2. batch \in Seq(Events!Causes \cup {"resync"}) /\ <<>> \in Seq(Events!Causes)
    BY <1>4
  <2> HIDE DEF Events!Snapshots
  <2> QED
    BY <1>3, <2>1, <2>2
<1>6. /\ relay'.queue = <<>> /\ relay'.pending = batch /\ relay'.taken = relay.taken
      /\ relay'.generation = relay.generation
  BY <1>1, <1>3 DEF Events!EventsTypeOK
<1>7. Events!EventsTypeOK'
  <2>1. EventCapacity \in Nat /\ Len(relay'.queue) = 0
    BY <1>6, ServicesAssumption DEF Events!RuntimeEventsAssumption
  <2> QED
    BY <1>1, <1>2, <1>5, <2>1 DEF Events!EventsTypeOK
<1>8. Views' = Views
  BY <1>2, <1>6 DEF Views, UnderWay
<1>9. Events!Replacing' = Events!Replacing /\ DiagnosticOwed' = DiagnosticOwed
  BY <1>2 DEF Events!Replacing, DiagnosticOwed
<1>10. SdkOwed => SdkOwed'
  BY <1>2, <1>4, <1>6, <1>9 DEF SdkOwed
<1>11. ViewsInv'
  <2>1. generation' \in Nat /\ generation' >= generation
    BY <1>1, <1>2, EventTypes
  <2> QED
    BY <1>1, <1>2, <1>8, <1>9, <1>10, <2>1, OldViews DEF ViewsInv, OfSdk
<1>12. LatestKept'
  BY <1>1, <1>2, <1>8, <1>9 DEF LatestKept
<1>13. RelayInv'
  <2>1. \A n \in DOMAIN batch : batch[n] = "shutdown" => ended
    BY <1>1, <1>4 DEF RelayInv
  <2> QED
    BY <1>1, <1>2, <1>6, <2>1 DEF RelayInv
<1>14. TaskInv'
  BY <1>1, <1>2 DEF TaskInv
<1> QED
  BY <1>7, <1>11, <1>12, <1>13, <1>14 DEF EventsInv

LEMMA StartRelayStep ==
    ASSUME EventsInv, Events!StartRelay
    PROVE  EventsInv'
<1>1. Events!EventsTypeOK /\ ViewsInv /\ LatestKept /\ RelayInv /\ TaskInv
  BY DEF EventsInv
<1>2. /\ ended = FALSE /\ relay.generation # generation
      /\ relay' = Events!RelayOf(generation)
      /\ UNCHANGED <<generation, sdkChange, oauthStatus, diagnosed, ended, revision,
                     taskSnapshot, shown, shownOAuth>>
  BY <1>1 DEF Events!StartRelay, Events!EventsTypeOK
<1>3. relay = Events!NoRelay /\ relay.taken = NoSnapshot /\ Events!Replacing
  BY <1>1, <1>2 DEF RelayInv, Events!NoRelay
<1>4. /\ relay'.generation = generation /\ relay'.queue = <<>> /\ relay'.pending = <<>>
      /\ relay'.taken = NoSnapshot
  BY <1>2 DEF Events!RelayOf, Events!NoRelay
<1>5. relay' \in [generation : 0..2, queue : Seq(Events!Causes), lagged : BOOLEAN,
                  pending : Seq(Events!Causes \cup {"resync"}),
                  taken : Events!Snapshots \cup {NoSnapshot}]
  <2>1. generation \in 0..2
    BY <1>1, EventTypes
  <2>2. relay' = [generation |-> generation, queue |-> <<>>, lagged |-> FALSE, pending |-> <<>>,
                  taken |-> NoSnapshot]
    BY <1>2 DEF Events!RelayOf, Events!NoRelay
  <2>3. <<>> \in Seq(Events!Causes) /\ <<>> \in Seq(Events!Causes \cup {"resync"})
    OBVIOUS
  <2> HIDE DEF Events!Snapshots
  <2> QED
    BY <2>1, <2>2, <2>3
<1>6. Events!EventsTypeOK'
  <2>1. EventCapacity \in Nat /\ Len(relay'.queue) = 0
    BY <1>4, ServicesAssumption DEF Events!RuntimeEventsAssumption
  <2> QED
    BY <1>1, <1>2, <1>5, <2>1 DEF Events!EventsTypeOK
<1>7. Views' = Views
  BY <1>2, <1>3, <1>4 DEF Views, UnderWay
<1>8. Events!Replacing' = Events!Replacing /\ DiagnosticOwed' = DiagnosticOwed
  BY <1>2 DEF Events!Replacing, DiagnosticOwed
<1>9. SdkOwed'
  BY <1>3, <1>8 DEF SdkOwed
<1>10. ViewsInv'
  <2>1. generation' \in Nat /\ generation' >= generation
    BY <1>1, <1>2, EventTypes
  <2> QED
    BY <1>1, <1>2, <1>7, <1>8, <1>9, <2>1, OldViews DEF ViewsInv, OfSdk
<1>11. LatestKept'
  BY <1>3, <1>8 DEF LatestKept
<1>12. RelayInv'
  <2>1. generation # 0
    BY <1>1, EventTypes
  <2> QED
    BY <1>2, <1>4, <2>1 DEF RelayInv
<1>13. TaskInv'
  BY <1>1, <1>2 DEF TaskInv
<1> QED
  BY <1>6, <1>10, <1>11, <1>12, <1>13 DEF EventsInv

LEMMA DiagnosticStep ==
    ASSUME EventsInv, NEW t \in Tasks, Events!ChangeDiagnostic(t)
    PROVE  EventsInv'
<1>1. Events!EventsTypeOK /\ ViewsInv /\ LatestKept /\ RelayInv /\ TaskInv
  BY DEF EventsInv
<1>2. /\ taskSnapshot[t] = NoSnapshot /\ diagnosed < MaxDiagnostics
      /\ diagnosed' = diagnosed + 1
      /\ taskSnapshot' = [taskSnapshot EXCEPT ![t] = Events!Owed("diagnostic")]
      /\ UNCHANGED <<generation, sdkChange, oauthStatus, ended, revision, relay, shown,
                     shownOAuth>>
  BY DEF Events!ChangeDiagnostic
<1> DEFINE owed == Events!Owed("diagnostic")
<1>3. owed \in Events!Snapshots /\ owed # NoSnapshot /\ owed.kind = "diagnostic"
  BY <1>1, OwedIsTyped, EventKinds
<1>4. taskSnapshot'[t] = owed /\ \A u \in Tasks \ {t} : taskSnapshot'[u] = taskSnapshot[u]
  BY <1>1, <1>2 DEF Events!EventsTypeOK
<1> HIDE DEF owed
<1>5. Events!EventsTypeOK'
  <2>1. taskSnapshot' \in [Tasks -> Events!Snapshots \cup {NoSnapshot}]
    BY <1>1, <1>2, <1>3 DEF Events!EventsTypeOK, owed
  <2>2. diagnosed' \in 0..MaxDiagnostics
    BY <1>1, <1>2, EventTypes
  <2> QED
    BY <1>1, <1>2, <2>1, <2>2 DEF Events!EventsTypeOK
<1>6. Views' = Views
  <2>1. \A u \in Tasks : UnderWay(u) => u # t /\ taskSnapshot'[u] = taskSnapshot[u]
    BY <1>2, <1>4 DEF UnderWay
  <2>2. \A u \in Tasks : UnderWay(u)' = UnderWay(u)
    BY <1>2, <1>3, <1>4 DEF UnderWay
  <2>3. {See(taskSnapshot[u]) : u \in {w \in Tasks : UnderWay(w)}}'
        = {See(taskSnapshot[u]) : u \in {w \in Tasks : UnderWay(w)}}
    BY <2>1, <2>2 DEF See
  <2> QED
    BY <1>2, <2>3 DEF Views
<1>7. DiagnosticOwed'
  BY <1>3, <1>4 DEF DiagnosticOwed
<1>8. Events!Replacing => Events!Replacing'
  BY <1>2, <1>4 DEF Events!Replacing
<1>9. SdkOwed => SdkOwed'
  BY <1>2, <1>8 DEF SdkOwed
<1>10. ViewsInv'
  <2>1. generation' \in Nat /\ generation' >= generation
    BY <1>1, <1>2, EventTypes
  <2> QED
    BY <1>1, <1>2, <1>6, <1>7, <1>9, <2>1, OldViews DEF ViewsInv, OfSdk
<1>11. LatestKept'
  BY <1>1, <1>2, <1>6, <1>8 DEF LatestKept
<1>12. RelayInv'
  BY <1>1, <1>2, <1>6, <1>8 DEF RelayInv, OfSdk, Events!NoRelay
<1>13. TaskInv'
  BY <1>1, <1>3, <1>4 DEF TaskInv
<1> QED
  BY <1>5, <1>10, <1>11, <1>12, <1>13 DEF EventsInv

LEMMA ReplaceHandleStep ==
    ASSUME EventsInv, NEW t \in Tasks, Events!ReplaceHandle(t)
    PROVE  EventsInv'
<1>1. Events!EventsTypeOK /\ ViewsInv /\ LatestKept /\ RelayInv /\ TaskInv
  BY DEF EventsInv
<1>2. /\ generation = 1 /\ taskSnapshot[t] = NoSnapshot
      /\ sdkChange < MaxChanges /\ diagnosed < MaxDiagnostics
      /\ generation' = 2 /\ sdkChange' = sdkChange + 1 /\ diagnosed' = diagnosed + 1
      /\ ended' = FALSE /\ oauthStatus' = 0 /\ shownOAuth' = 0 /\ relay' = Events!NoRelay
      /\ taskSnapshot' = [taskSnapshot EXCEPT ![t] = Events!Owed("replaced")]
      /\ UNCHANGED <<revision, shown>>
  BY DEF Events!ReplaceHandle
<1> DEFINE owed == Events!Owed("replaced")
<1>3. owed \in Events!Snapshots /\ owed # NoSnapshot /\ owed.kind = "replaced"
  BY <1>1, OwedIsTyped, EventKinds
<1>4. taskSnapshot'[t] = owed /\ \A u \in Tasks \ {t} : taskSnapshot'[u] = taskSnapshot[u]
  BY <1>1, <1>2 DEF Events!EventsTypeOK
<1> HIDE DEF owed
<1>5. Events!EventsTypeOK'
  <2>1. taskSnapshot' \in [Tasks -> Events!Snapshots \cup {NoSnapshot}]
    BY <1>1, <1>2, <1>3 DEF Events!EventsTypeOK, owed
  <2>2. /\ diagnosed' \in 0..MaxDiagnostics /\ sdkChange' \in 0..MaxChanges
        /\ oauthStatus' \in 0..MaxChanges /\ shownOAuth' \in 0..MaxChanges
    BY <1>1, <1>2, EventTypes
  <2>3. relay' \in [generation : 0..2, queue : Seq(Events!Causes), lagged : BOOLEAN,
                    pending : Seq(Events!Causes \cup {"resync"}),
                    taken : Events!Snapshots \cup {NoSnapshot}]
    <3>1. <<>> \in Seq(Events!Causes) /\ <<>> \in Seq(Events!Causes \cup {"resync"})
      OBVIOUS
    <3> QED
      BY <1>2, <3>1 DEF Events!NoRelay
  <2>4. EventCapacity \in Nat /\ Len(relay'.queue) = 0
    BY <1>2, ServicesAssumption DEF Events!RuntimeEventsAssumption, Events!NoRelay
  <2>5. /\ revision' = revision /\ revision \in 1..MaxSnapshots /\ shown' = shown
        /\ generation' \in 1..2
    BY <1>1, <1>2, EventTypes
  <2>8. ended' \in BOOLEAN
    BY <1>2, Zenon
  <2>6. shown \in [generation : 1..2, revision : 1..MaxSnapshots, change : 0..MaxChanges,
                   diagnosed : 0..MaxDiagnostics]
    BY <1>1 DEF Events!EventsTypeOK
  <2>7. Len(relay'.queue) <= EventCapacity
    BY <2>4
  <2> QED
    BY <2>1, <2>2, <2>3, <2>5, <2>6, <2>7, <2>8 DEF Events!EventsTypeOK
<1>6. Views' \subseteq Views
  <2>1. \A u \in Tasks : UnderWay(u)' => UnderWay(u) /\ taskSnapshot'[u] = taskSnapshot[u]
    BY <1>2, <1>3, <1>4 DEF UnderWay
  <2>2. {See(taskSnapshot[u]) : u \in {w \in Tasks : UnderWay(w)}}'
        \subseteq {See(taskSnapshot[u]) : u \in {w \in Tasks : UnderWay(w)}}
    BY <2>1 DEF See
  <2>3. relay'.taken = NoSnapshot
    BY <1>2 DEF Events!NoRelay
  <2> QED
    BY <1>2, <2>2, <2>3 DEF Views
<1>7. DiagnosticOwed' /\ Events!Replacing'
  BY <1>3, <1>4 DEF DiagnosticOwed, Events!Replacing
<1>8. ViewsInv'
  <2>1. generation' \in Nat /\ generation' >= generation /\ SdkOwed'
    BY <1>2, <1>7 DEF SdkOwed
  <2> QED
    BY <1>1, <1>2, <1>6, <1>7, <2>1, OldViews
<1>9. LatestKept'
  BY <1>7 DEF LatestKept
<1>10. RelayInv'
  BY <1>2, <1>7 DEF RelayInv, Events!NoRelay
<1>11. TaskInv'
  BY <1>1, <1>3, <1>4 DEF TaskInv
<1> QED
  BY <1>5, <1>8, <1>9, <1>10, <1>11 DEF EventsInv

\* A command takes a snapshot: it queries, or it owed an event.
LEMMA TaskTakeStep ==
    ASSUME EventsInv, NEW t \in Tasks, Events!QueryStatus(t) \/ Events!PublishTake(t)
    PROVE  EventsInv'
<1>1. Events!EventsTypeOK /\ ViewsInv /\ LatestKept /\ RelayInv /\ TaskInv
  BY DEF EventsInv
<1>2. /\ revision < MaxSnapshots /\ revision' = revision + 1
      /\ taskSnapshot[t] = NoSnapshot \/ taskSnapshot[t].kind # "published"
      /\ taskSnapshot[t] # NoSnapshot /\ taskSnapshot[t].kind = "replaced" =>
             relay.generation = generation
      /\ taskSnapshot' = [taskSnapshot EXCEPT ![t] = Events!Snapshot("published")]
      /\ UNCHANGED <<generation, sdkChange, oauthStatus, diagnosed, ended, relay, shown,
                     shownOAuth>>
  BY DEF Events!QueryStatus, Events!Take, Events!PublishTake
<1> DEFINE new == Events!Snapshot("published")
           view == See(new)
<1>3. new \in Events!Snapshots /\ new # NoSnapshot /\ new.kind = "published"
  BY <1>1, <1>2, SnapshotIsOfNow, EventKinds
<1>4. /\ view.generation = generation /\ view.revision = revision + 1
      /\ view.change = sdkChange /\ view.diagnosed = diagnosed
  BY <1>1, <1>2, SnapshotIsOfNow, EventKinds
<1>5. taskSnapshot'[t] = new /\ \A u \in Tasks \ {t} : taskSnapshot'[u] = taskSnapshot[u]
  BY <1>1, <1>2 DEF Events!EventsTypeOK
<1>6. taskSnapshot' \in [Tasks -> Events!Snapshots \cup {NoSnapshot}]
  BY <1>1, <1>2, <1>3 DEF Events!EventsTypeOK
<1> HIDE DEF new
<1>7. Events!EventsTypeOK'
  <2>1. revision' \in 1..MaxSnapshots
    BY <1>1, <1>2, EventTypes
  <2> QED
    BY <1>1, <1>2, <1>6, <2>1 DEF Events!EventsTypeOK
<1>8. view \in Views' /\ Views' \subseteq Views \cup {view}
  <2>1. UnderWay(t)' /\ See(taskSnapshot[t])' = view
    BY <1>3, <1>5 DEF UnderWay, See
  <2>2. \A u \in Tasks \ {t} : UnderWay(u)' = UnderWay(u)
            /\ See(taskSnapshot[u])' = See(taskSnapshot[u])
    BY <1>5 DEF UnderWay, See
  <2>3. {See(taskSnapshot[u]) : u \in {w \in Tasks : UnderWay(w)}}'
        \subseteq {See(taskSnapshot[u]) : u \in {w \in Tasks : UnderWay(w)}} \cup {view}
    BY <2>1, <2>2
  <2>4. view \in {See(taskSnapshot[u]) : u \in {w \in Tasks : UnderWay(w)}}'
    BY <2>1
  <2> HIDE DEF view
  <2> QED
    BY <1>2, <2>3, <2>4 DEF Views, See
<1> HIDE DEF view
<1>9. /\ ViewsInv' /\ LatestKept'
      /\ \A s \in Views' : s.revision = revision' => OfSdk(s)'
  BY <1>1, <1>2, <1>4, <1>8, NewView
<1>10. Events!Replacing /\ ~Events!Replacing' => relay.generation = generation
  <2>1. ASSUME NEW u \in Tasks, taskSnapshot[u] # NoSnapshot, taskSnapshot[u].kind = "replaced",
               ~Events!Replacing'
        PROVE  relay.generation = generation
    <3>1. u = t
      BY <1>5, <2>1 DEF Events!Replacing
    <3> QED
      BY <1>2, <2>1, <3>1
  <2> QED
    BY <2>1 DEF Events!Replacing
<1>11. RelayInv'
  <2>1. generation # 0
    BY <1>1, EventTypes
  <2> HIDE DEF Events!Replacing
  <2> QED
    BY <1>1, <1>2, <1>9, <1>10, <2>1 DEF RelayInv, Events!NoRelay
<1>12. TaskInv'
  BY <1>1, <1>3, <1>5 DEF TaskInv
<1> QED
  BY <1>7, <1>9, <1>11, <1>12 DEF EventsInv

LEMMA RelayTakeStep ==
    ASSUME EventsInv, Events!RelayTake
    PROVE  EventsInv'
<1>1. Events!EventsTypeOK /\ ViewsInv /\ LatestKept /\ RelayInv /\ TaskInv
  BY DEF EventsInv
<1>2. relay.pending # <<>> /\ relay.taken = NoSnapshot /\ revision < MaxSnapshots
      /\ UNCHANGED <<generation, sdkChange, oauthStatus, diagnosed, ended, taskSnapshot,
                     shown, shownOAuth>>
  BY DEF Events!RelayTake
<1>3. relay.generation = generation
  BY <1>1, <1>2 DEF RelayInv, Events!NoRelay
<1> DEFINE new == Events!Snapshot(Head(relay.pending))
           view == See(new)
<1>4. revision' = revision + 1
      /\ relay' = [relay EXCEPT !.pending = Tail(relay.pending), !.taken = new]
  BY <1>3 DEF Events!RelayTake
<1>5. /\ Head(relay.pending) \in Events!Causes \cup {"resync"}
      /\ Head(relay.pending) = relay.pending[1] /\ 1 \in DOMAIN relay.pending
      /\ Tail(relay.pending) \in Seq(Events!Causes \cup {"resync"})
      /\ \A i \in DOMAIN Tail(relay.pending) :
            i + 1 \in DOMAIN relay.pending /\ Tail(relay.pending)[i] = relay.pending[i + 1]
  <2> HIDE DEF Events!Causes
  <2>1. relay.pending \in Seq(Events!Causes \cup {"resync"}) /\ relay.pending # <<>>
    BY <1>1, <1>2, EventTypes
  <2> QED
    BY <2>1
<1> HIDE DEF Events!Causes
<1>6. Head(relay.pending) \in Events!Kinds
  BY <1>5, EventKinds
<1>7. new \in Events!Snapshots /\ new # NoSnapshot /\ new.kind = Head(relay.pending)
  BY <1>1, <1>2, <1>6, SnapshotIsOfNow
<1>8. /\ view.generation = generation /\ view.revision = revision + 1
      /\ view.change = sdkChange /\ view.diagnosed = diagnosed
  BY <1>1, <1>2, <1>6, SnapshotIsOfNow
<1> HIDE DEF new
<1>9. /\ relay' \in [generation : 0..2, queue : Seq(Events!Causes), lagged : BOOLEAN,
                     pending : Seq(Events!Causes \cup {"resync"}),
                     taken : Events!Snapshots \cup {NoSnapshot}]
      /\ relay'.generation = relay.generation /\ relay'.queue = relay.queue
      /\ relay'.pending = Tail(relay.pending) /\ relay'.taken = new
  <2>1. relay \in [generation : 0..2, queue : Seq(Events!Causes), lagged : BOOLEAN,
                   pending : Seq(Events!Causes \cup {"resync"}),
                   taken : Events!Snapshots \cup {NoSnapshot}]
    BY <1>1 DEF Events!EventsTypeOK
  <2> DEFINE rest == Tail(relay.pending)
  <2>2. rest \in Seq(Events!Causes \cup {"resync"})
    BY <1>5
  <2>3. relay' = [relay EXCEPT !.pending = rest, !.taken = new]
    BY <1>4
  <2> HIDE DEF rest, Events!Snapshots
  <2>4. relay'.pending = rest
    BY <2>1, <2>3
  <2>5. /\ relay'.generation = relay.generation /\ relay'.queue = relay.queue
        /\ relay'.taken = new
    BY <2>1, <2>3
  <2>6. relay' \in [generation : 0..2, queue : Seq(Events!Causes), lagged : BOOLEAN,
                    pending : Seq(Events!Causes \cup {"resync"}),
                    taken : Events!Snapshots \cup {NoSnapshot}]
    BY <1>7, <2>1, <2>2, <2>3
  <2> QED
    BY <2>4, <2>5, <2>6 DEF rest
<1>10. Events!EventsTypeOK'
  <2>1. revision' \in 1..MaxSnapshots
    BY <1>1, <1>2, <1>4, EventTypes
  <2> QED
    BY <1>1, <1>2, <1>9, <2>1 DEF Events!EventsTypeOK
<1>11. view \in Views' /\ Views' \subseteq Views \cup {view}
  <2>1. See(relay'.taken) = view /\ relay'.taken # NoSnapshot
    BY <1>7, <1>9
  <2>2. {See(taskSnapshot[u]) : u \in {w \in Tasks : UnderWay(w)}}'
        = {See(taskSnapshot[u]) : u \in {w \in Tasks : UnderWay(w)}}
    BY <1>2 DEF UnderWay, See
  <2> HIDE DEF view
  <2> QED
    BY <1>2, <2>1, <2>2 DEF Views, See
<1> HIDE DEF view
<1>12. /\ ViewsInv' /\ LatestKept'
       /\ \A s \in Views' : s.revision = revision' => OfSdk(s)'
  BY <1>1, <1>2, <1>4, <1>8, <1>11, NewView
<1>13. RelayInv'
  <2>1. generation # 0
    BY <1>1, EventTypes
  <2>2. \A i \in DOMAIN Tail(relay.pending) : Tail(relay.pending)[i] = "shutdown" => ended
    BY <1>1, <1>5 DEF RelayInv
  <2>3. Head(relay.pending) = "shutdown" => ended
    BY <1>1, <1>5 DEF RelayInv
  <2>4. \A i \in DOMAIN relay.queue : relay.queue[i] = "shutdown" => ended
    BY <1>1 DEF RelayInv
  <2> QED
    BY <1>2, <1>3, <1>5, <1>7, <1>9, <1>12, <2>1, <2>2, <2>3, <2>4 DEF RelayInv
<1>14. TaskInv'
  BY <1>1, <1>2 DEF TaskInv
<1> QED
  BY <1>10, <1>12, <1>13, <1>14 DEF EventsInv

\* What is delivered replaces what is shown or is dropped; the latest is not lost by that.
LEMMA ReceiveKeepsLatest ==
    ASSUME Events!EventsTypeOK, ViewsInv, NEW s \in Events!Snapshots, See(s) \in Views,
           Events!Receive(s), UNCHANGED oauthStatus
    PROVE  /\ shown' \in {shown, See(s)} /\ shownOAuth' \in 0..MaxChanges
           /\ shown' \in [generation : 1..2, revision : 1..MaxSnapshots,
                          change : 0..MaxChanges, diagnosed : 0..MaxDiagnostics]
           /\ shown.revision = revision \/ See(s).revision = revision =>
                  shown'.revision = revision
<1> DEFINE view == See(s)
<1>1. /\ view = [generation |-> s.generation, revision |-> s.revision, change |-> s.change,
                 diagnosed |-> s.diagnosed]
      /\ view.generation = s.generation /\ view.revision = s.revision
  BY DEF See
<1>2. shown \in Views /\ view \in Views
  BY DEF Views
<1>3. /\ shown.generation \in 1..generation /\ shown.revision \in 1..revision
      /\ view.generation \in 1..generation /\ view.revision \in 1..revision
      /\ shown.revision = revision => view.generation <= shown.generation
      /\ view.revision = revision => shown.generation <= view.generation
  BY <1>2 DEF ViewsInv
<1>4. /\ revision \in 1..MaxSnapshots /\ generation \in {1, 2} /\ MaxSnapshots \in Nat
      /\ s.change \in 0..MaxChanges /\ s.diagnosed \in 0..MaxDiagnostics
      /\ s.oauth \in 0..MaxChanges
      /\ oauthStatus \in 0..MaxChanges /\ shownOAuth \in 0..MaxChanges
  BY EventTypes DEF Events!Snapshots, Events!EventsTypeOK
<1>5. view \in [generation : 1..2, revision : 1..MaxSnapshots, change : 0..MaxChanges,
                diagnosed : 0..MaxDiagnostics]
  <2>1. s.generation \in 1..2 /\ s.revision \in 1..MaxSnapshots
    BY <1>1, <1>3, <1>4
  <2> QED
    BY <1>1, <1>4, <2>1
<1>6. shown \in [generation : 1..2, revision : 1..MaxSnapshots, change : 0..MaxChanges,
                 diagnosed : 0..MaxDiagnostics]
  BY DEF Events!EventsTypeOK
<1>7. CASE Events!Accepts(s)
  <2>1. shown' = view
    BY <1>1, <1>7 DEF Events!Receive
  <2>2. shownOAuth' \in {s.oauth, oauthStatus', shownOAuth, oauthStatus}
    <3>1. shownOAuth' = CASE s.kind = "oauth" -> s.oauth
                          [] s.kind = "resync" -> oauthStatus
                          [] OTHER -> shownOAuth
      BY <1>7 DEF Events!Receive
    <3> QED
      BY <3>1
  <2>3. shownOAuth' \in 0..MaxChanges
    BY <1>4, <2>2
  <2>4. shown.revision = revision => view.revision = revision
    BY <1>1, <1>3, <1>4, <1>7 DEF Events!Accepts
  <2> QED
    BY <1>5, <2>1, <2>3, <2>4
<1>8. CASE ~Events!Accepts(s)
  <2>1. shown' = shown /\ shownOAuth' = shownOAuth
    BY <1>8 DEF Events!Receive
  <2>2. view.revision = revision => shown.revision = revision
    BY <1>1, <1>3, <1>4, <1>8 DEF Events!Accepts
  <2> QED
    BY <1>4, <1>6, <2>1, <2>2
<1> QED
  BY <1>7, <1>8

LEMMA RelayEmitStep ==
    ASSUME EventsInv, Events!RelayEmit
    PROVE  EventsInv'
<1>1. Events!EventsTypeOK /\ ViewsInv /\ LatestKept /\ RelayInv /\ TaskInv
  BY DEF EventsInv
<1> DEFINE s == relay.taken
<1>2. /\ s # NoSnapshot /\ Events!Receive(s)
      /\ relay' = IF s.kind = "shutdown" THEN Events!NoRelay
                  ELSE [relay EXCEPT !.taken = NoSnapshot]
      /\ UNCHANGED <<generation, sdkChange, oauthStatus, diagnosed, ended, revision,
                     taskSnapshot>>
  BY DEF Events!RelayEmit
<1>3. s \in Events!Snapshots
  BY <1>1, <1>2, EventTypes
<1>4. See(s) \in Views
  BY <1>2 DEF Views
<1>5. /\ shown' \in {shown, See(s)} /\ shownOAuth' \in 0..MaxChanges
      /\ shown' \in [generation : 1..2, revision : 1..MaxSnapshots, change : 0..MaxChanges,
                     diagnosed : 0..MaxDiagnostics]
      /\ shown.revision = revision \/ See(s).revision = revision => shown'.revision = revision
  BY <1>1, <1>2, <1>3, <1>4, ReceiveKeepsLatest
<1>6. /\ relay'.taken = NoSnapshot
      /\ s.kind # "shutdown" => /\ relay'.generation = relay.generation
                                /\ relay'.queue = relay.queue
                                /\ relay'.pending = relay.pending
      /\ s.kind = "shutdown" => relay' = Events!NoRelay
  BY <1>1, <1>2 DEF Events!NoRelay, Events!EventsTypeOK
<1>7. Len(relay'.queue) <= EventCapacity
      /\ relay' \in [generation : 0..2, queue : Seq(Events!Causes), lagged : BOOLEAN,
                     pending : Seq(Events!Causes \cup {"resync"}),
                     taken : Events!Snapshots \cup {NoSnapshot}]
  <2>1. CASE s.kind = "shutdown"
    <3>1. EventCapacity \in Nat /\ relay' = Events!NoRelay
      BY <1>6, <2>1, ServicesAssumption DEF Events!RuntimeEventsAssumption
    <3>2. <<>> \in Seq(Events!Causes) /\ <<>> \in Seq(Events!Causes \cup {"resync"})
      OBVIOUS
    <3> QED
      BY <3>1, <3>2 DEF Events!NoRelay
  <2>2. CASE s.kind # "shutdown"
    BY <1>1, <1>2, <2>2 DEF Events!EventsTypeOK
  <2> QED
    BY <2>1, <2>2
<1>8. Events!EventsTypeOK'
  BY <1>1, <1>2, <1>5, <1>7 DEF Events!EventsTypeOK
<1> DEFINE tasks == {See(taskSnapshot[u]) : u \in {w \in Tasks : UnderWay(w)}}
<1>9. tasks' = tasks
  BY <1>2 DEF UnderWay, See
<1>10. Views = {shown, See(s)} \cup tasks /\ Views' = {shown'} \cup tasks
  BY <1>2, <1>6, <1>9 DEF Views
<1> HIDE DEF tasks
<1>11. Views' \subseteq Views
  BY <1>5, <1>10
<1>12. Events!Replacing' = Events!Replacing /\ DiagnosticOwed' = DiagnosticOwed
  BY <1>2 DEF Events!Replacing, DiagnosticOwed
<1>13. LatestKept'
  <2>1. ASSUME NEW v \in Views, v.revision = revision
        PROVE  \E x \in Views' : x.revision = revision
    BY <1>5, <1>10, <2>1
  <2> QED
    BY <1>1, <1>2, <1>12, <2>1 DEF LatestKept
<1>14. s.kind # "shutdown" => (SdkOwed => SdkOwed')
  BY <1>2, <1>6, <1>12 DEF SdkOwed
<1>15. s.kind = "shutdown" => ended /\ \A v \in Views : v.revision = revision => OfSdk(v)
  BY <1>1, <1>2 DEF RelayInv
<1>16. ViewsInv'
  <2>1. generation' \in Nat /\ generation' >= generation
    BY <1>1, <1>2, EventTypes
  <2>2. \A v \in Views' : v.revision = revision =>
            (v.change = sdkChange' /\ v.generation = generation') \/ SdkOwed'
    BY <1>1, <1>2, <1>11, <1>14, <1>15 DEF ViewsInv, OfSdk
  <2>3. \A v \in Views' : v.revision = revision =>
            v.diagnosed = diagnosed' \/ DiagnosticOwed'
    BY <1>1, <1>2, <1>11, <1>12 DEF ViewsInv
  <2> QED
    BY <1>1, <1>2, <1>11, <2>1, <2>2, <2>3, OldViews
<1>17. RelayInv'
  <2> HIDE DEF Events!Replacing, Events!Causes
  <2>1. CASE s.kind = "shutdown"
    BY <1>2, <1>6, <1>15, <2>1 DEF RelayInv, Events!NoRelay
  <2>2. CASE s.kind # "shutdown"
    <3>1. relay.generation # 0
      BY <1>1, <1>2 DEF RelayInv, Events!NoRelay
    <3> QED
      BY <1>1, <1>2, <1>6, <2>2, <3>1 DEF RelayInv
  <2> QED
    BY <2>1, <2>2
<1>18. TaskInv'
  BY <1>1, <1>2 DEF TaskInv
<1> QED
  BY <1>8, <1>13, <1>16, <1>17, <1>18 DEF EventsInv

LEMMA DeliverStep ==
    ASSUME EventsInv, NEW t \in Tasks, Events!Deliver(t)
    PROVE  EventsInv'
<1>1. Events!EventsTypeOK /\ ViewsInv /\ LatestKept /\ RelayInv /\ TaskInv
  BY DEF EventsInv
<1> DEFINE s == taskSnapshot[t]
<1>2. /\ s # NoSnapshot /\ s.kind = "published" /\ Events!Receive(s)
      /\ taskSnapshot' = [taskSnapshot EXCEPT ![t] = NoSnapshot]
      /\ UNCHANGED <<generation, sdkChange, oauthStatus, diagnosed, ended, revision, relay>>
  BY DEF Events!Deliver
<1>3. s \in Events!Snapshots /\ UnderWay(t)
  BY <1>1, <1>2, EventTypes DEF UnderWay
<1>4. See(s) \in Views
  BY <1>3 DEF Views
<1>5. /\ shown' \in {shown, See(s)} /\ shownOAuth' \in 0..MaxChanges
      /\ shown' \in [generation : 1..2, revision : 1..MaxSnapshots, change : 0..MaxChanges,
                     diagnosed : 0..MaxDiagnostics]
      /\ shown.revision = revision \/ See(s).revision = revision => shown'.revision = revision
  BY <1>1, <1>2, <1>3, <1>4, ReceiveKeepsLatest
<1>6. /\ taskSnapshot'[t] = NoSnapshot
      /\ \A u \in Tasks \ {t} : taskSnapshot'[u] = taskSnapshot[u]
      /\ taskSnapshot' \in [Tasks -> Events!Snapshots \cup {NoSnapshot}]
  BY <1>1, <1>2 DEF Events!EventsTypeOK
<1>7. Events!EventsTypeOK'
  BY <1>1, <1>2, <1>5, <1>6 DEF Events!EventsTypeOK
<1> DEFINE tasks == {See(taskSnapshot[u]) : u \in {w \in Tasks : UnderWay(w)}}
           taken == IF relay.taken = NoSnapshot THEN {} ELSE {See(relay.taken)}
<1>8. tasks' \subseteq tasks /\ tasks \subseteq tasks' \cup {See(s)}
  <2>1. \A u \in Tasks \ {t} :
            UnderWay(u)' = UnderWay(u) /\ See(taskSnapshot[u])' = See(taskSnapshot[u])
    BY <1>6 DEF UnderWay, See
  <2>2. ~UnderWay(t)'
    BY <1>6 DEF UnderWay
  <2> QED
    BY <2>1, <2>2
<1>9. Views = {shown} \cup taken \cup tasks /\ Views' = {shown'} \cup taken \cup tasks'
  BY <1>2 DEF Views, See
<1>10. See(s) \in tasks
  BY <1>3
<1> HIDE DEF tasks, taken
<1>11. Views' \subseteq Views
  BY <1>5, <1>8, <1>9, <1>10
<1>12. Events!Replacing => Events!Replacing'
  BY <1>2, <1>6 DEF Events!Replacing
<1>13. DiagnosticOwed => DiagnosticOwed'
  BY <1>2, <1>6 DEF DiagnosticOwed
<1>14. LatestKept'
  <2>1. ASSUME NEW v \in Views, v.revision = revision
        PROVE  \E x \in Views' : x.revision = revision
    BY <1>5, <1>8, <1>9, <2>1
  <2> QED
    BY <1>1, <1>2, <1>12, <2>1 DEF LatestKept
<1>15. SdkOwed => SdkOwed'
  BY <1>2, <1>12 DEF SdkOwed
<1>16. ViewsInv'
  <2>1. generation' \in Nat /\ generation' >= generation
    BY <1>1, <1>2, EventTypes
  <2> QED
    BY <1>1, <1>2, <1>11, <1>13, <1>15, <2>1, OldViews DEF ViewsInv, OfSdk
<1>17. RelayInv'
  BY <1>1, <1>2, <1>11, <1>12 DEF RelayInv, OfSdk, Events!NoRelay
<1>18. TaskInv'
  BY <1>1, <1>6 DEF TaskInv
<1> QED
  BY <1>7, <1>14, <1>16, <1>17, <1>18 DEF EventsInv

LEMMA EventsStart == Events!EventsInit => EventsInv
<1> SUFFICES ASSUME Events!EventsInit PROVE EventsInv
  OBVIOUS
<1>1. /\ generation = 1 /\ sdkChange = 0 /\ oauthStatus = 0 /\ diagnosed = 0 /\ ended = FALSE
      /\ revision = 1 /\ shownOAuth = 0
      /\ taskSnapshot = [t \in Tasks |-> NoSnapshot]
      /\ shown = [generation |-> 1, revision |-> 1, change |-> 0, diagnosed |-> 0]
  BY DEF Events!EventsInit
<1>2. relay = [generation |-> 1, queue |-> <<>>, lagged |-> FALSE, pending |-> <<>>,
               taken |-> NoSnapshot]
  BY DEF Events!EventsInit, Events!RelayOf, Events!NoRelay
<1>3. /\ MaxChanges \in Nat /\ MaxDiagnostics \in Nat /\ MaxSnapshots \in Nat \ {0}
      /\ EventCapacity \in Nat \ {0}
  BY ServicesAssumption DEF Events!RuntimeEventsAssumption
<1>4. Events!EventsTypeOK
  <2>1. <<>> \in Seq(Events!Causes) /\ <<>> \in Seq(Events!Causes \cup {"resync"})
    OBVIOUS
  <2>2. relay \in [generation : 0..2, queue : Seq(Events!Causes), lagged : BOOLEAN,
                   pending : Seq(Events!Causes \cup {"resync"}),
                   taken : Events!Snapshots \cup {NoSnapshot}]
    <3> HIDE DEF Events!Snapshots, Events!Causes
    <3> QED
      BY <1>2, <2>1
  <2>3. Len(relay.queue) <= EventCapacity
    BY <1>2, <1>3
  <2>4. taskSnapshot \in [Tasks -> Events!Snapshots \cup {NoSnapshot}]
    BY <1>1
  <2>5. shown \in [generation : 1..2, revision : 1..MaxSnapshots, change : 0..MaxChanges,
                   diagnosed : 0..MaxDiagnostics]
    BY <1>1, <1>3
  <2>6. /\ generation \in 1..2 /\ revision \in 1..MaxSnapshots
        /\ sdkChange \in 0..MaxChanges /\ diagnosed \in 0..MaxDiagnostics
        /\ oauthStatus \in 0..MaxChanges /\ shownOAuth \in 0..MaxChanges
    BY <1>1, <1>3
  <2>7. ended \in BOOLEAN
    BY <1>1, Zenon
  <2> QED
    BY <2>2, <2>3, <2>4, <2>5, <2>6, <2>7 DEF Events!EventsTypeOK
<1>5. Views = {shown}
  BY <1>1, <1>2 DEF Views, UnderWay
<1>6. ViewsInv
  BY <1>1, <1>5 DEF ViewsInv, OfSdk
<1>7. LatestKept
  BY <1>1, <1>5 DEF LatestKept
<1>8. RelayInv
  BY <1>1, <1>2 DEF RelayInv
<1>9. TaskInv
  BY <1>1 DEF TaskInv
<1> QED
  BY <1>4, <1>6, <1>7, <1>8, <1>9 DEF EventsInv

LEMMA EventsKeep == EventsInv /\ Events!EventsNext => EventsInv'
<1> SUFFICES ASSUME EventsInv, Events!EventsNext PROVE EventsInv'
  OBVIOUS
<1>1. ASSUME NEW kind \in Events!Causes, Events!SdkChanges(kind) PROVE EventsInv'
  BY <1>1, SdkChangeStep
<1>2. CASE Events!RelayReceive \/ Events!RelayTake \/ Events!RelayEmit \/ Events!StartRelay
  BY <1>2, RelayReceiveStep, RelayTakeStep, RelayEmitStep, StartRelayStep
<1>3. ASSUME NEW t \in Tasks, \/ Events!QueryStatus(t) \/ Events!ChangeDiagnostic(t)
                              \/ Events!PublishTake(t) \/ Events!Deliver(t)
                              \/ Events!ReplaceHandle(t)
      PROVE  EventsInv'
  BY <1>3, TaskTakeStep, DiagnosticStep, DeliverStep, ReplaceHandleStep
<1> HIDE DEF EventsInv
<1> QED
  BY <1>1, <1>2, <1>3 DEF Events!EventsNext

LEMMA EventsRest == EventsInv /\ UNCHANGED Events!eventVars => EventsInv'
<1> SUFFICES ASSUME EventsInv, UNCHANGED Events!eventVars PROVE EventsInv'
  OBVIOUS
<1>1. UNCHANGED <<generation, sdkChange, oauthStatus, diagnosed, ended, revision, relay,
                  taskSnapshot, shown, shownOAuth>>
  BY DEF Events!eventVars
<1>2. Events!EventsTypeOK'
  BY <1>1 DEF EventsInv, Events!EventsTypeOK
<1>3. Views' = Views /\ SdkOwed' = SdkOwed /\ DiagnosticOwed' = DiagnosticOwed
      /\ Events!Replacing' = Events!Replacing
  BY <1>1 DEF Views, See, UnderWay, SdkOwed, DiagnosticOwed, Events!Replacing
<1>4. ViewsInv' /\ LatestKept'
  BY <1>1, <1>3 DEF EventsInv, ViewsInv, LatestKept, OfSdk
<1>5. RelayInv' /\ TaskInv'
  BY <1>1, <1>3 DEF EventsInv, RelayInv, TaskInv, OfSdk, Events!NoRelay
<1> QED
  BY <1>2, <1>4, <1>5 DEF EventsInv

\* Once nothing is under way the one view is the screen's, and nobody owes another.
LEMMA LatestIsCurrent == EventsInv => Events!ShowsCurrent
<1> SUFFICES ASSUME EventsInv, Events!EventsQuiet
             PROVE  /\ shown.change = sdkChange /\ shown.diagnosed = diagnosed
                    /\ shown.generation = generation
  BY DEF Events!ShowsCurrent
<1>1. /\ relay.queue = <<>> /\ relay.pending = <<>> /\ relay.taken = NoSnapshot
      /\ \A t \in Tasks : taskSnapshot[t] = NoSnapshot
  BY DEF Events!EventsQuiet
<1>2. Views = {shown}
  BY <1>1 DEF Views, UnderWay
<1>3. ~Events!Replacing /\ ~DiagnosticOwed /\ ~SdkOwed
  BY <1>1 DEF Events!Replacing, DiagnosticOwed, SdkOwed
<1>4. shown.revision = revision
  BY <1>2, <1>3 DEF EventsInv, LatestKept
<1> QED
  BY <1>2, <1>3, <1>4 DEF EventsInv, ViewsInv, OfSdk

-----------------------------------------------------------------------------
(* ClientControl. *)

Decided == {"denied", "answered", "dropped"}
CallSteps == {"idle", "called", "admitted", "executed", "gone"} \cup Decided

\* The parts the module's types leave open; no policy is of a later edition than the last
\* update, and what is published is in effect.
ControlTypes ==
    /\ Control!ControlTypeOK
    /\ update \in [at : {"none", "apply", "restore", "unsave", "resync", "restoreAgain"},
                   provider : Control!Providers, before : Control!Policies]
    /\ updates \in 0..MaxUpdates /\ update.before.edition <= updates
    /\ \A p \in Control!Providers :
           savedPolicy[p].edition <= updates /\ published[p].edition <= updates
    /\ published["control"].edition \in inEffect
    /\ update.at = "none" => update = Control!NoUpdate

IsMountedAs(p) == controlMounted[p] = Control!MountOf(published[p])

\* How far an update has come, unless undoing it failed: what it has changed, and that
\* nothing else differs.
UpdateInv ==
    ~troubled =>
        /\ update.at \in {"none", "resync"} => savedPolicy = published
        /\ update.at \in {"apply", "restore", "unsave"} =>
               /\ savedPolicy[update.provider] # published[update.provider]
               /\ update.before = published[update.provider]
               /\ \A p \in Control!Providers \ {update.provider} :
                      savedPolicy[p] = published[p]
        /\ update.at \in {"none", "apply", "unsave", "resync"} =>
               \A p \in Control!Providers : IsMountedAs(p)
        /\ update.at = "restore" =>
               \A p \in Control!Providers \ {update.provider} : IsMountedAs(p)
        /\ update.at # "restoreAgain"

\* A call has left one record when it was decided, and none before.
CallOK(c) ==
    /\ call[c].at \in CallSteps
    /\ call[c].at \in {"admitted", "executed", "answered"} => call[c].edition \in inEffect
    /\ call[c].at \notin Decided => audits[c] = <<>>
    /\ call[c].at \in Decided =>
           \E outcome \in {"succeeded", "failed", "denied"} :
               audits[c] = <<outcome>> /\ (outcome = "succeeded" => call[c].done)
CallInv ==
    /\ call \in [Calls -> [at : CallSteps, tool : Control!Tools, target : Control!Targets,
                           edition : 0..MaxUpdates, done : BOOLEAN]]
    /\ audits \in [Calls -> Seq({"succeeded", "failed", "denied"})]
    /\ \A c \in Calls : CallOK(c)

ControlInv == ControlTypes /\ UpdateInv /\ CallInv

LEMMA ControlCalls ==
    ControlInv => Control!PoliciesAgree /\ Control!AdmittedByCommitted /\ Control!AuditedOnce
<1> SUFFICES ASSUME ControlInv
             PROVE  Control!PoliciesAgree /\ Control!AdmittedByCommitted /\ Control!AuditedOnce
  OBVIOUS
<1>1. Control!PoliciesAgree
  BY DEF ControlInv, UpdateInv, Control!PoliciesAgree, Control!NoUpdate, IsMountedAs
<1>2. Control!AdmittedByCommitted
  BY DEF ControlInv, CallInv, CallOK, Control!AdmittedByCommitted
<1>3. Control!AuditedOnce
  <2> SUFFICES ASSUME NEW c \in Calls
               PROVE  /\ Len(audits[c]) = IF call[c].at \in Decided THEN 1 ELSE 0
                      /\ audits[c] = <<"succeeded">> => call[c].done
    BY DEF Control!AuditedOnce, Decided
  <2>1. CASE call[c].at \notin Decided
    <3>1. audits[c] = <<>>
      BY <2>1 DEF ControlInv, CallInv, CallOK
    <3> QED
      BY <2>1, <3>1
  <2>2. CASE call[c].at \in Decided
    <3>1. PICK outcome \in {"succeeded", "failed", "denied"} :
              audits[c] = <<outcome>> /\ (outcome = "succeeded" => call[c].done)
      BY <2>2 DEF ControlInv, CallInv, CallOK
    <3> QED
      BY <2>2, <3>1
  <2> QED
    BY <2>1, <2>2
<1> QED
  BY <1>1, <1>2, <1>3

\* A policy that is enabled is not the sign that nothing is mounted.
LEMMA MountOfPolicy ==
    ASSUME NEW policy \in Control!Policies
    PROVE  /\ policy # Control!Unmounted
           /\ Control!MountOf(policy) \in Control!Policies \cup {Control!Unmounted}
           /\ (Control!MountOf(policy) # Control!Unmounted) = Control!Enabled(policy)
<1>1. policy # Control!Unmounted
  BY DEF Control!Policies, Control!Unmounted, Control!Scopes
<1> QED
  BY <1>1 DEF Control!MountOf, Control!Enabled

LEMMA Swapping ==
    ASSUME NEW p \in Control!Providers, NEW policy \in Control!Policies, NEW changed \in BOOLEAN
    PROVE  /\ controlMounted[p] = Control!MountOf(policy) /\ ~changed =>
                  ~Control!Swaps(p, policy, changed)
           /\ changed \/ controlMounted[p] = Control!MountOf(policy) =>
                  (IF Control!Swaps(p, policy, changed) THEN Control!MountOf(policy)
                   ELSE controlMounted[p]) = Control!MountOf(policy)
  BY MountOfPolicy DEF Control!Swaps, Control!IsMounted, Control!MountOf, Control!Enabled

\* What a synchronization leaves mounted: right when it succeeds where the policy changed
\* or was mounted before, and untouched when it fails where nothing is to be swapped.
LEMMA Synchronizing ==
    ASSUME NEW instance \in [Control!Providers -> Control!Policies],
           NEW changed \in [Control!Providers -> BOOLEAN],
           \A p \in Control!Providers :
               controlMounted[p] \in Control!Policies \cup {Control!Unmounted},
           NEW m \in Control!Sync(instance, changed).ok \cup
               Control!Sync(instance, changed).failed
    PROVE  \A p \in Control!Providers :
               /\ m[p] \in Control!Policies \cup {Control!Unmounted}
               /\ /\ m \in Control!Sync(instance, changed).ok
                  /\ changed[p] \/ controlMounted[p] = Control!MountOf(instance[p])
                  => m[p] = Control!MountOf(instance[p])
               /\ /\ m \in Control!Sync(instance, changed).failed
                  /\ ~Control!Swaps(p, instance[p], changed[p])
                  => m[p] = controlMounted[p]
<1> DEFINE new(p) == IF Control!Swaps(p, instance[p], changed[p])
                     THEN Control!MountOf(instance[p]) ELSE controlMounted[p]
<1>1. Control!Providers = {"control", "shell"}
  BY DEF Control!Providers
<1>2. \A p \in Control!Providers :
          /\ new(p) \in Control!Policies \cup {Control!Unmounted}
          /\ \A x \in Control!SwapFailures(p, instance[p]) :
                x \in Control!Policies \cup {Control!Unmounted}
  BY MountOfPolicy DEF Control!SwapFailures
<1>3. \A p \in Control!Providers :
          changed[p] \/ controlMounted[p] = Control!MountOf(instance[p]) =>
              new(p) = Control!MountOf(instance[p])
  BY Swapping
<1>4. ASSUME m \in Control!Sync(instance, changed).ok
      PROVE  \A p \in Control!Providers : m[p] = new(p)
  <2>1. m = [control |-> new("control"), shell |-> new("shell")]
    BY <1>4 DEF Control!Sync
  <2> QED
    BY <1>1, <2>1
<1>5. ASSUME m \in Control!Sync(instance, changed).failed
      PROVE  \A p \in Control!Providers :
                 /\ m[p] \in Control!Policies \cup {Control!Unmounted}
                 /\ ~Control!Swaps(p, instance[p], changed[p]) => m[p] = controlMounted[p]
  <2>1. \/ /\ Control!Swaps("control", instance["control"], changed["control"])
           /\ \E x \in Control!SwapFailures("control", instance["control"]) :
                  m = [control |-> x, shell |-> controlMounted["shell"]]
        \/ /\ Control!Swaps("shell", instance["shell"], changed["shell"])
           /\ \E x \in Control!SwapFailures("shell", instance["shell"]) :
                  m = [control |-> new("control"), shell |-> x]
    BY <1>5 DEF Control!Sync
  <2>2. CASE /\ Control!Swaps("control", instance["control"], changed["control"])
             /\ \E x \in Control!SwapFailures("control", instance["control"]) :
                    m = [control |-> x, shell |-> controlMounted["shell"]]
    <3>1. PICK x \in Control!SwapFailures("control", instance["control"]) :
              m = [control |-> x, shell |-> controlMounted["shell"]]
      BY <2>2
    <3> QED
      BY <1>1, <1>2, <2>2, <3>1
  <2>3. CASE /\ Control!Swaps("shell", instance["shell"], changed["shell"])
             /\ \E x \in Control!SwapFailures("shell", instance["shell"]) :
                    m = [control |-> new("control"), shell |-> x]
    <3>1. PICK x \in Control!SwapFailures("shell", instance["shell"]) :
              m = [control |-> new("control"), shell |-> x]
      BY <2>3
    <3>2. m["control"] = new("control") /\ m["shell"] = x
      BY <3>1
    <3>3. ~Control!Swaps("control", instance["control"], changed["control"]) =>
              new("control") = controlMounted["control"]
      OBVIOUS
    <3> HIDE DEF new
    <3> QED
      BY <1>1, <1>2, <2>3, <3>2, <3>3
  <2> QED
    BY <2>1, <2>2, <2>3
<1> HIDE DEF new
<1> QED
  BY <1>2, <1>3, <1>4, <1>5

LEMMA ControlFacts ==
    ASSUME ControlTypes
    PROVE  /\ savedPolicy \in [Control!Providers -> Control!Policies]
           /\ published \in [Control!Providers -> Control!Policies]
           /\ \A p \in Control!Providers :
                 controlMounted[p] \in Control!Policies \cup {Control!Unmounted}
           /\ update.provider \in Control!Providers /\ update.before \in Control!Policies
           /\ updates \in Nat /\ MaxUpdates \in Nat
           /\ \A p \in Control!Providers :
                 /\ savedPolicy[p].edition \in 0..updates
                 /\ published[p].edition \in 0..updates
           /\ {"control", "shell"} = Control!Providers
<1>1. MaxUpdates \in Nat
  BY ServicesAssumption DEF Control!ControlAssumption
<1>2. /\ savedPolicy \in [Control!Providers -> Control!Policies]
      /\ published \in [Control!Providers -> Control!Policies]
      /\ \A p \in Control!Providers :
            controlMounted[p] \in Control!Policies \cup {Control!Unmounted}
  BY DEF ControlTypes, Control!ControlTypeOK
<1>3. update.provider \in Control!Providers /\ update.before \in Control!Policies
  BY DEF ControlTypes
<1>4. \A policy \in Control!Policies : policy.edition \in Nat
  BY <1>1 DEF Control!Policies
<1> QED
  BY <1>1, <1>2, <1>3, <1>4 DEF ControlTypes, Control!Providers

\* The calls keep their invariant when policies only come into effect.
LEMMA CallsRest ==
    ASSUME CallInv, UNCHANGED <<call, audits>>, inEffect \subseteq inEffect'
    PROVE  CallInv'
  BY DEF CallInv, CallOK

LEMMA SavePolicyStep ==
    ASSUME ControlInv, NEW p \in Control!Providers, NEW scope \in Control!Scopes,
           Control!SavePolicy(p, scope)
    PROVE  ControlInv'
<1>1. ControlTypes /\ UpdateInv /\ CallInv
  BY DEF ControlInv
<1> DEFINE new == [edition |-> updates + 1, scope |-> scope]
<1>2. /\ update = Control!NoUpdate /\ updates < MaxUpdates /\ updates' = updates + 1
      /\ \/ /\ savedPolicy' = [savedPolicy EXCEPT ![p] = new]
            /\ update' = [at |-> "apply", provider |-> p, before |-> savedPolicy[p]]
         \/ UNCHANGED <<savedPolicy, update>>
      /\ UNCHANGED <<published, controlMounted, troubled, up, inEffect, call, audits,
                     otherThere>>
  BY DEF Control!SavePolicy, Control!callVars
<1>3. new \in Control!Policies /\ updates' \in 0..MaxUpdates
  BY <1>1, <1>2, ControlFacts DEF Control!Policies
<1>4. CallInv'
  BY <1>1, <1>2, CallsRest
<1>5. CASE UNCHANGED <<savedPolicy, update>>
  <2>1. update.before.edition \in Nat /\ update.before.edition <= updates'
    BY <1>1, <1>2, ControlFacts DEF ControlTypes, Control!Policies
  <2>3. ControlTypes'
    BY <1>1, <1>2, <1>3, <1>5, <2>1, ControlFacts DEF ControlTypes, Control!ControlTypeOK
  <2>2. UpdateInv'
    BY <1>1, <1>2, <1>5 DEF UpdateInv, IsMountedAs
  <2> QED
    BY <1>4, <2>2, <2>3 DEF ControlInv
<1>6. CASE /\ savedPolicy' = [savedPolicy EXCEPT ![p] = new]
           /\ update' = [at |-> "apply", provider |-> p, before |-> savedPolicy[p]]
  <2>1. /\ savedPolicy' \in [Control!Providers -> Control!Policies]
        /\ savedPolicy'[p] = new
        /\ \A q \in Control!Providers \ {p} : savedPolicy'[q] = savedPolicy[q]
    BY <1>1, <1>3, <1>6, ControlFacts
  <2>2. /\ update'.at = "apply" /\ update'.provider = p /\ update'.before = savedPolicy[p]
        /\ update' \in [at : {"none", "apply", "restore", "unsave", "resync", "restoreAgain"},
                        provider : Control!Providers, before : Control!Policies]
        /\ update'.before.edition <= updates'
    BY <1>1, <1>2, <1>6, ControlFacts
  <2>3. new.edition = updates + 1
    OBVIOUS
  <2>4. \A q \in Control!Providers :
            savedPolicy'[q].edition <= updates' /\ published'[q].edition <= updates'
    BY <1>1, <1>2, <2>1, <2>3, ControlFacts
  <2> HIDE DEF new
  <2>5. ControlTypes'
    BY <1>1, <1>2, <1>3, <2>1, <2>2, <2>4 DEF ControlTypes, Control!ControlTypeOK
  <2>6. published[p] # new
    BY <1>1, <2>3, ControlFacts
  <2>7. ~troubled => savedPolicy = published /\ \A q \in Control!Providers : IsMountedAs(q)
    BY <1>1, <1>2 DEF UpdateInv, Control!NoUpdate
  <2>8. UpdateInv'
    BY <1>2, <2>1, <2>2, <2>6, <2>7 DEF UpdateInv, IsMountedAs
  <2> QED
    BY <1>4, <2>5, <2>8 DEF ControlInv
<1> QED
  BY <1>2, <1>5, <1>6

LEMMA ApplyPolicyStep ==
    ASSUME ControlInv, Control!ApplyPolicy
    PROVE  ControlInv'
<1>1. ControlTypes /\ UpdateInv /\ CallInv
  BY DEF ControlInv
<1> DEFINE changed == Control!Changed(published, savedPolicy)
           sync == Control!Sync(savedPolicy, changed)
<1>2. /\ update.at = "apply"
      /\ UNCHANGED <<savedPolicy, updates, troubled, up, call, audits, otherThere>>
      /\ \/ /\ controlMounted' \in sync.ok /\ Control!Publishes /\ Control!UpdateEnds
         \/ /\ controlMounted' \in sync.failed /\ Control!UpdateGoes("restore")
            /\ UNCHANGED <<published, inEffect>>
  BY DEF Control!ApplyPolicy, Control!callVars
<1>3. /\ changed \in [Control!Providers -> BOOLEAN]
      /\ \A p \in Control!Providers : changed[p] = (published[p] # savedPolicy[p])
  BY DEF Control!Changed
<1> HIDE DEF changed
<1>4. \A p \in Control!Providers :
          /\ controlMounted'[p] \in Control!Policies \cup {Control!Unmounted}
          /\ /\ controlMounted' \in sync.ok
             /\ changed[p] \/ controlMounted[p] = Control!MountOf(savedPolicy[p])
             => controlMounted'[p] = Control!MountOf(savedPolicy[p])
          /\ /\ controlMounted' \in sync.failed
             /\ ~Control!Swaps(p, savedPolicy[p], changed[p])
             => controlMounted'[p] = controlMounted[p]
  BY <1>1, <1>2, <1>3, ControlFacts, Synchronizing
<1>5. ~troubled =>
          /\ savedPolicy[update.provider] # published[update.provider]
          /\ update.before = published[update.provider]
          /\ \A p \in Control!Providers \ {update.provider} : savedPolicy[p] = published[p]
          /\ \A p \in Control!Providers : controlMounted[p] = Control!MountOf(published[p])
  BY <1>1, <1>2 DEF UpdateInv, IsMountedAs
<1>6. CASE controlMounted' \in sync.ok /\ Control!Publishes /\ Control!UpdateEnds
  <2>1. /\ published' = savedPolicy /\ update' = Control!NoUpdate
        /\ inEffect \subseteq inEffect' /\ savedPolicy["control"].edition \in inEffect'
    BY <1>6 DEF Control!Publishes, Control!UpdateEnds
  <2>2. CallInv'
    BY <1>1, <1>2, <2>1, CallsRest
  <2>3. /\ update'.at = "none" /\ update'.before.edition <= updates
        /\ update' \in [at : {"none", "apply", "restore", "unsave", "resync", "restoreAgain"},
                        provider : Control!Providers, before : Control!Policies]
    BY <1>1, <2>1, ControlFacts
    DEF Control!NoUpdate, Control!Providers, Control!Disabled, Control!Policies, Control!Scopes
  <2>4. ControlTypes'
    BY <1>1, <1>2, <1>4, <2>1, <2>3 DEF ControlTypes, Control!ControlTypeOK
  <2>5. ~troubled => \A p \in Control!Providers :
            controlMounted'[p] = Control!MountOf(savedPolicy[p])
    BY <1>3, <1>4, <1>5, <1>6
  <2>6. UpdateInv'
    BY <1>2, <2>1, <2>3, <2>5 DEF UpdateInv, IsMountedAs, Control!MountOf, Control!Enabled
  <2> QED
    BY <2>2, <2>4, <2>6 DEF ControlInv
<1>7. CASE /\ controlMounted' \in sync.failed /\ Control!UpdateGoes("restore")
           /\ UNCHANGED <<published, inEffect>>
  <2>1. update' = [update EXCEPT !.at = "restore"]
    BY <1>7 DEF Control!UpdateGoes
  <2>2. /\ update'.at = "restore" /\ update'.provider = update.provider
        /\ update'.before = update.before
        /\ update' \in [at : {"none", "apply", "restore", "unsave", "resync", "restoreAgain"},
                        provider : Control!Providers, before : Control!Policies]
    BY <1>1, <2>1 DEF ControlTypes
  <2>3. CallInv'
    BY <1>1, <1>2, <1>7, CallsRest
  <2>4. ControlTypes'
    BY <1>1, <1>2, <1>4, <1>7, <2>2 DEF ControlTypes, Control!ControlTypeOK
  <2>5. ~troubled => \A p \in Control!Providers \ {update.provider} :
            controlMounted'[p] = controlMounted[p]
    <3> SUFFICES ASSUME ~troubled, NEW p \in Control!Providers \ {update.provider}
                 PROVE  controlMounted'[p] = controlMounted[p]
      OBVIOUS
    <3>1. savedPolicy[p] = published[p] /\ controlMounted[p] = Control!MountOf(savedPolicy[p])
      BY <1>5
    <3>2. changed[p] \in BOOLEAN /\ ~changed[p] /\ savedPolicy[p] \in Control!Policies
      BY <1>1, <1>3, <3>1, ControlFacts
    <3>3. ~Control!Swaps(p, savedPolicy[p], changed[p])
      BY <3>1, <3>2, Swapping
    <3> QED
      BY <1>4, <1>7, <3>3
  <2>6. UpdateInv'
    BY <1>2, <1>5, <1>7, <2>2, <2>5 DEF UpdateInv, IsMountedAs
  <2> QED
    BY <2>3, <2>4, <2>6 DEF ControlInv
<1> QED
  BY <1>2, <1>6, <1>7

LEMMA RestoreProvidersStep ==
    ASSUME ControlInv, Control!RestoreProviders
    PROVE  ControlInv'
<1>1. ControlTypes /\ UpdateInv /\ CallInv
  BY DEF ControlInv
<1> DEFINE changed == Control!Changed(published, savedPolicy)
           sync == Control!Sync(published, changed)
<1>2. /\ update.at \in {"restore", "restoreAgain"}
      /\ UNCHANGED <<savedPolicy, published, updates, up, inEffect, call, audits, otherThere>>
      /\ \/ controlMounted' \in sync.ok /\ UNCHANGED troubled
         \/ controlMounted' \in sync.failed /\ troubled' = TRUE
      /\ update.at = "restore" => Control!UpdateGoes("unsave")
      /\ update.at = "restoreAgain" => Control!UpdateEnds
  BY DEF Control!RestoreProviders, Control!callVars
<1>3. /\ changed \in [Control!Providers -> BOOLEAN]
      /\ \A p \in Control!Providers : changed[p] = (published[p] # savedPolicy[p])
  BY DEF Control!Changed
<1> HIDE DEF changed
<1>4. \A p \in Control!Providers :
          /\ controlMounted'[p] \in Control!Policies \cup {Control!Unmounted}
          /\ /\ controlMounted' \in sync.ok
             /\ changed[p] \/ controlMounted[p] = Control!MountOf(published[p])
             => controlMounted'[p] = Control!MountOf(published[p])
  BY <1>1, <1>2, <1>3, ControlFacts, Synchronizing
<1>5. CallInv'
  BY <1>1, <1>2, CallsRest
<1>6. /\ update' \in [at : {"none", "apply", "restore", "unsave", "resync", "restoreAgain"},
                      provider : Control!Providers, before : Control!Policies]
      /\ update'.at = "none" => update' = Control!NoUpdate
      /\ update.at = "restore" => /\ update'.at = "unsave"
                                  /\ update'.provider = update.provider
                                  /\ update'.before = update.before
      /\ update'.before.edition <= updates
  <2>1. CASE update.at = "restore"
    <3>1. update' = [update EXCEPT !.at = "unsave"]
      BY <1>2, <2>1 DEF Control!UpdateGoes
    <3> QED
      BY <1>1, <2>1, <3>1 DEF ControlTypes
  <2>2. CASE update.at = "restoreAgain"
    <3>1. update' = Control!NoUpdate
      BY <1>2, <2>2 DEF Control!UpdateEnds
    <3> QED
      BY <1>1, <2>2, <3>1, ControlFacts
      DEF Control!NoUpdate, Control!Providers, Control!Disabled, Control!Policies,
          Control!Scopes
  <2> QED
    BY <1>2, <2>1, <2>2
<1>7. troubled' \in BOOLEAN
  <2>1. CASE troubled' = TRUE
    BY <2>1, Zenon
  <2>2. CASE UNCHANGED troubled
    BY <1>1, <2>2 DEF ControlTypes, Control!ControlTypeOK
  <2> QED
    BY <1>2, <2>1, <2>2
<1>8. ControlTypes'
  BY <1>1, <1>2, <1>4, <1>6, <1>7 DEF ControlTypes, Control!ControlTypeOK
<1>9. UpdateInv'
  <2>1. CASE troubled'
    BY <2>1 DEF UpdateInv
  <2>2. CASE ~troubled'
    <3>1. ~troubled /\ controlMounted' \in sync.ok
      BY <1>2, <2>2
    <3>2. /\ update.at = "restore"
          /\ savedPolicy[update.provider] # published[update.provider]
          /\ update.before = published[update.provider]
          /\ \A p \in Control!Providers \ {update.provider} :
                /\ savedPolicy[p] = published[p]
                /\ controlMounted[p] = Control!MountOf(published[p])
      BY <1>1, <1>2, <3>1 DEF UpdateInv, IsMountedAs
    <3>3. \A p \in Control!Providers : controlMounted'[p] = Control!MountOf(published[p])
      BY <1>3, <1>4, <3>1, <3>2
    <3>4. \A p \in Control!Providers : IsMountedAs(p)'
      BY <1>2, <3>3 DEF IsMountedAs, Control!MountOf, Control!Enabled
    <3> QED
      BY <1>2, <1>6, <3>2, <3>4 DEF UpdateInv
  <2> QED
    BY <2>1, <2>2
<1> QED
  BY <1>5, <1>8, <1>9 DEF ControlInv

LEMMA UnsavePolicyStep ==
    ASSUME ControlInv, Control!UnsavePolicy
    PROVE  ControlInv'
<1>1. ControlTypes /\ UpdateInv /\ CallInv
  BY DEF ControlInv
<1>2. /\ update.at = "unsave"
      /\ UNCHANGED <<published, controlMounted, updates, up, inEffect, call, audits,
                     otherThere>>
      /\ \/ /\ savedPolicy' = [savedPolicy EXCEPT ![update.provider] = update.before]
            /\ Control!UpdateGoes("resync") /\ UNCHANGED troubled
         \/ troubled' = TRUE /\ Control!UpdateEnds /\ UNCHANGED savedPolicy
  BY DEF Control!UnsavePolicy, Control!callVars
<1>3. CallInv'
  BY <1>1, <1>2, CallsRest
<1>4. CASE /\ savedPolicy' = [savedPolicy EXCEPT ![update.provider] = update.before]
           /\ Control!UpdateGoes("resync") /\ UNCHANGED troubled
  <2>1. \A p \in Control!Providers : savedPolicy'[p].edition <= updates
    BY <1>1, <1>4, ControlFacts DEF ControlTypes
  <2>2. /\ savedPolicy' \in [Control!Providers -> Control!Policies]
        /\ savedPolicy'[update.provider] = update.before
        /\ \A p \in Control!Providers \ {update.provider} : savedPolicy'[p] = savedPolicy[p]
    BY <1>1, <1>4, ControlFacts
  <2>3. update' = [update EXCEPT !.at = "resync"]
    BY <1>4 DEF Control!UpdateGoes
  <2>4. /\ update'.at = "resync"
        /\ update' \in [at : {"none", "apply", "restore", "unsave", "resync", "restoreAgain"},
                        provider : Control!Providers, before : Control!Policies]
        /\ update'.before = update.before
    BY <1>1, <2>3 DEF ControlTypes
  <2>5. ~troubled => savedPolicy' = published
    <3> SUFFICES ASSUME ~troubled PROVE savedPolicy' = published
      OBVIOUS
    <3>1. /\ update.before = published[update.provider]
          /\ \A p \in Control!Providers \ {update.provider} : savedPolicy[p] = published[p]
      BY <1>1, <1>2 DEF UpdateInv
    <3>2. \A p \in Control!Providers : savedPolicy'[p] = published[p]
      BY <2>2, <3>1
    <3> QED
      BY <1>1, <2>2, <3>2, ControlFacts
  <2>6. ControlTypes'
    BY <1>1, <1>2, <1>4, <2>1, <2>2, <2>4 DEF ControlTypes, Control!ControlTypeOK
  <2>7. UpdateInv'
    BY <1>1, <1>2, <1>4, <2>4, <2>5 DEF UpdateInv, IsMountedAs
  <2> QED
    BY <1>3, <2>6, <2>7 DEF ControlInv
<1>5. CASE troubled' = TRUE /\ Control!UpdateEnds /\ UNCHANGED savedPolicy
  <2>1. /\ update' = Control!NoUpdate /\ update'.before.edition <= updates
        /\ update' \in [at : {"none", "apply", "restore", "unsave", "resync", "restoreAgain"},
                        provider : Control!Providers, before : Control!Policies]
    BY <1>1, <1>5, ControlFacts
    DEF Control!UpdateEnds, Control!NoUpdate, Control!Providers, Control!Disabled,
        Control!Policies, Control!Scopes
  <2>2. troubled' \in BOOLEAN
    BY <1>5, Zenon
  <2>3. ControlTypes'
    BY <1>1, <1>2, <1>5, <2>1, <2>2 DEF ControlTypes, Control!ControlTypeOK
  <2>4. UpdateInv'
    BY <1>5 DEF UpdateInv
  <2> QED
    BY <1>3, <2>3, <2>4 DEF ControlInv
<1> QED
  BY <1>2, <1>4, <1>5

LEMMA ResyncProvidersStep ==
    ASSUME ControlInv, Control!ResyncProviders
    PROVE  ControlInv'
<1>1. ControlTypes /\ UpdateInv /\ CallInv
  BY DEF ControlInv
<1> DEFINE changed == Control!Changed(published, savedPolicy)
           sync == Control!Sync(savedPolicy, changed)
<1>2. /\ update.at = "resync"
      /\ UNCHANGED <<savedPolicy, updates, up, call, audits, otherThere>>
      /\ \/ /\ controlMounted' \in sync.ok /\ Control!Publishes /\ Control!UpdateEnds
            /\ UNCHANGED troubled
         \/ /\ controlMounted' \in sync.failed /\ troubled' = TRUE
            /\ Control!UpdateGoes("restoreAgain") /\ UNCHANGED <<published, inEffect>>
  BY DEF Control!ResyncProviders, Control!callVars
<1>3. /\ changed \in [Control!Providers -> BOOLEAN]
      /\ \A p \in Control!Providers : changed[p] = (published[p] # savedPolicy[p])
  BY DEF Control!Changed
<1> HIDE DEF changed
<1>4. \A p \in Control!Providers :
          /\ controlMounted'[p] \in Control!Policies \cup {Control!Unmounted}
          /\ /\ controlMounted' \in sync.ok
             /\ changed[p] \/ controlMounted[p] = Control!MountOf(savedPolicy[p])
             => controlMounted'[p] = Control!MountOf(savedPolicy[p])
  BY <1>1, <1>2, <1>3, ControlFacts, Synchronizing
<1>5. CASE /\ controlMounted' \in sync.ok /\ Control!Publishes /\ Control!UpdateEnds
           /\ UNCHANGED troubled
  <2>1. /\ published' = savedPolicy /\ update' = Control!NoUpdate
        /\ inEffect \subseteq inEffect' /\ savedPolicy["control"].edition \in inEffect'
    BY <1>5 DEF Control!Publishes, Control!UpdateEnds
  <2>2. CallInv'
    BY <1>1, <1>2, <2>1, CallsRest
  <2>3. /\ update'.at = "none" /\ update'.before.edition <= updates
        /\ update' \in [at : {"none", "apply", "restore", "unsave", "resync", "restoreAgain"},
                        provider : Control!Providers, before : Control!Policies]
    BY <1>1, <2>1, ControlFacts
    DEF Control!NoUpdate, Control!Providers, Control!Disabled, Control!Policies, Control!Scopes
  <2>4. ControlTypes'
    BY <1>1, <1>2, <1>4, <1>5, <2>1, <2>3 DEF ControlTypes, Control!ControlTypeOK
  <2>5. ~troubled => \A p \in Control!Providers :
            controlMounted'[p] = Control!MountOf(savedPolicy[p])
    BY <1>1, <1>2, <1>4, <1>5 DEF UpdateInv, IsMountedAs
  <2>6. UpdateInv'
    BY <1>2, <1>5, <2>1, <2>3, <2>5 DEF UpdateInv, IsMountedAs, Control!MountOf, Control!Enabled
  <2> QED
    BY <2>2, <2>4, <2>6 DEF ControlInv
<1>6. CASE /\ controlMounted' \in sync.failed /\ troubled' = TRUE
           /\ Control!UpdateGoes("restoreAgain") /\ UNCHANGED <<published, inEffect>>
  <2>1. update' = [update EXCEPT !.at = "restoreAgain"]
    BY <1>6 DEF Control!UpdateGoes
  <2>2. /\ update'.at = "restoreAgain" /\ update'.before = update.before
        /\ update' \in [at : {"none", "apply", "restore", "unsave", "resync", "restoreAgain"},
                        provider : Control!Providers, before : Control!Policies]
    BY <1>1, <2>1 DEF ControlTypes
  <2>3. troubled' \in BOOLEAN
    BY <1>6, Zenon
  <2>4. ControlTypes'
    BY <1>1, <1>2, <1>4, <1>6, <2>2, <2>3 DEF ControlTypes, Control!ControlTypeOK
  <2>5. UpdateInv' /\ CallInv'
    BY <1>1, <1>2, <1>6, CallsRest DEF UpdateInv
  <2> QED
    BY <2>4, <2>5 DEF ControlInv
<1> QED
  BY <1>2, <1>5, <1>6

LEMMA StartComputerStep ==
    ASSUME ControlInv, Control!StartComputer
    PROVE  ControlInv'
<1>1. ControlTypes /\ UpdateInv /\ CallInv
  BY DEF ControlInv
<1>2. /\ update = Control!NoUpdate /\ up' = TRUE
      /\ controlMounted' = [p \in Control!Providers |-> Control!MountOf(published[p])]
      /\ troubled' = (savedPolicy # published)
      /\ UNCHANGED <<savedPolicy, published, update, updates, inEffect, call, audits>>
  BY DEF Control!StartComputer, Control!callVars
<1>3. up' \in BOOLEAN /\ troubled' \in BOOLEAN
  BY <1>2, Zenon
<1>4. \A p \in Control!Providers :
          /\ controlMounted'[p] = Control!MountOf(published[p])
          /\ controlMounted'[p] \in Control!Policies \cup {Control!Unmounted}
  BY <1>1, <1>2, ControlFacts, MountOfPolicy
<1>5. ControlTypes'
  BY <1>1, <1>2, <1>3, <1>4 DEF ControlTypes, Control!ControlTypeOK
<1>6. UpdateInv'
  <2>1. update.at = "none"
    BY <1>2 DEF Control!NoUpdate
  <2>2. ~troubled' => savedPolicy = published
    BY <1>2
  <2>3. \A p \in Control!Providers : IsMountedAs(p)'
    BY <1>2, <1>4 DEF IsMountedAs, Control!MountOf, Control!Enabled
  <2> QED
    BY <1>2, <2>1, <2>2, <2>3 DEF UpdateInv
<1>7. CallInv'
  BY <1>1, <1>2, CallsRest
<1> QED
  BY <1>5, <1>6, <1>7 DEF ControlInv

LEMMA StopComputerStep ==
    ASSUME ControlInv, Control!StopComputer \/ Control!DeleteOther
    PROVE  ControlInv'
<1>1. ControlTypes /\ UpdateInv /\ CallInv
  BY DEF ControlInv
<1>2. /\ up' = FALSE \/ up' = up
      /\ UNCHANGED <<savedPolicy, published, controlMounted, update, updates, troubled,
                     inEffect, call, audits>>
  BY DEF Control!StopComputer, Control!DeleteOther, Control!callVars, Control!policyVars
<1>3. up' \in BOOLEAN
  <2>1. CASE up' = FALSE
    BY <2>1, Zenon
  <2>2. CASE up' = up
    BY <1>1, <2>2 DEF ControlTypes, Control!ControlTypeOK
  <2> QED
    BY <1>2, <2>1, <2>2
<1>4. ControlTypes'
  BY <1>1, <1>2, <1>3 DEF ControlTypes, Control!ControlTypeOK
<1>5. UpdateInv' /\ CallInv'
  BY <1>1, <1>2, CallsRest DEF UpdateInv, IsMountedAs
<1> QED
  BY <1>4, <1>5 DEF ControlInv

LEMMA DisableCommandLineStep ==
    ASSUME ControlInv, Control!DisableCommandLine
    PROVE  ControlInv'
<1>1. ControlTypes /\ UpdateInv /\ CallInv
  BY DEF ControlInv
<1> DEFINE disabled == [savedPolicy EXCEPT !["shell"].scope = "off"]
           changed == Control!Changed(published, disabled)
           sync == Control!Sync(disabled, changed)
<1>2. /\ update = Control!NoUpdate /\ savedPolicy' = disabled
      /\ \/ /\ controlMounted' \in sync.ok /\ published' = disabled
            /\ inEffect' = inEffect \cup {disabled["control"].edition}
            /\ UNCHANGED troubled
         \/ /\ controlMounted' \in sync.failed /\ troubled' = TRUE
            /\ UNCHANGED <<published, inEffect>>
      /\ UNCHANGED <<update, updates, up, call, audits, otherThere>>
  BY DEF Control!DisableCommandLine, Control!callVars
<1>3. Control!Enabled(savedPolicy["shell"])
  BY DEF Control!DisableCommandLine
<1>4. /\ disabled \in [Control!Providers -> Control!Policies]
      /\ disabled["shell"].scope = "off"
      /\ disabled["shell"].edition = savedPolicy["shell"].edition
      /\ \A p \in Control!Providers \ {"shell"} : disabled[p] = savedPolicy[p]
  <2>1. savedPolicy \in [Control!Providers -> Control!Policies] /\ "shell" \in Control!Providers
    BY <1>1, ControlFacts
  <2> DEFINE off == [savedPolicy["shell"] EXCEPT !.scope = "off"]
  <2>2. /\ off \in Control!Policies /\ off.scope = "off"
        /\ off.edition = savedPolicy["shell"].edition
    BY <2>1 DEF Control!Policies, Control!Scopes
  <2>3. disabled = [savedPolicy EXCEPT !["shell"] = off]
    OBVIOUS
  <2> HIDE DEF off, disabled
  <2> QED
    BY <2>1, <2>2, <2>3
<1>5. /\ changed \in [Control!Providers -> BOOLEAN]
      /\ \A p \in Control!Providers : changed[p] = (published[p] # disabled[p])
  BY DEF Control!Changed
<1> HIDE DEF disabled, changed
<1>6. \A p \in Control!Providers :
          /\ controlMounted'[p] \in Control!Policies \cup {Control!Unmounted}
          /\ /\ controlMounted' \in sync.ok
             /\ changed[p] \/ controlMounted[p] = Control!MountOf(disabled[p])
             => controlMounted'[p] = Control!MountOf(disabled[p])
  BY <1>1, <1>2, <1>4, <1>5, ControlFacts, Synchronizing
<1>7. \A p \in Control!Providers : disabled[p].edition <= updates
  BY <1>1, <1>4, ControlFacts
<1>8. inEffect \subseteq inEffect' /\ published'["control"].edition \in inEffect'
  BY <1>1, <1>2 DEF ControlTypes
<1>9. troubled' \in BOOLEAN
  <2>1. CASE troubled' = TRUE
    BY <2>1, Zenon
  <2>2. CASE UNCHANGED troubled
    BY <1>1, <2>2 DEF ControlTypes, Control!ControlTypeOK
  <2> QED
    BY <1>2, <2>1, <2>2
<1>10. published' \in [Control!Providers -> Control!Policies]
       /\ \A p \in Control!Providers : published'[p].edition <= updates
  BY <1>1, <1>2, <1>4, <1>7, ControlFacts
<1>11. ControlTypes'
  BY <1>1, <1>2, <1>4, <1>6, <1>7, <1>8, <1>9, <1>10 DEF ControlTypes, Control!ControlTypeOK
<1>12. UpdateInv'
  <2>1. CASE troubled'
    BY <2>1 DEF UpdateInv
  <2>2. CASE ~troubled'
    <3>1. controlMounted' \in sync.ok /\ published' = disabled /\ ~troubled
      BY <1>2, <2>2
    <3>2. savedPolicy = published
          /\ \A p \in Control!Providers : controlMounted[p] = Control!MountOf(published[p])
      BY <1>1, <1>2, <3>1 DEF UpdateInv, IsMountedAs, Control!NoUpdate
    <3>3. changed["shell"]
      BY <1>1, <1>3, <1>4, <1>5, <3>2, ControlFacts DEF Control!Enabled
    <3>4. \A p \in Control!Providers : controlMounted'[p] = Control!MountOf(disabled[p])
      BY <1>4, <1>6, <3>1, <3>2, <3>3
    <3>5. \A p \in Control!Providers : IsMountedAs(p)'
      BY <3>1, <3>4 DEF IsMountedAs, Control!MountOf, Control!Enabled
    <3> QED
      BY <1>2, <3>1, <3>5 DEF UpdateInv, Control!NoUpdate
  <2> QED
    BY <2>1, <2>2
<1>13. CallInv'
  BY <1>1, <1>2, <1>8, CallsRest
<1> QED
  BY <1>11, <1>12, <1>13 DEF ControlInv

\* The policies do not notice a call.
LEMMA PoliciesRest ==
    ASSUME ControlTypes, UpdateInv, UNCHANGED Control!policyVars,
           \A c \in Calls : call'[c].edition \in 0..MaxUpdates
    PROVE  ControlTypes' /\ UpdateInv'
<1>1. UNCHANGED <<savedPolicy, published, controlMounted, update, updates, troubled, up,
                  inEffect>>
  BY DEF Control!policyVars
<1>2. ControlTypes'
  BY <1>1 DEF ControlTypes, Control!ControlTypeOK
<1>3. UpdateInv'
  BY <1>1 DEF UpdateInv, IsMountedAs
<1> QED
  BY <1>2, <1>3

\* One call moves and leaves a record or none: what the other calls and its own records
\* make of CallInv.
LEMMA OneCall ==
    ASSUME ControlInv, UNCHANGED Control!policyVars, NEW c \in Calls,
           NEW new \in [at : CallSteps, tool : Control!Tools, target : Control!Targets,
                        edition : 0..MaxUpdates, done : BOOLEAN],
           call' = [call EXCEPT ![c] = new],
           new.at \in {"admitted", "executed", "answered"} => new.edition \in inEffect,
           \/ UNCHANGED audits /\ call[c].at \notin Decided /\ new.at \notin Decided
           \/ \E outcome \in {"succeeded", "failed", "denied"} :
                  /\ audits' = [audits EXCEPT ![c] = Append(audits[c], outcome)]
                  /\ call[c].at \notin Decided /\ new.at \in Decided
                  /\ outcome = "succeeded" => new.done
    PROVE  ControlInv'
<1>1. ControlTypes /\ UpdateInv /\ CallInv
  BY DEF ControlInv
<1>2. /\ call' \in [Calls -> [at : CallSteps, tool : Control!Tools, target : Control!Targets,
                              edition : 0..MaxUpdates, done : BOOLEAN]]
      /\ call'[c] = new /\ \A d \in Calls \ {c} : call'[d] = call[d]
  BY <1>1 DEF CallInv
<1>3. ControlTypes' /\ UpdateInv' /\ inEffect' = inEffect
  <2>1. \A d \in Calls : call'[d].edition \in 0..MaxUpdates
    BY <1>2
  <2> QED
    BY <1>1, <2>1, PoliciesRest DEF Control!policyVars
<1>4. audits[c] = <<>> /\ audits[c] \in Seq({"succeeded", "failed", "denied"})
  BY <1>1 DEF CallInv, CallOK
<1>5. CASE UNCHANGED audits /\ call[c].at \notin Decided /\ new.at \notin Decided
  <2>1. CallOK(c)'
    BY <1>2, <1>3, <1>4, <1>5 DEF CallOK
  <2>2. \A d \in Calls \ {c} : CallOK(d)'
    BY <1>1, <1>2, <1>3, <1>5 DEF CallInv, CallOK
  <2> QED
    BY <1>1, <1>2, <1>3, <1>5, <2>1, <2>2 DEF ControlInv, CallInv
<1>6. CASE \E outcome \in {"succeeded", "failed", "denied"} :
               /\ audits' = [audits EXCEPT ![c] = Append(audits[c], outcome)]
               /\ call[c].at \notin Decided /\ new.at \in Decided
               /\ outcome = "succeeded" => new.done
  <2>1. PICK outcome \in {"succeeded", "failed", "denied"} :
            /\ audits' = [audits EXCEPT ![c] = Append(audits[c], outcome)]
            /\ new.at \in Decided /\ (outcome = "succeeded" => new.done)
    BY <1>6
  <2>2. Append(audits[c], outcome) = <<outcome>>
        /\ Append(audits[c], outcome) \in Seq({"succeeded", "failed", "denied"})
    BY <1>4
  <2>3. /\ audits' \in [Calls -> Seq({"succeeded", "failed", "denied"})]
        /\ audits'[c] = <<outcome>> /\ \A d \in Calls \ {c} : audits'[d] = audits[d]
    BY <1>1, <2>1, <2>2 DEF CallInv
  <2>4. CallOK(c)'
    BY <1>2, <1>3, <2>1, <2>3 DEF CallOK
  <2>5. \A d \in Calls \ {c} : CallOK(d)'
    BY <1>1, <1>2, <1>3, <2>3 DEF CallInv, CallOK
  <2> QED
    BY <1>2, <1>3, <2>3, <2>4, <2>5 DEF ControlInv, CallInv
<1> QED
  BY <1>5, <1>6

LEMMA CallStep ==
    ASSUME ControlInv, NEW c \in Calls,
           \/ \E tool \in Control!Tools, target \in Control!Targets :
                  Control!CallTool(c, tool, target)
           \/ Control!Authorize(c) \/ Control!Execute(c) \/ Control!Answer(c)
           \/ Control!DropCall(c)
    PROVE  ControlInv'
<1> DEFINE Record == [at : CallSteps, tool : Control!Tools, target : Control!Targets,
                      edition : 0..MaxUpdates, done : BOOLEAN]
<1>1. call[c] \in Record /\ CallOK(c)
  BY DEF ControlInv, CallInv
<1>2. published["control"].edition \in inEffect
      /\ published["control"].edition \in 0..MaxUpdates
  <2>1. published["control"] \in Control!Policies
    BY ControlFacts DEF ControlInv, Control!Providers
  <2> QED
    BY <2>1 DEF ControlInv, ControlTypes, Control!Policies
<1>3. ASSUME NEW tool \in Control!Tools, NEW target \in Control!Targets,
             Control!CallTool(c, tool, target)
      PROVE  ControlInv'
  <2> DEFINE new == [Control!IdleCall EXCEPT !.at = "called", !.tool = tool, !.target = target]
  <2>1. /\ call[c].at = "idle" /\ call' = [call EXCEPT ![c] = new]
        /\ UNCHANGED Control!policyVars /\ UNCHANGED audits
    BY <1>3 DEF Control!CallTool
  <2>2. Control!IdleCall \in Record
    BY ServicesAssumption
    DEF Control!ControlAssumption, Control!IdleCall, CallSteps, Control!Tools, Control!Targets
  <2>3. new \in Record /\ new.at = "called"
    BY <2>2 DEF CallSteps
  <2> HIDE DEF new
  <2> QED
    BY <2>1, <2>3, OneCall DEF Decided
<1>4. CASE Control!Authorize(c)
  <2> DEFINE policy == published["control"]
             admitted == [call[c] EXCEPT !.at = "admitted", !.edition = policy.edition]
             denied == [call[c] EXCEPT !.at = "denied"]
  <2>1. /\ call[c].at = "called" /\ UNCHANGED Control!policyVars
        /\ \/ call' = [call EXCEPT ![c] = admitted] /\ UNCHANGED audits
           \/ call' = [call EXCEPT ![c] = denied] /\ Control!Audits(c, "denied")
    BY <1>4 DEF Control!Authorize, Control!Decide
  <2>2. /\ admitted \in Record /\ admitted.at = "admitted" /\ admitted.edition = policy.edition
        /\ denied \in Record /\ denied.at = "denied"
    BY <1>1, <1>2 DEF CallSteps, Decided
  <2> HIDE DEF admitted, denied
  <2>3. CASE call' = [call EXCEPT ![c] = admitted] /\ UNCHANGED audits
    BY <1>2, <2>1, <2>2, <2>3, OneCall DEF Decided
  <2>4. CASE call' = [call EXCEPT ![c] = denied] /\ Control!Audits(c, "denied")
    BY <2>1, <2>2, <2>4, OneCall DEF Decided, Control!Audits
  <2> QED
    BY <2>1, <2>3, <2>4
<1>5. CASE Control!Execute(c)
  <2>1. PICK done \in BOOLEAN :
            call' = [call EXCEPT ![c] = [call[c] EXCEPT !.at = "executed", !.done = done]]
    BY <1>5 DEF Control!Execute
  <2> DEFINE new == [call[c] EXCEPT !.at = "executed", !.done = done]
  <2>2. call[c].at = "admitted" /\ UNCHANGED Control!policyVars /\ UNCHANGED audits
    BY <1>5 DEF Control!Execute
  <2>3. new \in Record /\ new.at = "executed" /\ new.edition = call[c].edition
    BY <1>1 DEF CallSteps
  <2>4. call[c].edition \in inEffect
    BY <1>1, <2>2 DEF CallOK
  <2>5. call' = [call EXCEPT ![c] = new]
    BY <2>1
  <2> HIDE DEF new
  <2> QED
    BY <2>2, <2>3, <2>4, <2>5, OneCall DEF Decided
<1>6. CASE Control!Answer(c)
  <2> DEFINE new == [call[c] EXCEPT !.at = "answered"]
             outcome == IF call[c].done THEN "succeeded" ELSE "failed"
  <2>1. /\ call[c].at = "executed" /\ UNCHANGED Control!policyVars
        /\ call' = [call EXCEPT ![c] = new]
        /\ audits' = [audits EXCEPT ![c] = Append(audits[c], outcome)]
    BY <1>6 DEF Control!Answer, Control!Audits
  <2>2. /\ new \in Record /\ new.at = "answered" /\ new.edition = call[c].edition
        /\ new.done = call[c].done
    BY <1>1 DEF CallSteps, Decided
  <2>3. /\ outcome \in {"succeeded", "failed", "denied"}
        /\ outcome = "succeeded" => call[c].done
    OBVIOUS
  <2>4. call[c].edition \in inEffect
    BY <1>1, <2>1 DEF CallOK
  <2> HIDE DEF new, outcome
  <2> QED
    BY <2>1, <2>2, <2>3, <2>4, OneCall DEF Decided
<1>7. CASE Control!DropCall(c)
  <2> DEFINE gone == [call[c] EXCEPT !.at = "gone"]
             dropped == [call[c] EXCEPT !.at = "dropped"]
  <2>1. /\ UNCHANGED Control!policyVars
        /\ \/ call[c].at = "called" /\ call' = [call EXCEPT ![c] = gone] /\ UNCHANGED audits
           \/ /\ call[c].at \in {"admitted", "executed"}
              /\ call' = [call EXCEPT ![c] = dropped]
              /\ audits' = [audits EXCEPT ![c] = Append(audits[c], "failed")]
    BY <1>7 DEF Control!DropCall, Control!Audits
  <2>2. /\ gone \in Record /\ gone.at = "gone"
        /\ dropped \in Record /\ dropped.at = "dropped"
    BY <1>1 DEF CallSteps, Decided
  <2> HIDE DEF gone, dropped
  <2>3. CASE call[c].at = "called" /\ call' = [call EXCEPT ![c] = gone] /\ UNCHANGED audits
    BY <2>1, <2>2, <2>3, OneCall DEF Decided
  <2>4. CASE /\ call[c].at \in {"admitted", "executed"}
             /\ call' = [call EXCEPT ![c] = dropped]
             /\ audits' = [audits EXCEPT ![c] = Append(audits[c], "failed")]
    BY <2>1, <2>2, <2>4, OneCall DEF Decided
  <2> QED
    BY <2>1, <2>3, <2>4
<1> QED
  BY <1>3, <1>4, <1>5, <1>6, <1>7

LEMMA ControlStart == Control!ControlInit => ControlInv
<1> SUFFICES ASSUME Control!ControlInit PROVE ControlInv
  OBVIOUS
<1>1. PICK scopes \in [Control!Providers -> Control!Scopes] :
          savedPolicy = [p \in Control!Providers |-> [edition |-> 0, scope |-> scopes[p]]]
  BY DEF Control!ControlInit
<1>2. /\ published = savedPolicy
      /\ controlMounted = [p \in Control!Providers |->
             IF Control!Enabled(published[p]) THEN published[p] ELSE Control!Unmounted]
      /\ update = Control!NoUpdate /\ updates = 0 /\ troubled = FALSE /\ up \in BOOLEAN
      /\ inEffect = {0}
      /\ call = [c \in Calls |-> Control!IdleCall] /\ audits = [c \in Calls |-> <<>>]
  BY DEF Control!ControlInit
<1>3. MaxUpdates \in Nat
  BY ServicesAssumption DEF Control!ControlAssumption
<1>4. /\ savedPolicy \in [Control!Providers -> Control!Policies]
      /\ \A p \in Control!Providers : savedPolicy[p].edition = 0
  BY <1>1, <1>3 DEF Control!Policies
<1>5. \A p \in Control!Providers :
          /\ controlMounted[p] = Control!MountOf(published[p])
          /\ controlMounted[p] \in Control!Policies \cup {Control!Unmounted}
  BY <1>2, <1>4 DEF Control!MountOf
<1>6. /\ update.at = "none" /\ update.before.edition <= updates
      /\ update \in [at : {"none", "apply", "restore", "unsave", "resync", "restoreAgain"},
                     provider : Control!Providers, before : Control!Policies]
  BY <1>2, <1>3
  DEF Control!NoUpdate, Control!Providers, Control!Disabled, Control!Policies, Control!Scopes
<1>7. troubled \in BOOLEAN
  BY <1>2, Zenon
<1>8. Control!IdleCall \in [at : CallSteps, tool : Control!Tools, target : Control!Targets,
                            edition : 0..MaxUpdates, done : BOOLEAN]
      /\ Control!IdleCall.at = "idle" /\ Control!IdleCall.edition = 0
  BY <1>3 DEF Control!IdleCall, CallSteps, Control!Tools, Control!Targets
<1>9. /\ call \in [Calls -> [at : CallSteps, tool : Control!Tools, target : Control!Targets,
                             edition : 0..MaxUpdates, done : BOOLEAN]]
      /\ \A c \in Calls : call[c].at = "idle" /\ call[c].edition = 0 /\ audits[c] = <<>>
      /\ audits \in [Calls -> Seq({"succeeded", "failed", "denied"})]
  <2>1. <<>> \in Seq({"succeeded", "failed", "denied"})
    OBVIOUS
  <2> HIDE DEF Control!IdleCall
  <2> QED
    BY <1>2, <1>8, <2>1
<1>10. \A c \in Calls : call[c].edition \in 0..MaxUpdates
  BY <1>9
<1>11. ControlTypes
  <2>1. "control" \in Control!Providers
    BY DEF Control!Providers
  <2>2. \A p \in Control!Providers :
            savedPolicy[p].edition <= updates /\ published[p].edition <= updates
    BY <1>2, <1>4
  <2>3. published["control"].edition \in inEffect /\ updates \in 0..MaxUpdates
    BY <1>2, <1>3, <1>4, <2>1
  <2>4. Control!ControlTypeOK
    BY <1>2, <1>4, <1>5, <1>6, <1>7, <1>10 DEF Control!ControlTypeOK
  <2> QED
    BY <1>2, <1>6, <2>2, <2>3, <2>4 DEF ControlTypes
<1>12. UpdateInv
  BY <1>2, <1>5, <1>6 DEF UpdateInv, IsMountedAs
<1>13. CallInv
  BY <1>9 DEF CallInv, CallOK, CallSteps, Decided
<1> QED
  BY <1>11, <1>12, <1>13 DEF ControlInv

LEMMA ControlKeeps == ControlInv /\ Control!ControlNext => ControlInv'
<1> SUFFICES ASSUME ControlInv, Control!ControlNext PROVE ControlInv'
  OBVIOUS
<1>1. ASSUME NEW scope \in Control!Scopes, Control!BeginPolicyUpdate(scope) PROVE ControlInv'
  <2>1. Control!SavePolicy("control", scope) /\ "control" \in Control!Providers
    BY <1>1 DEF Control!BeginPolicyUpdate, Control!Providers
  <2> QED
    BY <2>1, SavePolicyStep
<1>2. ASSUME NEW scope \in {"off", "all"}, Control!BeginCommandLineUpdate(scope)
      PROVE  ControlInv'
  <2>1. Control!SavePolicy("shell", scope) /\ "shell" \in Control!Providers
        /\ scope \in Control!Scopes
    BY <1>2 DEF Control!BeginCommandLineUpdate, Control!Providers, Control!Scopes
  <2> QED
    BY <2>1, SavePolicyStep
<1>3. CASE \/ Control!ApplyPolicy \/ Control!RestoreProviders \/ Control!UnsavePolicy
           \/ Control!ResyncProviders \/ Control!StartComputer
           \/ Control!DisableCommandLine \/ Control!StopComputer \/ Control!DeleteOther
  BY <1>3, ApplyPolicyStep, RestoreProvidersStep, UnsavePolicyStep, ResyncProvidersStep,
     StartComputerStep, DisableCommandLineStep, StopComputerStep
<1>4. ASSUME NEW c \in Calls,
             \/ \E tool \in Control!Tools, target \in Control!Targets :
                    Control!CallTool(c, tool, target)
             \/ Control!Authorize(c) \/ Control!Execute(c) \/ Control!Answer(c)
             \/ Control!DropCall(c)
      PROVE  ControlInv'
  BY <1>4, CallStep
<1> HIDE DEF ControlInv
<1> QED
  BY <1>1, <1>2, <1>3, <1>4 DEF Control!ControlNext

LEMMA ControlRests == ControlInv /\ UNCHANGED Control!controlVars => ControlInv'
<1> SUFFICES ASSUME ControlInv, UNCHANGED Control!controlVars PROVE ControlInv'
  OBVIOUS
<1>1. /\ UNCHANGED <<savedPolicy, published, controlMounted, update, updates, troubled, up,
                     inEffect>>
      /\ UNCHANGED <<call, audits>>
  BY DEF Control!controlVars, Control!policyVars, Control!callVars
<1>2. ControlTypes'
  BY <1>1 DEF ControlInv, ControlTypes, Control!ControlTypeOK
<1>3. UpdateInv' /\ CallInv'
  BY <1>1, CallsRest DEF ControlInv, UpdateInv, IsMountedAs
<1> QED
  BY <1>2, <1>3 DEF ControlInv

-----------------------------------------------------------------------------
(* SkillPackages. *)

BusySteps == {"recover", "sweep", "prepare", "setAside", "commit"}
SkillSteps == {"idle", "asked", "ended", "retained"} \cup BusySteps
SkillRunners ==
    [at : SkillSteps, op : {"none", "create", "update", "delete"},
     expects : {Skills!Nothing} \cup Skills!Contents, seen : SUBSET Skills!Mutations,
     sweeps : 0..MaxMutations, then : {"none", "recover", "end"}, caller : BOOLEAN]

\* A part of a directory holds a content; who sweeps knows what, and what comes then.
DirOK(dir) == DOMAIN dir \subseteq Skills!Parts
    /\ \A p \in DOMAIN dir : dir[p] \in Skills!Contents
SkillTypes ==
    /\ Skills!SkillTypeOK
    /\ DOMAIN dirs = Skills!Mutations /\ \A m \in Skills!Mutations : DirOK(dirs[m])
    /\ mutation \in [Skills!Runners -> SkillRunners]
    /\ \A r \in Skills!Runners : mutation[r].at = "sweep" =>
           mutation[r].sweeps \in Skills!Mutations /\ mutation[r].then \in {"recover", "end"}

Attended == \A m \in Skills!Mutations : mutation[m].caller
Busy(m) == mutation[m].at \in BusySteps

\* Nothing runs beside the recovery of the start, and a change that runs holds the lock
\* of the package, unless a caller was dropped.
LockInv ==
    /\ mutation[Skills!Startup].at \in {"idle", "recover", "sweep", "ended"}
    /\ Skills!Running(Skills!Startup) =>
           \A m \in Skills!Mutations : mutation[m].at \in {"idle", "ended"}
    /\ \A m \in Skills!Mutations : mutation[m].at = "idle" => mutation[m].caller
    /\ Attended => \A m \in Skills!Mutations : Busy(m) => skillLock = m

\* The revision a change names is there from its examination until it replaces it.
Checked(m) ==
    /\ mutation[m].expects # Skills!Nothing
    /\ \/ mutation[m].at \in {"prepare", "setAside"}
       \/ mutation[m].at = "commit" /\ mutation[m].op = "delete"
ExpectInv ==
    /\ \A m \in Skills!Mutations : mutation[m].at = "setAside" => mutation[m].op = "update"
    /\ Attended => /\ \A m \in Skills!Mutations : Checked(m) => skill = mutation[m].expects
                   /\ Skills!RevisionIsRespected

SkillInv == SkillTypes /\ LockInv /\ ExpectInv

LEMMA SkillNumbers ==
    /\ MaxMutations \in Nat /\ Skills!Mutations = 1..MaxMutations
    /\ Skills!Startup = 0 /\ Skills!Free = 0 /\ Skills!Nothing = 0
    /\ Skills!Runners = {0} \cup Skills!Mutations /\ 0 \notin Skills!Mutations
    /\ Skills!Nothing \notin Skills!Contents
    /\ Skills!Mutations \subseteq Skills!Contents /\ Skills!Edited \in Skills!Contents
    /\ Skills!Original \in Skills!Contents
  BY ServicesAssumption
  DEF Skills!SkillAssumption, Skills!Mutations, Skills!Startup, Skills!Free, Skills!Nothing,
      Skills!Runners, Skills!Contents, Skills!Edited, Skills!Original

\* What the types say of the parts the proofs use.
LEMMA SkillFacts ==
    ASSUME SkillTypes
    PROVE  /\ skill \in {0} \cup Skills!Contents /\ committed \in {0} \cup Skills!Contents
           /\ skillLock \in {0} \cup Skills!Mutations
           /\ \A m \in Skills!Mutations : DirOK(dirs[m])
           /\ \A r \in Skills!Runners : mutation[r] \in SkillRunners
  BY SkillNumbers DEF SkillTypes, Skills!SkillTypeOK

\* A directory that loses or gets a part is one.
LEMMA DirKeeps ==
    ASSUME SkillTypes, NEW t \in Skills!Mutations, NEW p \in Skills!Parts
    PROVE  /\ DirOK(Skills!Without(t, p))
           /\ \A c \in Skills!Contents : DirOK(Skills!With(t, p, c))
           /\ Skills!Holds(t, p) # Skills!Nothing => Skills!Holds(t, p) \in Skills!Contents
<1>1. DirOK(dirs[t])
  BY DEF SkillTypes
<1> QED
  BY <1>1 DEF DirOK, Skills!Without, Skills!With, Skills!Holds, Skills!PartsLeft

\* The types of a step, from what changes.
LEMMA SkillTyped ==
    ASSUME SkillTypes,
           skill' \in {0} \cup Skills!Contents, committed' \in {0} \cup Skills!Contents,
           skillLock' \in {0} \cup Skills!Mutations,
           \/ UNCHANGED dirs
           \/ \E t \in Skills!Mutations :
                 DirOK(dirs'[t]) /\ dirs' = [dirs EXCEPT ![t] = dirs'[t]],
           mutation' \in [Skills!Runners -> SkillRunners],
           \A r \in Skills!Runners : mutation'[r].at = "sweep" =>
               mutation'[r].sweeps \in Skills!Mutations
               /\ mutation'[r].then \in {"recover", "end"}
    PROVE  SkillTypes'
<1>1. DOMAIN dirs' = Skills!Mutations /\ \A m \in Skills!Mutations : DirOK(dirs'[m])
  <2>1. CASE UNCHANGED dirs
    BY <2>1 DEF SkillTypes, DirOK
  <2>2. ASSUME NEW t \in Skills!Mutations, DirOK(dirs'[t]),
               dirs' = [dirs EXCEPT ![t] = dirs'[t]]
        PROVE  DOMAIN dirs' = Skills!Mutations
               /\ \A m \in Skills!Mutations : DirOK(dirs'[m])
    <3>1. DOMAIN dirs' = Skills!Mutations
          /\ \A m \in Skills!Mutations \ {t} : dirs'[m] = dirs[m]
      BY <2>2 DEF SkillTypes
    <3> QED
      BY <2>2, <3>1 DEF SkillTypes, DirOK
  <2> QED
    BY <2>1, <2>2
<1>2. \A r \in Skills!Runners :
          mutation'[r].at \in {"idle", "asked", "recover", "sweep", "prepare", "setAside",
                               "commit", "ended", "retained"}
  BY DEF SkillRunners, SkillSteps, BusySteps
<1>3. \A m \in Skills!Mutations : Skills!PartsLeft(m)' \subseteq Skills!Parts
  BY <1>1 DEF Skills!PartsLeft, DirOK
<1>4. Skills!SkillTypeOK'
  BY <1>2, <1>3, SkillNumbers DEF Skills!SkillTypeOK
<1> QED
  BY <1>1, <1>4 DEF SkillTypes, DirOK

\* A runner that goes on keeps what it does; the others keep where they are.
LEMMA GoesOn ==
    ASSUME SkillTypes, NEW r \in Skills!Runners, NEW step \in SkillSteps, Skills!Goes(r, step)
    PROVE  /\ mutation' \in [Skills!Runners -> SkillRunners]
           /\ mutation'[r].at = step /\ mutation'[r].op = mutation[r].op
           /\ mutation'[r].expects = mutation[r].expects
           /\ mutation'[r].caller = mutation[r].caller
           /\ mutation'[r].sweeps = mutation[r].sweeps /\ mutation'[r].then = mutation[r].then
           /\ \A q \in Skills!Runners \ {r} : mutation'[q] = mutation[q]
           /\ step # "sweep" => \A q \in Skills!Runners : mutation'[q].at = "sweep" =>
                 mutation'[q].sweeps \in Skills!Mutations
                 /\ mutation'[q].then \in {"recover", "end"}
<1>1. mutation' = [mutation EXCEPT ![r] = [mutation[r] EXCEPT !.at = step]]
  BY DEF Skills!Goes
<1> DEFINE new == [mutation[r] EXCEPT !.at = step]
<1>2. /\ new \in SkillRunners /\ new.at = step /\ new.op = mutation[r].op
      /\ new.expects = mutation[r].expects /\ new.caller = mutation[r].caller
      /\ new.sweeps = mutation[r].sweeps /\ new.then = mutation[r].then
  BY SkillFacts DEF SkillRunners
<1>3. mutation' = [mutation EXCEPT ![r] = new] /\ mutation \in [Skills!Runners -> SkillRunners]
  BY <1>1 DEF SkillTypes
<1> HIDE DEF new
<1>4. /\ mutation' \in [Skills!Runners -> SkillRunners] /\ mutation'[r] = new
      /\ \A q \in Skills!Runners \ {r} : mutation'[q] = mutation[q]
  BY <1>2, <1>3
<1> QED
  BY <1>2, <1>4 DEF SkillTypes

LEMMA SweepsOn ==
    ASSUME SkillTypes, NEW r \in Skills!Runners, NEW t \in Skills!Mutations,
           Skills!Sweeps(r, t, "end")
    PROVE  /\ mutation' \in [Skills!Runners -> SkillRunners]
           /\ mutation'[r].at = "sweep" /\ mutation'[r].op = mutation[r].op
           /\ mutation'[r].expects = mutation[r].expects
           /\ mutation'[r].caller = mutation[r].caller
           /\ \A q \in Skills!Runners \ {r} : mutation'[q] = mutation[q]
           /\ \A q \in Skills!Runners : mutation'[q].at = "sweep" =>
                 mutation'[q].sweeps \in Skills!Mutations
                 /\ mutation'[q].then \in {"recover", "end"}
<1> DEFINE new == [mutation[r] EXCEPT !.at = "sweep", !.sweeps = t, !.then = "end"]
<1>1. mutation' = [mutation EXCEPT ![r] = new]
  BY DEF Skills!Sweeps
<1>2. /\ new \in SkillRunners /\ new.at = "sweep" /\ new.op = mutation[r].op
      /\ new.expects = mutation[r].expects /\ new.caller = mutation[r].caller
      /\ new.sweeps = t /\ new.then = "end"
  <2>1. t \in 0..MaxMutations /\ "sweep" \in SkillSteps
    BY SkillNumbers DEF SkillSteps, BusySteps
  <2> QED
    BY <2>1, SkillFacts DEF SkillRunners
<1>3. mutation \in [Skills!Runners -> SkillRunners]
  BY DEF SkillTypes
<1> HIDE DEF new
<1>4. /\ mutation' \in [Skills!Runners -> SkillRunners] /\ mutation'[r] = new
      /\ \A q \in Skills!Runners \ {r} : mutation'[q] = mutation[q]
  BY <1>1, <1>2, <1>3
<1> QED
  BY <1>2, <1>4 DEF SkillTypes

\* A change that runs goes on: the lock and the revisions, from what it changes.
LEMMA BusyGoesOn ==
    ASSUME SkillInv, NEW m \in Skills!Mutations, Busy(m),
           mutation'[m].at \in BusySteps \cup {"ended", "retained"},
           mutation'[m].caller = mutation[m].caller,
           \A q \in Skills!Runners \ {m} : mutation'[q] = mutation[q],
           \/ skillLock' = skillLock
           \/ /\ mutation'[m].at \in {"ended", "retained"}
              /\ skillLock' = IF skillLock = m THEN Skills!Free ELSE skillLock,
           mutation'[m].at = "setAside" => mutation'[m].op = "update",
           Checked(m)' /\ Attended => skill' = mutation'[m].expects,
           Attended => \A pair \in replaced' \ replaced : pair[1] = pair[2]
    PROVE  LockInv' /\ ExpectInv'
<1>1. SkillTypes /\ LockInv /\ ExpectInv
  BY DEF SkillInv
<1>2. m # 0 /\ m \in Skills!Runners /\ 0 \in Skills!Runners
      /\ \A n \in Skills!Mutations : n \in Skills!Runners
  BY SkillNumbers
<1>3. ~Skills!Running(Skills!Startup)
  BY <1>1 DEF LockInv, Busy, BusySteps
<1>4. mutation'[0] = mutation[0] /\ ~Skills!Running(Skills!Startup)'
  BY <1>2, <1>3, SkillNumbers DEF Skills!Running
<1>5. Attended' <=> Attended
  BY <1>2 DEF Attended
<1>6. Attended => \A n \in Skills!Mutations \ {m} : ~Busy(n) /\ ~Busy(n)'
  BY <1>1, <1>2 DEF LockInv, Busy
<1>7. LockInv'
  <2>1. mutation'[Skills!Startup].at \in {"idle", "recover", "sweep", "ended"}
    BY <1>1, <1>4, SkillNumbers DEF LockInv
  <2>2. \A n \in Skills!Mutations : mutation'[n].at = "idle" => mutation'[n].caller
    BY <1>1, <1>2 DEF LockInv, BusySteps
  <2>3. Attended => \A n \in Skills!Mutations : Busy(n)' => skillLock' = n
    BY <1>1, <1>6 DEF LockInv, Busy, BusySteps
  <2> QED
    BY <1>4, <1>5, <2>1, <2>2, <2>3 DEF LockInv
<1>8. ExpectInv'
  <2>1. Attended => \A n \in Skills!Mutations \ {m} : ~Checked(n)'
    BY <1>6 DEF Checked, Busy, BusySteps
  <2>2. Attended => Skills!RevisionIsRespected'
    BY <1>1 DEF ExpectInv, Skills!RevisionIsRespected
  <2>3. \A n \in Skills!Mutations :
            mutation'[n].at = "setAside" => mutation'[n].op = "update"
    BY <1>1, <1>2 DEF ExpectInv
  <2> QED
    BY <1>5, <2>1, <2>2, <2>3 DEF ExpectInv
<1> QED
  BY <1>7, <1>8

DirsGoOn ==
    \/ UNCHANGED dirs
    \/ \E t \in Skills!Mutations :
          DirOK(dirs'[t]) /\ dirs' = [dirs EXCEPT ![t] = dirs'[t]]

LEMMA DirsChange ==
    ASSUME SkillTypes, NEW t \in Skills!Mutations, NEW d, DirOK(d),
           dirs' = [dirs EXCEPT ![t] = d]
    PROVE  DirsGoOn
<1>1. dirs'[t] = d
  BY DEF SkillTypes
<1> QED
  BY <1>1 DEF DirsGoOn

\* The lock when a change leaves, and that a change is one of the runners.
LEMMA LockTyped ==
    ASSUME SkillTypes, NEW m,
           skillLock' = skillLock \/ skillLock' = IF skillLock = m THEN Skills!Free ELSE skillLock
    PROVE  skillLock' \in {0} \cup Skills!Mutations
  BY SkillFacts, SkillNumbers

LEMMA ExamineStep ==
    ASSUME SkillInv, NEW m \in Skills!Mutations, Skills!Examine(m)
    PROVE  SkillInv'
<1>1. SkillTypes /\ LockInv /\ ExpectInv /\ m \in Skills!Runners
  BY SkillNumbers DEF SkillInv
<1>2. mutation[m].at = "recover" /\ UNCHANGED <<skill, committed, replaced, faults>>
  BY DEF Skills!Examine
<1>3. Busy(m)
  BY <1>2 DEF Busy, BusySteps
<1>4. CASE Skills!Refused(m)
  <2>1. /\ Skills!Goes(m, "ended") /\ UNCHANGED dirs
        /\ skillLock' = IF skillLock = m THEN Skills!Free ELSE skillLock
    BY <1>4 DEF Skills!Examine, Skills!Leave
  <2>2. "ended" \in SkillSteps
    BY DEF SkillSteps
  <2>3. SkillTypes'
    BY <1>1, <1>2, <2>1, <2>2, GoesOn, LockTyped, SkillFacts, SkillTyped
  <2>4. LockInv' /\ ExpectInv'
    BY <1>1, <1>2, <1>3, <2>1, <2>2, GoesOn, BusyGoesOn DEF Checked
  <2> QED
    BY <2>3, <2>4 DEF SkillInv
<1>5. CASE ~Skills!Refused(m)
  <2> DEFINE step == IF mutation[m].op = "delete" THEN "commit" ELSE "prepare"
             begun == [p \in {"record"} |-> m]
  <2>1. Skills!Goes(m, step) /\ dirs' = [dirs EXCEPT ![m] = begun] /\ skillLock' = skillLock
    BY <1>5 DEF Skills!Examine
  <2>2. step \in {"commit", "prepare"} /\ step \in SkillSteps
    BY DEF SkillSteps, BusySteps
  <2>3. DirOK(begun)
    BY SkillNumbers DEF DirOK, Skills!Parts
  <2>4. mutation[m].expects # Skills!Nothing => mutation[m].expects = skill
    BY <1>5 DEF Skills!Refused
  <2> HIDE DEF step, begun
  <2>5. DirsGoOn
    BY <1>1, <2>1, <2>3, DirsChange
  <2>6. SkillTypes'
    BY <1>1, <1>2, <2>1, <2>2, <2>5, GoesOn, LockTyped, SkillFacts, SkillTyped DEF DirsGoOn
  <2>7. LockInv' /\ ExpectInv'
    <3>1. /\ mutation'[m].at \in BusySteps \cup {"ended", "retained"}
          /\ mutation'[m].caller = mutation[m].caller
          /\ mutation'[m].expects = mutation[m].expects
          /\ mutation'[m].at # "setAside"
          /\ \A q \in Skills!Runners \ {m} : mutation'[q] = mutation[q]
      BY <1>1, <2>1, <2>2, GoesOn DEF BusySteps
    <3>2. Checked(m)' => skill' = mutation'[m].expects
      BY <1>2, <2>4, <3>1 DEF Checked
    <3> QED
      BY <1>1, <1>2, <1>3, <2>1, <3>1, <3>2, BusyGoesOn
  <2> QED
    BY <2>6, <2>7 DEF SkillInv
<1> QED
  BY <1>4, <1>5

LEMMA PrepareStep ==
    ASSUME SkillInv, NEW m \in Skills!Mutations, Skills!Prepare(m)
    PROVE  SkillInv'
<1>1. SkillTypes /\ LockInv /\ ExpectInv /\ m \in Skills!Runners /\ m \in Skills!Contents
  BY SkillNumbers DEF SkillInv
<1>2. mutation[m].at = "prepare" /\ UNCHANGED <<skill, skillLock, committed, replaced, faults>>
  BY DEF Skills!Prepare
<1>3. Busy(m) /\ (Attended /\ mutation[m].expects # Skills!Nothing =>
                      skill = mutation[m].expects)
  BY <1>1, <1>2 DEF Busy, BusySteps, ExpectInv, Checked
<1>4. CASE Skills!Sweeps(m, m, "end") /\ UNCHANGED dirs
  <2>1. SkillTypes'
    BY <1>1, <1>2, <1>4, SweepsOn, SkillFacts, SkillTyped
  <2>2. LockInv' /\ ExpectInv'
    BY <1>1, <1>2, <1>3, <1>4, SweepsOn, BusyGoesOn DEF Checked, BusySteps
  <2> QED
    BY <2>1, <2>2 DEF SkillInv
<1>5. CASE ~(Skills!Sweeps(m, m, "end") /\ UNCHANGED dirs)
  <2> DEFINE step == IF mutation[m].op = "update" THEN "setAside" ELSE "commit"
  <2>1. Skills!Goes(m, step) /\ dirs' = [dirs EXCEPT ![m] = Skills!With(m, "candidate", m)]
    BY <1>5 DEF Skills!Prepare
  <2>2. step \in {"commit", "setAside"} /\ step \in SkillSteps
    BY DEF SkillSteps, BusySteps
  <2> HIDE DEF step
  <2>3. DirsGoOn
    <3>1. "candidate" \in Skills!Parts
      BY DEF Skills!Parts
    <3> QED
      BY <1>1, <2>1, <3>1, DirKeeps, DirsChange
  <2>4. SkillTypes'
    BY <1>1, <1>2, <2>1, <2>2, <2>3, GoesOn, SkillFacts, SkillTyped DEF DirsGoOn
  <2>5. LockInv' /\ ExpectInv'
    <3>1. /\ mutation'[m].at \in BusySteps \cup {"ended", "retained"}
          /\ mutation'[m].caller = mutation[m].caller
          /\ mutation'[m].expects = mutation[m].expects
          /\ mutation'[m].at = "setAside" => mutation'[m].op = "update"
          /\ \A q \in Skills!Runners \ {m} : mutation'[q] = mutation[q]
      BY <1>1, <2>1, <2>2, GoesOn DEF BusySteps, step
    <3>2. Checked(m)' /\ Attended => skill' = mutation'[m].expects
      BY <1>2, <1>3, <3>1 DEF Checked
    <3> QED
      BY <1>1, <1>2, <1>3, <3>1, <3>2, BusyGoesOn
  <2> QED
    BY <2>4, <2>5 DEF SkillInv
<1> QED
  BY <1>4, <1>5

LEMMA SetAsideStep ==
    ASSUME SkillInv, NEW m \in Skills!Mutations, Skills!SetAside(m)
    PROVE  SkillInv'
<1>1. SkillTypes /\ LockInv /\ ExpectInv /\ m \in Skills!Runners
  BY SkillNumbers DEF SkillInv
<1>2. mutation[m].at = "setAside" /\ UNCHANGED <<skillLock, committed, faults>>
  BY DEF Skills!SetAside
<1>3. Busy(m) /\ (Attended /\ mutation[m].expects # Skills!Nothing =>
                      skill = mutation[m].expects)
  BY <1>1, <1>2 DEF Busy, BusySteps, ExpectInv, Checked
<1>4. CASE Skills!Sweeps(m, m, "end") /\ UNCHANGED <<skill, dirs, replaced>>
  <2>1. SkillTypes'
    BY <1>1, <1>2, <1>4, SweepsOn, SkillFacts, SkillTyped
  <2>2. LockInv' /\ ExpectInv'
    BY <1>1, <1>2, <1>3, <1>4, SweepsOn, BusyGoesOn DEF Checked, BusySteps
  <2> QED
    BY <2>1, <2>2 DEF SkillInv
<1>5. CASE ~(Skills!Sweeps(m, m, "end") /\ UNCHANGED <<skill, dirs, replaced>>)
  <2>1. /\ skill # Skills!Nothing /\ skill' = Skills!Nothing
        /\ dirs' = [dirs EXCEPT ![m] = Skills!With(m, "previous", skill)]
        /\ Skills!Replaces(m) /\ Skills!Goes(m, "commit")
    BY <1>5 DEF Skills!SetAside
  <2>2. "commit" \in SkillSteps /\ "previous" \in Skills!Parts
    BY DEF SkillSteps, BusySteps, Skills!Parts
  <2>3. skill \in Skills!Contents /\ skill' = 0
    BY <1>1, <2>1, SkillFacts, SkillNumbers
  <2>4. DirsGoOn
    BY <1>1, <2>1, <2>2, <2>3, DirKeeps, DirsChange
  <2>5. SkillTypes'
    BY <1>1, <1>2, <2>1, <2>2, <2>3, <2>4, GoesOn, SkillFacts, SkillTyped DEF DirsGoOn
  <2>6. /\ mutation'[m].at = "commit" /\ mutation'[m].at \in BusySteps
        /\ mutation'[m].caller = mutation[m].caller /\ mutation'[m].op = mutation[m].op
        /\ mutation'[m].expects = mutation[m].expects
        /\ \A q \in Skills!Runners \ {m} : mutation'[q] = mutation[q]
    BY <1>1, <2>1, <2>2, GoesOn DEF BusySteps
  <2>7. ~Checked(m)'
    BY <1>1, <1>2, <2>6 DEF ExpectInv, Checked
  <2>8. Attended => \A pair \in replaced' \ replaced : pair[1] = pair[2]
    BY <1>3, <2>1 DEF Skills!Replaces
  <2>9. LockInv' /\ ExpectInv'
    BY <1>2, <1>3, <2>6, <2>7, <2>8, BusyGoesOn
  <2> QED
    BY <2>5, <2>9 DEF SkillInv
<1> QED
  BY <1>4, <1>5

LEMMA CommitStep ==
    ASSUME SkillInv, NEW m \in Skills!Mutations, Skills!Commit(m)
    PROVE  SkillInv'
<1>1. SkillTypes /\ LockInv /\ ExpectInv /\ m \in Skills!Runners /\ m \in Skills!Contents
  BY SkillNumbers DEF SkillInv
<1>2. mutation[m].at = "commit" /\ Skills!Sweeps(m, m, "end") /\ UNCHANGED <<skillLock, faults>>
  BY DEF Skills!Commit
<1>3. /\ Busy(m)
      /\ Attended /\ mutation[m].op = "delete" /\ mutation[m].expects # Skills!Nothing =>
             skill = mutation[m].expects
  BY <1>1, <1>2 DEF Busy, BusySteps, ExpectInv, Checked
<1>4. DirsGoOn /\ skill' \in {0} \cup Skills!Contents /\ committed' \in {0} \cup Skills!Contents
      /\ (Attended => \A pair \in replaced' \ replaced : pair[1] = pair[2])
  <2>1. CASE mutation[m].op = "delete"
    <3>1. /\ skill # Skills!Nothing /\ skill' = Skills!Nothing /\ committed' = Skills!Nothing
          /\ dirs' = [dirs EXCEPT ![m] = Skills!With(m, "deleted", skill)]
          /\ Skills!Replaces(m)
      BY <2>1 DEF Skills!Commit
    <3>2. skill \in Skills!Contents /\ "deleted" \in Skills!Parts
      BY <1>1, <3>1, SkillFacts, SkillNumbers DEF Skills!Parts
    <3>3. DirsGoOn
      BY <1>1, <3>1, <3>2, DirKeeps, DirsChange
    <3>4. Attended => \A pair \in replaced' \ replaced : pair[1] = pair[2]
      BY <1>3, <2>1, <3>1 DEF Skills!Replaces
    <3> QED
      BY <3>1, <3>3, <3>4, SkillNumbers
  <2>2. CASE mutation[m].op # "delete"
    <3>1. /\ skill' = m /\ committed' = m /\ UNCHANGED replaced
          /\ dirs' = [dirs EXCEPT ![m] = Skills!Without(m, "candidate")]
      BY <2>2 DEF Skills!Commit
    <3>2. DirsGoOn
      <4>1. "candidate" \in Skills!Parts
        BY DEF Skills!Parts
      <4> QED
        BY <1>1, <3>1, <4>1, DirKeeps, DirsChange
    <3> QED
      BY <1>1, <3>1, <3>2
  <2> QED
    BY <2>1, <2>2
<1>5. SkillTypes'
  BY <1>1, <1>2, <1>4, SweepsOn, SkillFacts, SkillTyped DEF DirsGoOn
<1>6. LockInv' /\ ExpectInv'
  BY <1>1, <1>2, <1>3, <1>4, SweepsOn, BusyGoesOn DEF Checked, BusySteps
<1> QED
  BY <1>5, <1>6 DEF SkillInv

LEMMA CommitFailsStep ==
    ASSUME SkillInv, NEW m \in Skills!Mutations, Skills!CommitFails(m)
    PROVE  SkillInv'
<1>1. SkillTypes /\ LockInv /\ ExpectInv /\ m \in Skills!Runners
  BY SkillNumbers DEF SkillInv
<1>2. mutation[m].at = "commit" /\ UNCHANGED <<committed, replaced, faults>>
  BY DEF Skills!CommitFails
<1>3. Busy(m)
  BY <1>2 DEF Busy, BusySteps
<1>4. \/ Skills!Sweeps(m, m, "end") /\ UNCHANGED <<skill, dirs, skillLock>>
      \/ /\ Skills!Holds(m, "previous") # Skills!Nothing
         /\ skill' = Skills!Holds(m, "previous")
         /\ dirs' = [dirs EXCEPT ![m] = Skills!Without(m, "previous")]
         /\ Skills!Sweeps(m, m, "end") /\ UNCHANGED skillLock
      \/ Skills!Leave(m, "retained") /\ UNCHANGED <<skill, dirs>>
  BY DEF Skills!CommitFails
<1>5. CASE Skills!Sweeps(m, m, "end") /\ UNCHANGED <<skill, dirs, skillLock>>
  <2>1. SkillTypes'
    BY <1>1, <1>2, <1>5, SweepsOn, SkillFacts, SkillTyped
  <2>2. LockInv' /\ ExpectInv'
    BY <1>1, <1>2, <1>3, <1>5, SweepsOn, BusyGoesOn DEF Checked, BusySteps
  <2> QED
    BY <2>1, <2>2 DEF SkillInv
<1>6. CASE /\ Skills!Holds(m, "previous") # Skills!Nothing
           /\ skill' = Skills!Holds(m, "previous")
           /\ dirs' = [dirs EXCEPT ![m] = Skills!Without(m, "previous")]
           /\ Skills!Sweeps(m, m, "end") /\ UNCHANGED skillLock
  <2>1. "previous" \in Skills!Parts
    BY DEF Skills!Parts
  <2>2. skill' \in Skills!Contents /\ DirsGoOn
    BY <1>1, <1>6, <2>1, DirKeeps, DirsChange
  <2>3. SkillTypes'
    BY <1>1, <1>2, <1>6, <2>2, SweepsOn, SkillFacts, SkillTyped DEF DirsGoOn
  <2>4. LockInv' /\ ExpectInv'
    BY <1>1, <1>2, <1>3, <1>6, SweepsOn, BusyGoesOn DEF Checked, BusySteps
  <2> QED
    BY <2>3, <2>4 DEF SkillInv
<1>7. CASE Skills!Leave(m, "retained") /\ UNCHANGED <<skill, dirs>>
  <2>1. /\ Skills!Goes(m, "retained") /\ "retained" \in SkillSteps
        /\ skillLock' = IF skillLock = m THEN Skills!Free ELSE skillLock
    BY <1>7 DEF Skills!Leave, SkillSteps
  <2>2. SkillTypes'
    BY <1>1, <1>2, <1>7, <2>1, GoesOn, LockTyped, SkillFacts, SkillTyped
  <2>3. LockInv' /\ ExpectInv'
    BY <1>1, <1>2, <1>3, <1>7, <2>1, GoesOn, BusyGoesOn DEF Checked
  <2> QED
    BY <2>2, <2>3 DEF SkillInv
<1> QED
  BY <1>4, <1>5, <1>6, <1>7

LEMMA RecoverFailsStep ==
    ASSUME SkillInv, NEW m \in Skills!Mutations, Skills!RecoverFails(m)
    PROVE  SkillInv'
<1>1. SkillTypes /\ LockInv /\ ExpectInv /\ m \in Skills!Runners
  BY SkillNumbers DEF SkillInv
<1>2. /\ mutation[m].at = "recover" /\ UNCHANGED <<skill, dirs, committed, replaced>>
      /\ Skills!Goes(m, "ended") /\ "ended" \in SkillSteps
      /\ skillLock' = IF skillLock = m THEN Skills!Free ELSE skillLock
  BY DEF Skills!RecoverFails, Skills!Leave, SkillSteps
<1>3. Busy(m)
  BY <1>2 DEF Busy, BusySteps
<1>4. SkillTypes'
  BY <1>1, <1>2, GoesOn, LockTyped, SkillFacts, SkillTyped
<1>5. LockInv' /\ ExpectInv'
  BY <1>1, <1>2, <1>3, GoesOn, BusyGoesOn DEF Checked
<1> QED
  BY <1>4, <1>5 DEF SkillInv

\* The recovery of the start goes on: there is no change yet.
LEMMA StartupGoesOn ==
    ASSUME SkillInv, Skills!Running(Skills!Startup),
           \A m \in Skills!Mutations : mutation'[m] = mutation[m],
           mutation'[0].at \in {"recover", "sweep", "ended"}, UNCHANGED replaced
    PROVE  LockInv' /\ ExpectInv'
<1>1. \A m \in Skills!Mutations : mutation[m].at \in {"idle", "ended"}
  BY DEF SkillInv, LockInv
<1>2. Attended' <=> Attended
  BY DEF Attended
<1>3. LockInv'
  BY <1>1, SkillNumbers DEF SkillInv, LockInv, Busy, BusySteps
<1>4. ExpectInv'
  BY <1>1, <1>2 DEF SkillInv, ExpectInv, Checked, Skills!RevisionIsRespected
<1> QED
  BY <1>3, <1>4

LEMMA RecoverStep ==
    ASSUME SkillInv, NEW r \in Skills!Runners, Skills!Recover(r)
    PROVE  SkillInv'
<1>1. SkillTypes /\ LockInv /\ ExpectInv
  BY DEF SkillInv
<1>2. mutation[r].at = "recover" /\ UNCHANGED <<skillLock, committed, replaced, faults>>
  BY DEF Skills!Recover
<1>3. PICK t \in Skills!Unseen(r) :
          LET puts == Skills!Holds(t, "previous") # Skills!Nothing /\ skill = Skills!Nothing IN
          /\ skill' = IF puts THEN Skills!Holds(t, "previous") ELSE skill
          /\ dirs' = IF puts THEN [dirs EXCEPT ![t] = Skills!Without(t, "previous")] ELSE dirs
          /\ mutation' = [mutation EXCEPT ![r].at = "sweep", ![r].sweeps = t,
                              ![r].then = "recover", ![r].seen = @ \cup {t}]
  BY DEF Skills!Recover
<1>4. t \in Skills!Mutations
  BY DEF Skills!Unseen
<1>5. skill' \in {0} \cup Skills!Contents /\ DirsGoOn
  <2>1. "previous" \in Skills!Parts
    BY DEF Skills!Parts
  <2>2. CASE Skills!Holds(t, "previous") # Skills!Nothing /\ skill = Skills!Nothing
    <3>1. skill' = Skills!Holds(t, "previous")
          /\ dirs' = [dirs EXCEPT ![t] = Skills!Without(t, "previous")]
      BY <1>3, <2>2
    <3> QED
      BY <1>1, <1>4, <2>1, <2>2, <3>1, DirKeeps, DirsChange
  <2>3. CASE ~(Skills!Holds(t, "previous") # Skills!Nothing /\ skill = Skills!Nothing)
    <3>1. skill' = skill /\ dirs' = dirs
      BY <1>3, <2>3
    <3> QED
      BY <1>1, <3>1, SkillFacts DEF DirsGoOn
  <2> QED
    BY <2>2, <2>3
<1> DEFINE new == [mutation[r] EXCEPT !.at = "sweep", !.sweeps = t, !.then = "recover",
                                      !.seen = @ \cup {t}]
<1>6. mutation' = [mutation EXCEPT ![r] = new]
  BY <1>3
<1>7. /\ new \in SkillRunners /\ new.at = "sweep" /\ new.op = mutation[r].op
      /\ new.expects = mutation[r].expects /\ new.caller = mutation[r].caller
      /\ new.sweeps = t /\ new.then = "recover"
  <2>1. t \in 0..MaxMutations /\ "sweep" \in SkillSteps
    BY <1>4, SkillNumbers DEF SkillSteps, BusySteps
  <2> QED
    BY <1>1, <1>4, <2>1, SkillFacts DEF SkillRunners
<1> HIDE DEF new
<1>8. /\ mutation' \in [Skills!Runners -> SkillRunners] /\ mutation'[r] = new
      /\ \A q \in Skills!Runners \ {r} : mutation'[q] = mutation[q]
  BY <1>1, <1>6, <1>7 DEF SkillTypes
<1>9. \A q \in Skills!Runners : mutation'[q].at = "sweep" =>
          mutation'[q].sweeps \in Skills!Mutations /\ mutation'[q].then \in {"recover", "end"}
  BY <1>1, <1>4, <1>7, <1>8 DEF SkillTypes
<1>10. SkillTypes'
  BY <1>1, <1>2, <1>5, <1>8, <1>9, SkillFacts, SkillTyped DEF DirsGoOn
<1>11. CASE r \in Skills!Mutations
  <2>1. Busy(r) /\ mutation'[r].at \in BusySteps
    BY <1>2, <1>7, <1>8 DEF Busy, BusySteps
  <2>2. LockInv' /\ ExpectInv'
    BY <1>2, <1>7, <1>8, <1>11, <2>1, BusyGoesOn DEF Checked
  <2> QED
    BY <1>10, <2>2 DEF SkillInv
<1>12. CASE r = 0
  <2>1. Skills!Running(Skills!Startup)
    BY <1>2, <1>12, SkillNumbers DEF Skills!Running
  <2>2. \A m \in Skills!Mutations : mutation'[m] = mutation[m]
    BY <1>8, <1>12, SkillNumbers
  <2>3. LockInv' /\ ExpectInv'
    BY <1>2, <1>7, <1>8, <1>12, <2>1, <2>2, StartupGoesOn
  <2> QED
    BY <1>10, <2>3 DEF SkillInv
<1> QED
  BY <1>11, <1>12, SkillNumbers

LEMMA SweepStep ==
    ASSUME SkillInv, NEW r \in Skills!Runners, Skills!Sweep(r)
    PROVE  SkillInv'
<1>1. SkillTypes /\ LockInv /\ ExpectInv
  BY DEF SkillInv
<1>2. mutation[r].at = "sweep" /\ UNCHANGED <<skill, committed, replaced>>
  BY DEF Skills!Sweep
<1> DEFINE t == mutation[r].sweeps
<1>3. t \in Skills!Mutations /\ mutation[r].then \in {"recover", "end"}
  BY <1>1, <1>2 DEF SkillTypes
<1>4. CASE /\ \E p \in Skills!PartsLeft(t) : dirs' = [dirs EXCEPT ![t] = Skills!Without(t, p)]
           /\ UNCHANGED <<mutation, skillLock, faults>>
  <2>1. PICK p \in Skills!PartsLeft(t) : dirs' = [dirs EXCEPT ![t] = Skills!Without(t, p)]
    BY <1>4
  <2>2. p \in Skills!Parts
    BY <1>1, <1>3 DEF SkillTypes, DirOK, Skills!PartsLeft
  <2> HIDE DEF t
  <2>3. DirsGoOn
    BY <1>1, <1>3, <2>1, <2>2, DirKeeps, DirsChange
  <2>4. SkillTypes'
    BY <1>1, <1>2, <1>4, <2>3, SkillFacts, SkillTyped DEF DirsGoOn, SkillTypes
  <2>5. LockInv'
    BY <1>1, <1>4 DEF LockInv, Attended, Busy, Skills!Running
  <2>6. ExpectInv'
    BY <1>1, <1>2, <1>4 DEF ExpectInv, Attended, Checked, Skills!RevisionIsRespected
  <2> QED
    BY <2>4, <2>5, <2>6 DEF SkillInv
<1>5. CASE /\ UNCHANGED dirs
           /\ IF mutation[r].then = "end" THEN Skills!Leave(r, "ended")
              ELSE Skills!Goes(r, mutation[r].then) /\ UNCHANGED skillLock
  <2> DEFINE step == IF mutation[r].then = "end" THEN "ended" ELSE "recover"
  <2>1. /\ Skills!Goes(r, step) /\ step \in {"ended", "recover"} /\ step \in SkillSteps
        /\ \/ skillLock' = skillLock
           \/ step = "ended" /\ skillLock' = IF skillLock = r THEN Skills!Free ELSE skillLock
    BY <1>3, <1>5 DEF Skills!Leave, SkillSteps, BusySteps
  <2> HIDE DEF step
  <2>2. SkillTypes'
    BY <1>1, <1>2, <1>5, <2>1, GoesOn, LockTyped, SkillFacts, SkillTyped
  <2>3. /\ mutation'[r].at = step /\ mutation'[r].caller = mutation[r].caller
        /\ \A q \in Skills!Runners \ {r} : mutation'[q] = mutation[q]
    BY <1>1, <2>1, GoesOn
  <2>4. CASE r \in Skills!Mutations
    <3>1. Busy(r) /\ mutation'[r].at \in BusySteps \cup {"ended", "retained"} /\ ~Checked(r)'
          /\ mutation'[r].at # "setAside"
      BY <1>2, <2>1, <2>3 DEF Busy, BusySteps, Checked
    <3>2. LockInv' /\ ExpectInv'
      BY <1>2, <2>1, <2>3, <2>4, <3>1, BusyGoesOn
    <3> QED
      BY <2>2, <3>2 DEF SkillInv
  <2>5. CASE r = 0
    <3>1. Skills!Running(Skills!Startup)
      BY <1>2, <2>5, SkillNumbers DEF Skills!Running
    <3>2. \A m \in Skills!Mutations : mutation'[m] = mutation[m]
      BY <2>3, <2>5, SkillNumbers
    <3>3. LockInv' /\ ExpectInv'
      BY <1>2, <2>1, <2>3, <2>5, <3>1, <3>2, StartupGoesOn
    <3> QED
      BY <2>2, <3>3 DEF SkillInv
  <2> QED
    BY <2>4, <2>5, SkillNumbers
<1> QED
  BY <1>4, <1>5 DEF Skills!Sweep

LEMMA StartupDoneStep ==
    ASSUME SkillInv, Skills!StartupDone
    PROVE  SkillInv'
<1>1. SkillTypes /\ LockInv /\ ExpectInv
  BY DEF SkillInv
<1>2. /\ mutation[0].at = "recover" /\ Skills!Goes(0, "ended") /\ "ended" \in SkillSteps
      /\ UNCHANGED <<skill, dirs, skillLock, committed, replaced, faults>>
      /\ 0 \in Skills!Runners
  BY SkillNumbers DEF Skills!StartupDone, SkillSteps
<1>3. SkillTypes'
  BY <1>1, <1>2, GoesOn, SkillFacts, SkillTyped
<1>4. Skills!Running(Skills!Startup)
  BY <1>2, SkillNumbers DEF Skills!Running
<1>5. mutation'[0].at = "ended" /\ \A m \in Skills!Mutations : mutation'[m] = mutation[m]
  BY <1>1, <1>2, GoesOn, SkillNumbers
<1>6. LockInv' /\ ExpectInv'
  BY <1>2, <1>4, <1>5, StartupGoesOn
<1> QED
  BY <1>3, <1>6 DEF SkillInv

LEMMA AskStep ==
    ASSUME SkillInv, NEW m \in Skills!Mutations, Skills!Ask(m)
    PROVE  SkillInv'
<1>1. SkillTypes /\ LockInv /\ ExpectInv /\ m \in Skills!Runners /\ 0 \in Skills!Runners
      /\ m # 0
  BY SkillNumbers DEF SkillInv
<1>2. /\ Skills!AppUp /\ mutation[m].at = "idle"
      /\ UNCHANGED <<skill, dirs, skillLock, committed, replaced, faults>>
  BY DEF Skills!Ask
<1>3. PICK op \in {"create", "update", "delete"}, expects \in {Skills!Nothing, skill} :
          mutation' = [mutation EXCEPT ![m] =
              [Skills!IdleMutation EXCEPT !.at = "asked", !.op = op, !.expects = expects]]
  BY DEF Skills!Ask
<1> DEFINE new == [Skills!IdleMutation EXCEPT !.at = "asked", !.op = op, !.expects = expects]
<1>4. new \in SkillRunners /\ new.at = "asked" /\ new.caller
  <2>1. Skills!IdleMutation \in SkillRunners /\ Skills!IdleMutation.caller
    BY SkillNumbers DEF Skills!IdleMutation, SkillRunners, SkillSteps
  <2>2. expects \in {Skills!Nothing} \cup Skills!Contents
    BY <1>1, SkillFacts, SkillNumbers
  <2>3. "asked" \in SkillSteps
    BY DEF SkillSteps
  <2> QED
    BY <2>1, <2>2, <2>3 DEF SkillRunners
<1>5. mutation' = [mutation EXCEPT ![m] = new]
  BY <1>3
<1> HIDE DEF new
<1>6. /\ mutation' \in [Skills!Runners -> SkillRunners] /\ mutation'[m] = new
      /\ \A q \in Skills!Runners \ {m} : mutation'[q] = mutation[q]
  BY <1>1, <1>4, <1>5 DEF SkillTypes
<1>7. \A q \in Skills!Runners : mutation'[q].at = "sweep" =>
          mutation'[q].sweeps \in Skills!Mutations /\ mutation'[q].then \in {"recover", "end"}
  BY <1>1, <1>4, <1>6 DEF SkillTypes
<1>8. SkillTypes'
  BY <1>1, <1>2, <1>6, <1>7, SkillFacts, SkillTyped
<1>9. mutation'[0] = mutation[0] /\ \A n \in Skills!Mutations \ {m} : mutation'[n] = mutation[n]
  BY <1>1, <1>6, SkillNumbers
<1>10. Attended' => Attended
  BY <1>1, <1>2, <1>9 DEF Attended, LockInv
<1>11. LockInv'
  <2>1. ~Skills!Running(Skills!Startup)'
    BY <1>2, <1>9, SkillNumbers DEF Skills!AppUp, Skills!Running
  <2> QED
    BY <1>1, <1>2, <1>4, <1>6, <1>9, <1>10, <2>1, SkillNumbers DEF LockInv, Busy, BusySteps
<1>12. ExpectInv'
  BY <1>1, <1>2, <1>4, <1>6, <1>9, <1>10 DEF ExpectInv, Checked, Skills!RevisionIsRespected
<1> QED
  BY <1>8, <1>11, <1>12 DEF SkillInv

LEMMA TakeSkillLockStep ==
    ASSUME SkillInv, NEW m \in Skills!Mutations, Skills!TakeSkillLock(m)
    PROVE  SkillInv'
<1>1. SkillTypes /\ LockInv /\ ExpectInv /\ m \in Skills!Runners /\ m # 0
  BY SkillNumbers DEF SkillInv
<1>2. /\ mutation[m].at = "asked" /\ skillLock = 0 /\ skillLock' = m
      /\ Skills!Goes(m, "recover") /\ "recover" \in SkillSteps
      /\ UNCHANGED <<skill, dirs, committed, replaced, faults>>
  BY SkillNumbers DEF Skills!TakeSkillLock, SkillSteps, BusySteps
<1>3. SkillTypes'
  BY <1>1, <1>2, GoesOn, SkillFacts, SkillTyped
<1>4. /\ mutation'[m].at = "recover" /\ mutation'[m].caller = mutation[m].caller
      /\ mutation'[0] = mutation[0]
      /\ \A n \in Skills!Mutations \ {m} : mutation'[n] = mutation[n]
  BY <1>1, <1>2, GoesOn, SkillNumbers
<1>5. Attended' <=> Attended
  BY <1>4 DEF Attended
<1>6. Attended => \A n \in Skills!Mutations : ~Busy(n)
  BY <1>1, <1>2, SkillNumbers DEF LockInv
<1>7. LockInv'
  <2>1. ~Skills!Running(Skills!Startup)
    BY <1>1, <1>2 DEF LockInv
  <2>2. ~Skills!Running(Skills!Startup)'
    BY <1>4, <2>1, SkillNumbers DEF Skills!Running
  <2> QED
    BY <1>1, <1>2, <1>4, <1>5, <1>6, <2>2, SkillNumbers DEF LockInv, Busy
<1>8. ExpectInv'
  BY <1>1, <1>2, <1>4, <1>5 DEF ExpectInv, Checked, Skills!RevisionIsRespected
<1> QED
  BY <1>3, <1>7, <1>8 DEF SkillInv

LEMMA AbandonMutationStep ==
    ASSUME SkillInv, NEW m \in Skills!Mutations, Skills!Abandon(m)
    PROVE  SkillInv'
<1>1. SkillTypes /\ LockInv /\ ExpectInv /\ m \in Skills!Runners /\ m # 0
  BY SkillNumbers DEF SkillInv
<1>2. /\ Skills!Running(m) /\ UNCHANGED <<skill, dirs, committed, replaced>>
      /\ skillLock' = IF skillLock = m THEN Skills!Free ELSE skillLock
  BY DEF Skills!Abandon
<1> DEFINE step == IF mutation[m].at = "asked" THEN "ended" ELSE mutation[m].at
           new == [mutation[m] EXCEPT !.caller = FALSE, !.at = step]
<1>3. mutation' = [mutation EXCEPT ![m] = new]
  BY DEF Skills!Abandon
<1>4. /\ new \in SkillRunners /\ new.at = step /\ new.op = mutation[m].op
      /\ new.sweeps = mutation[m].sweeps /\ new.then = mutation[m].then
  <2>1. step \in SkillSteps /\ mutation[m] \in SkillRunners
    BY <1>1, SkillFacts DEF SkillRunners, SkillSteps
  <2> HIDE DEF step
  <2> QED
    BY <2>1 DEF SkillRunners
<1>5. ~new.caller
  BY <1>1, SkillFacts DEF SkillRunners
<1> HIDE DEF new
<1>6. /\ mutation' \in [Skills!Runners -> SkillRunners] /\ mutation'[m] = new
      /\ \A q \in Skills!Runners \ {m} : mutation'[q] = mutation[q]
  BY <1>1, <1>3, <1>4 DEF SkillTypes
<1>7. SkillTypes'
  <2>1. \A q \in Skills!Runners : mutation'[q].at = "sweep" =>
            mutation'[q].sweeps \in Skills!Mutations
            /\ mutation'[q].then \in {"recover", "end"}
    BY <1>1, <1>4, <1>6 DEF SkillTypes
  <2> QED
    BY <1>1, <1>2, <1>6, <2>1, LockTyped, SkillFacts, SkillTyped
<1>8. ~Attended'
  BY <1>5, <1>6 DEF Attended
<1>9. mutation'[0] = mutation[0] /\ \A n \in Skills!Mutations \ {m} : mutation'[n] = mutation[n]
  BY <1>1, <1>6, SkillNumbers
<1>10. LockInv'
  <2>1. mutation[m].at # "idle" /\ step # "idle" /\ mutation[m].at # "ended"
    BY <1>2 DEF Skills!Running
  <2>2. ~Skills!Running(Skills!Startup)
    BY <1>1, <2>1 DEF LockInv
  <2>3. ~Skills!Running(Skills!Startup)'
    BY <1>9, <2>2, SkillNumbers DEF Skills!Running
  <2> QED
    BY <1>1, <1>4, <1>6, <1>8, <1>9, <2>1, <2>3, SkillNumbers DEF LockInv
<1>11. ExpectInv'
  BY <1>1, <1>4, <1>6, <1>8, <1>9 DEF ExpectInv
<1> QED
  BY <1>7, <1>10, <1>11 DEF SkillInv

LEMMA StopAndStartStep ==
    ASSUME SkillInv, Skills!StopAndStart
    PROVE  SkillInv'
<1>1. SkillTypes /\ LockInv /\ ExpectInv
  BY DEF SkillInv
<1>2. UNCHANGED <<skill, dirs, committed, replaced>> /\ skillLock' = 0
  BY SkillNumbers DEF Skills!StopAndStart
<1> DEFINE first == [Skills!IdleMutation EXCEPT !.at = "recover"]
           stopped(r) == [mutation[r] EXCEPT !.at = "ended"]
<1>3. mutation' = [r \in Skills!Runners |->
          IF r = Skills!Startup THEN first
          ELSE IF mutation[r].at = "idle" THEN mutation[r] ELSE stopped(r)]
  BY DEF Skills!StopAndStart
<1>4. first \in SkillRunners /\ first.at = "recover"
  <2>1. Skills!IdleMutation \in SkillRunners
    BY SkillNumbers DEF Skills!IdleMutation, SkillRunners, SkillSteps
  <2> QED
    BY <2>1 DEF SkillRunners, SkillSteps, BusySteps
<1>5. \A r \in Skills!Runners :
          /\ mutation[r] \in SkillRunners /\ stopped(r) \in SkillRunners
          /\ stopped(r).at = "ended" /\ stopped(r).caller = mutation[r].caller
  BY <1>1, SkillFacts DEF SkillRunners, SkillSteps
<1> HIDE DEF first, stopped
<1>6. mutation' \in [Skills!Runners -> SkillRunners]
  BY <1>3, <1>4, <1>5
<1>7. mutation'[0].at = "recover"
  BY <1>3, <1>4, SkillNumbers
<1>8. \A m \in Skills!Mutations :
          /\ mutation'[m].at \in {"idle", "ended"}
          /\ mutation'[m].caller = mutation[m].caller
          /\ mutation'[m].at = "idle" => mutation[m].at = "idle"
  <2> TAKE m \in Skills!Mutations
  <2>1. m \in Skills!Runners /\ m # Skills!Startup
    BY SkillNumbers
  <2>2. mutation'[m] = IF mutation[m].at = "idle" THEN mutation[m] ELSE stopped(m)
    BY <1>3, <2>1
  <2> QED
    BY <1>5, <2>1, <2>2
<1>9. SkillTypes'
  <2>1. \A q \in Skills!Runners : mutation'[q].at # "sweep"
    BY <1>7, <1>8, SkillNumbers
  <2> QED
    BY <1>1, <1>2, <1>6, <2>1, SkillFacts, SkillTyped
<1>10. Attended' <=> Attended
  BY <1>8 DEF Attended
<1>11. LockInv'
  BY <1>1, <1>7, <1>8, SkillNumbers DEF LockInv, Busy, BusySteps
<1>12. ExpectInv'
  BY <1>1, <1>2, <1>8, <1>10 DEF ExpectInv, Checked, Skills!RevisionIsRespected
<1> QED
  BY <1>9, <1>11, <1>12 DEF SkillInv

LEMMA LocalEditStep ==
    ASSUME SkillInv, Skills!LocalEdit
    PROVE  SkillInv'
<1>1. SkillTypes /\ LockInv /\ ExpectInv
  BY DEF SkillInv
<1>2. /\ Skills!NoneRuns /\ skill' = Skills!Edited /\ committed' = Skills!Edited
      /\ UNCHANGED <<dirs, mutation, skillLock, replaced, faults>>
  BY DEF Skills!LocalEdit
<1>3. SkillTypes'
  BY <1>1, <1>2, SkillNumbers, SkillFacts, SkillTyped DEF SkillTypes
<1>4. LockInv'
  BY <1>1, <1>2 DEF LockInv, Attended, Busy, Skills!Running
<1>5. \A m \in Skills!Mutations : ~Checked(m)
  BY <1>2, SkillNumbers DEF Skills!NoneRuns, Skills!Running, Checked
<1>6. ExpectInv'
  BY <1>1, <1>2, <1>5 DEF ExpectInv, Attended, Checked, Skills!RevisionIsRespected
<1> QED
  BY <1>3, <1>4, <1>6 DEF SkillInv

LEMMA SkillsStart == Skills!SkillInit => SkillInv
<1> SUFFICES ASSUME Skills!SkillInit PROVE SkillInv
  OBVIOUS
<1>1. /\ skill \in {0} \cup Skills!Contents /\ committed = skill
      /\ dirs = [m \in Skills!Mutations |-> Skills!NoDir]
      /\ mutation = [r \in Skills!Runners |-> Skills!IdleMutation]
      /\ skillLock = 0 /\ replaced = {}
  BY SkillNumbers DEF Skills!SkillInit
<1>2. /\ Skills!IdleMutation \in SkillRunners /\ Skills!IdleMutation.at = "idle"
      /\ Skills!IdleMutation.caller
  BY SkillNumbers DEF Skills!IdleMutation, SkillRunners, SkillSteps
<1>3. /\ mutation \in [Skills!Runners -> SkillRunners]
      /\ \A r \in Skills!Runners : mutation[r].at = "idle" /\ mutation[r].caller
  BY <1>1, <1>2
<1>4. DOMAIN dirs = Skills!Mutations /\ \A m \in Skills!Mutations : DirOK(dirs[m])
  BY <1>1 DEF DirOK, Skills!NoDir
<1>5. SkillTypes
  <2>1. \A m \in Skills!Mutations : Skills!PartsLeft(m) \subseteq Skills!Parts
    BY <1>4 DEF DirOK, Skills!PartsLeft
  <2>2. Skills!SkillTypeOK
    BY <1>1, <1>3, <2>1, SkillNumbers DEF Skills!SkillTypeOK
  <2> QED
    BY <1>3, <1>4, <2>2 DEF SkillTypes
<1>6. LockInv
  BY <1>3, SkillNumbers DEF LockInv, Busy, BusySteps, Skills!Running
<1>7. ExpectInv
  BY <1>1, <1>3, SkillNumbers DEF ExpectInv, Checked, Skills!RevisionIsRespected
<1> QED
  BY <1>5, <1>6, <1>7 DEF SkillInv

LEMMA SkillsKeep == SkillInv /\ Skills!SkillNext => SkillInv'
<1> SUFFICES ASSUME SkillInv, Skills!SkillNext PROVE SkillInv'
  OBVIOUS
<1>1. CASE Skills!StopAndStart \/ Skills!LocalEdit \/ Skills!StartupDone
  BY <1>1, StopAndStartStep, LocalEditStep, StartupDoneStep
<1>2. ASSUME NEW r \in Skills!Runners, Skills!Recover(r) \/ Skills!Sweep(r) PROVE SkillInv'
  BY <1>2, RecoverStep, SweepStep
<1>3. ASSUME NEW m \in Skills!Mutations,
             \/ Skills!Ask(m) \/ Skills!TakeSkillLock(m) \/ Skills!Abandon(m)
             \/ Skills!RecoverFails(m) \/ Skills!Examine(m) \/ Skills!Prepare(m)
             \/ Skills!SetAside(m) \/ Skills!Commit(m) \/ Skills!CommitFails(m)
      PROVE  SkillInv'
  BY <1>3, AskStep, TakeSkillLockStep, AbandonMutationStep,
     RecoverFailsStep, ExamineStep,
     PrepareStep, SetAsideStep, CommitStep, CommitFailsStep
<1> HIDE DEF SkillInv
<1> QED
  BY <1>1, <1>2, <1>3 DEF Skills!SkillNext

LEMMA SkillsRest == SkillInv /\ UNCHANGED Skills!skillVars => SkillInv'
<1> SUFFICES ASSUME SkillInv, UNCHANGED Skills!skillVars PROVE SkillInv'
  OBVIOUS
<1>1. UNCHANGED <<skill, dirs, mutation, skillLock, committed, replaced>>
  BY DEF Skills!skillVars
<1>2. SkillTypes'
  BY <1>1 DEF SkillInv, SkillTypes, Skills!SkillTypeOK, Skills!PartsLeft, DirOK
<1>3. LockInv'
  BY <1>1 DEF SkillInv, LockInv, Attended, Busy, Skills!Running
<1>4. ExpectInv'
  BY <1>1 DEF SkillInv, ExpectInv, Attended, Checked, Skills!RevisionIsRespected
<1> QED
  BY <1>2, <1>3, <1>4 DEF SkillInv

-----------------------------------------------------------------------------
(* SkillPackages: what is set aside. *)

\* What an update moved aside, in the directory of change t.
Aside(t) == Skills!Holds(t, "previous")
ChangeSteps == {"prepare", "setAside", "commit"}

\* One directory at most holds a content set aside.
OneAside ==
    \A t, u \in Skills!Mutations :
        Aside(t) # Skills!Nothing /\ Aside(u) # Skills!Nothing => t = u

\* The package is the committed one, or it is set aside.
There ==
    \/ skill = committed
    \/ skill = Skills!Nothing /\ \E t \in Skills!Mutations : Aside(t) # Skills!Nothing

\* What is set aside while the package is absent is the committed content, recovery finds
\* it, and its update still runs, could not be undone, or was stopped.
AsideKept(t) ==
    Aside(t) # Skills!Nothing /\ skill = Skills!Nothing =>
        /\ Aside(t) = committed /\ "record" \in Skills!PartsLeft(t)
        /\ mutation[t].at \in {"commit", "retained"} \/ Skills!Running(Skills!Startup)

\* Who recovers or removes has put back what was to be put back.
Passed(r) ==
    /\ mutation[r].at \in {"recover", "sweep"} =>
           \A t \in mutation[r].seen : Aside(t) # Skills!Nothing => skill # Skills!Nothing
    /\ mutation[r].at = "sweep" =>
           (Aside(mutation[r].sweeps) # Skills!Nothing => skill # Skills!Nothing)

\* A change begins when nothing is set aside; then only its own update does so.
Begun(m) ==
    mutation[m].at \in ChangeSteps =>
        /\ "record" \in Skills!PartsLeft(m)
        /\ IF mutation[m].at = "commit" /\ mutation[m].op = "update"
           THEN skill = Skills!Nothing /\ Aside(m) # Skills!Nothing
           ELSE \A t \in Skills!Mutations : Aside(t) = Skills!Nothing

\* The start removes in order to recover.
StartupRecovers ==
    mutation[Skills!Startup].at = "sweep" => mutation[Skills!Startup].then = "recover"

\* A change that waits for the lock has recovered nothing.
WaitingIsNew == \A m \in Skills!Mutations : mutation[m].at = "asked" => mutation[m].seen = {}

AsideHolds ==
    /\ OneAside /\ There /\ StartupRecovers /\ WaitingIsNew
    /\ \A t \in Skills!Mutations : AsideKept(t) /\ Begun(t)
    /\ \A r \in Skills!Runners : Passed(r)
AsideInv == Attended /\ overlooked = {} => AsideHolds

\* What the operations on a directory do to what it holds.
LEMMA DirsStay ==
    ASSUME NEW t \in Skills!Mutations, dirs'[t] = dirs[t]
    PROVE  Aside(t)' = Aside(t) /\ Skills!PartsLeft(t)' = Skills!PartsLeft(t)
  BY DEF Aside, Skills!Holds, Skills!PartsLeft

LEMMA PartRemoved ==
    ASSUME SkillTypes, NEW t \in Skills!Mutations, NEW p,
           dirs' = [dirs EXCEPT ![t] = Skills!Without(t, p)]
    PROVE  /\ \A u \in Skills!Mutations \ {t} :
                  Aside(u)' = Aside(u) /\ Skills!PartsLeft(u)' = Skills!PartsLeft(u)
           /\ Skills!PartsLeft(t)' = Skills!PartsLeft(t) \ {p}
           /\ Aside(t)' = IF p = "previous" THEN Skills!Nothing ELSE Aside(t)
<1>1. /\ dirs'[t] = [q \in Skills!PartsLeft(t) \ {p} |-> dirs[t][q]]
      /\ \A u \in Skills!Mutations \ {t} : dirs'[u] = dirs[u]
  BY DEF SkillTypes, Skills!Without
<1>2. Skills!PartsLeft(t)' = Skills!PartsLeft(t) \ {p}
  BY <1>1 DEF Skills!PartsLeft
<1>3. Aside(t)' = IF p = "previous" THEN Skills!Nothing ELSE Aside(t)
  BY <1>1, <1>2 DEF Aside, Skills!Holds
<1> QED
  BY <1>1, <1>2, <1>3, DirsStay

LEMMA PartAdded ==
    ASSUME SkillTypes, NEW t \in Skills!Mutations, NEW p, NEW c,
           dirs' = [dirs EXCEPT ![t] = Skills!With(t, p, c)]
    PROVE  /\ \A u \in Skills!Mutations \ {t} :
                  Aside(u)' = Aside(u) /\ Skills!PartsLeft(u)' = Skills!PartsLeft(u)
           /\ Skills!PartsLeft(t)' = Skills!PartsLeft(t) \cup {p}
           /\ Aside(t)' = IF p = "previous" THEN c ELSE Aside(t)
<1>1. /\ dirs'[t] = [q \in Skills!PartsLeft(t) \cup {p} |-> IF q = p THEN c ELSE dirs[t][q]]
      /\ \A u \in Skills!Mutations \ {t} : dirs'[u] = dirs[u]
  BY DEF SkillTypes, Skills!With
<1>2. Skills!PartsLeft(t)' = Skills!PartsLeft(t) \cup {p}
  BY <1>1 DEF Skills!PartsLeft
<1>3. Aside(t)' = IF p = "previous" THEN c ELSE Aside(t)
  BY <1>1, <1>2 DEF Aside, Skills!Holds
<1> QED
  BY <1>1, <1>2, <1>3, DirsStay

\* A change that runs takes a step: what is to be shown of the others follows.
LEMMA AsideGoesOn ==
    ASSUME SkillInv, AsideInv, NEW m \in Skills!Mutations, Busy(m),
           overlooked \subseteq overlooked',
           mutation'[m].caller = mutation[m].caller, mutation'[m].at # "asked",
           \A q \in Skills!Runners \ {m} : mutation'[q] = mutation[q],
           Attended /\ overlooked' = {} /\ AsideHolds =>
               /\ OneAside' /\ There' /\ Passed(m)' /\ Begun(m)'
               /\ \A t \in Skills!Mutations : AsideKept(t)'
    PROVE  AsideInv'
<1>1. LockInv
  BY DEF SkillInv
<1> SUFFICES ASSUME Attended', overlooked' = {} PROVE AsideHolds'
  BY DEF AsideInv
<1>2. Attended
  <2>1. \A n \in Skills!Mutations : mutation'[n].caller = mutation[n].caller
    BY SkillNumbers
  <2> QED
    BY <2>1 DEF Attended
<1>3. overlooked = {}
  OBVIOUS
<1>4. /\ OneAside' /\ There' /\ Passed(m)' /\ Begun(m)'
      /\ \A t \in Skills!Mutations : AsideKept(t)'
  BY <1>2, <1>3 DEF AsideInv
<1>5. \A n \in Skills!Mutations \ {m} : mutation'[n].at \notin BusySteps
  BY <1>1, <1>2, SkillNumbers DEF LockInv, Busy
<1>6. mutation'[0].at \notin {"recover", "sweep"}
  <2>1. ~Skills!Running(Skills!Startup)
    BY <1>1 DEF LockInv, Busy, BusySteps
  <2> QED
    BY <2>1, SkillNumbers DEF Skills!Running
<1>7. \A n \in Skills!Mutations \ {m} : Begun(n)'
  BY <1>5 DEF Begun, ChangeSteps, BusySteps
<1>8. \A r \in Skills!Runners \ {m} : Passed(r)'
  BY <1>5, <1>6, SkillNumbers DEF Passed, BusySteps
<1>9. StartupRecovers'
  BY <1>6, SkillNumbers DEF StartupRecovers
<1>10. WaitingIsNew'
  BY <1>2, <1>3, SkillNumbers DEF AsideInv, AsideHolds, WaitingIsNew
<1> QED
  BY <1>4, <1>7, <1>8, <1>9, <1>10 DEF AsideHolds

LEMMA ExamineAside ==
    ASSUME SkillInv, AsideInv, NEW m \in Skills!Mutations, Skills!Examine(m)
    PROVE  AsideInv'
<1>1. SkillTypes /\ LockInv /\ ExpectInv /\ m \in Skills!Runners
  BY SkillNumbers DEF SkillInv
<1>2. /\ mutation[m].at = "recover" /\ Skills!Unseen(m) = {}
      /\ UNCHANGED <<skill, committed>>
  BY DEF Skills!Examine
<1>3. Busy(m)
  BY <1>2 DEF Busy, BusySteps
<1>4. CASE Skills!Refused(m)
  <2>1. Skills!Goes(m, "ended") /\ UNCHANGED <<dirs, overlooked>> /\ "ended" \in SkillSteps
    BY <1>4 DEF Skills!Examine, Skills!Leave, SkillSteps
  <2>2. \A t \in Skills!Mutations :
            Aside(t)' = Aside(t) /\ Skills!PartsLeft(t)' = Skills!PartsLeft(t)
    BY <2>1, DirsStay
  <2>3. /\ mutation'[m].at = "ended" /\ mutation'[m].caller = mutation[m].caller
        /\ \A q \in Skills!Runners \ {m} : mutation'[q] = mutation[q]
    BY <1>1, <2>1, GoesOn
  <2>4. ASSUME Attended, AsideHolds
        PROVE  /\ OneAside' /\ There' /\ Passed(m)' /\ Begun(m)'
               /\ \A t \in Skills!Mutations : AsideKept(t)'
    <3>1. OneAside' /\ There'
      BY <1>2, <2>2, <2>4 DEF AsideHolds, OneAside, There, Skills!Nothing
    <3>2. Passed(m)' /\ Begun(m)'
      BY <2>3 DEF Passed, Begun, ChangeSteps
    <3>3. \A t \in Skills!Mutations : AsideKept(t)'
      BY <1>2, <2>2, <2>3, <2>4, SkillNumbers
      DEF AsideHolds, AsideKept, Skills!Running
    <3> QED
      BY <3>1, <3>2, <3>3
  <2> QED
    BY <1>3, <2>1, <2>3, <2>4, AsideGoesOn
<1>5. CASE ~Skills!Refused(m)
  <2> DEFINE step == IF mutation[m].op = "delete" THEN "commit" ELSE "prepare"
             begun == [p \in {"record"} |-> m]
             left == {t \in Skills!Mutations : Aside(t) # Skills!Nothing}
  <2>1. /\ Skills!Goes(m, step) /\ dirs' = [dirs EXCEPT ![m] = begun]
        /\ overlooked' = overlooked \cup left
    BY <1>5 DEF Skills!Examine, Aside
  <2>2. step \in {"commit", "prepare"} /\ step \in SkillSteps
        /\ (step = "commit" => mutation[m].op = "delete")
    BY DEF SkillSteps, BusySteps
  <2> HIDE DEF step
  <2>3. /\ mutation'[m].at = step /\ mutation'[m].caller = mutation[m].caller
        /\ mutation'[m].op = mutation[m].op
        /\ \A q \in Skills!Runners \ {m} : mutation'[q] = mutation[q]
    BY <1>1, <2>1, <2>2, GoesOn
  <2>4. /\ \A t \in Skills!Mutations \ {m} : Aside(t)' = Aside(t)
        /\ Skills!PartsLeft(m)' = {"record"} /\ Aside(m)' = Skills!Nothing
    <3>1. dirs'[m] = begun /\ \A t \in Skills!Mutations \ {m} : dirs'[t] = dirs[t]
      BY <1>1, <2>1 DEF SkillTypes
    <3> QED
      BY <3>1 DEF Aside, Skills!Holds, Skills!PartsLeft
  <2>5. ASSUME Attended, overlooked' = {}, AsideHolds
        PROVE  /\ OneAside' /\ There' /\ Passed(m)' /\ Begun(m)'
               /\ \A t \in Skills!Mutations : AsideKept(t)'
    <3>1. \A t \in Skills!Mutations : Aside(t) = Skills!Nothing
      BY <2>1, <2>5
    <3>2. \A t \in Skills!Mutations : Aside(t)' = Skills!Nothing
      BY <2>4, <3>1 DEF Skills!Nothing
    <3> HIDE DEF left
    <3>3. OneAside' /\ There'
      BY <1>2, <2>5, <3>1, <3>2 DEF AsideHolds, OneAside, There, Skills!Nothing
    <3>4. Begun(m)'
      BY <2>2, <2>3, <2>4, <3>2 DEF Begun, ChangeSteps, Skills!Nothing
    <3>5. Passed(m)' /\ \A t \in Skills!Mutations : AsideKept(t)'
      BY <2>2, <2>3, <3>2 DEF Passed, AsideKept, Skills!Nothing
    <3> QED
      BY <3>3, <3>4, <3>5
  <2>6. overlooked \subseteq overlooked'
    BY <2>1
  <2> QED
    BY <1>3, <2>2, <2>3, <2>5, <2>6, AsideGoesOn
<1> QED
  BY <1>4, <1>5

\* A runner that removes has nothing set aside in its way.
LEMMA SweepsAside ==
    ASSUME SkillTypes, NEW m \in Skills!Mutations, Skills!Sweeps(m, m, "end")
    PROVE  /\ mutation'[m].at = "sweep" /\ mutation'[m].sweeps = m
           /\ mutation'[m].seen = mutation[m].seen
           /\ mutation'[m].caller = mutation[m].caller
           /\ \A q \in Skills!Runners \ {m} : mutation'[q] = mutation[q]
<1>1. mutation \in [Skills!Runners -> SkillRunners] /\ m \in Skills!Runners
  BY SkillNumbers DEF SkillTypes
<1>2. mutation' = [mutation EXCEPT ![m] =
          [mutation[m] EXCEPT !.at = "sweep", !.sweeps = m, !.then = "end"]]
  BY DEF Skills!Sweeps
<1>3. mutation[m] \in SkillRunners
  BY <1>1
<1> QED
  BY <1>1, <1>2, <1>3 DEF SkillRunners

LEMMA PrepareAside ==
    ASSUME SkillInv, AsideInv, NEW m \in Skills!Mutations, Skills!Prepare(m)
    PROVE  AsideInv'
<1>1. SkillTypes /\ LockInv /\ ExpectInv /\ m \in Skills!Runners
  BY SkillNumbers DEF SkillInv
<1>2. mutation[m].at = "prepare" /\ UNCHANGED <<skill, committed, overlooked>>
  BY DEF Skills!Prepare
<1>3. Busy(m)
  BY <1>2 DEF Busy, BusySteps
<1>4. AsideHolds => /\ "record" \in Skills!PartsLeft(m) /\ skill = committed
                    /\ \A t \in Skills!Mutations : Aside(t) = Skills!Nothing
  BY <1>2 DEF AsideHolds, Begun, ChangeSteps, There
<1>5. CASE Skills!Sweeps(m, m, "end") /\ UNCHANGED dirs
  <2>1. /\ mutation'[m].at = "sweep" /\ mutation'[m].caller = mutation[m].caller
        /\ \A q \in Skills!Runners \ {m} : mutation'[q] = mutation[q]
        /\ mutation'[m].sweeps = m /\ mutation'[m].seen = mutation[m].seen
    BY <1>1, <1>5, SweepsAside
  <2>2. mutation'[m].seen \subseteq Skills!Mutations
    BY <1>1, <2>1, SkillFacts DEF SkillRunners
  <2>3. ASSUME AsideHolds
        PROVE  /\ OneAside' /\ There' /\ Passed(m)' /\ Begun(m)'
               /\ \A t \in Skills!Mutations : AsideKept(t)'
    <3>1. \A t \in Skills!Mutations : Aside(t)' = Skills!Nothing
      BY <1>4, <1>5, <2>3, DirsStay
    <3> QED
      BY <1>2, <1>4, <2>1, <2>2, <2>3, <3>1
      DEF OneAside, There, Passed, Begun, ChangeSteps, AsideKept, Skills!Nothing
  <2> QED
    BY <1>2, <1>3, <2>1, <2>3, AsideGoesOn
<1>6. CASE ~(Skills!Sweeps(m, m, "end") /\ UNCHANGED dirs)
  <2> DEFINE step == IF mutation[m].op = "update" THEN "setAside" ELSE "commit"
  <2>1. Skills!Goes(m, step) /\ dirs' = [dirs EXCEPT ![m] = Skills!With(m, "candidate", m)]
    BY <1>6 DEF Skills!Prepare
  <2>2. step \in {"commit", "setAside"} /\ step \in SkillSteps
        /\ (step = "commit" => mutation[m].op # "update")
    BY DEF SkillSteps, BusySteps
  <2> HIDE DEF step
  <2>3. /\ mutation'[m].at = step /\ mutation'[m].caller = mutation[m].caller
        /\ mutation'[m].op = mutation[m].op
        /\ \A q \in Skills!Runners \ {m} : mutation'[q] = mutation[q]
    BY <1>1, <2>1, <2>2, GoesOn
  <2>4. /\ \A t \in Skills!Mutations : Aside(t)' = Aside(t)
        /\ Skills!PartsLeft(m)' = Skills!PartsLeft(m) \cup {"candidate"}
    BY <1>1, <2>1, PartAdded
  <2>5. ASSUME AsideHolds
        PROVE  /\ OneAside' /\ There' /\ Passed(m)' /\ Begun(m)'
               /\ \A t \in Skills!Mutations : AsideKept(t)'
    <3>1. \A t \in Skills!Mutations : Aside(t)' = Skills!Nothing
      BY <1>4, <2>4, <2>5
    <3> QED
      BY <1>2, <1>4, <2>2, <2>3, <2>4, <2>5, <3>1
      DEF OneAside, There, Passed, Begun, ChangeSteps, AsideKept, Skills!Nothing
  <2> QED
    BY <1>2, <1>3, <2>2, <2>3, <2>5, AsideGoesOn
<1> QED
  BY <1>5, <1>6

LEMMA SetAsideAside ==
    ASSUME SkillInv, AsideInv, NEW m \in Skills!Mutations, Skills!SetAside(m)
    PROVE  AsideInv'
<1>1. SkillTypes /\ LockInv /\ ExpectInv /\ m \in Skills!Runners
  BY SkillNumbers DEF SkillInv
<1>2. mutation[m].at = "setAside" /\ UNCHANGED <<committed, overlooked>>
  BY DEF Skills!SetAside
<1>3. Busy(m)
  BY <1>2 DEF Busy, BusySteps
<1>4. AsideHolds => /\ "record" \in Skills!PartsLeft(m) /\ skill = committed
                    /\ \A t \in Skills!Mutations : Aside(t) = Skills!Nothing
  BY <1>2 DEF AsideHolds, Begun, ChangeSteps, There
<1>5. CASE Skills!Sweeps(m, m, "end") /\ UNCHANGED <<skill, dirs, replaced>>
  <2>1. /\ mutation'[m].at = "sweep" /\ mutation'[m].caller = mutation[m].caller
        /\ \A q \in Skills!Runners \ {m} : mutation'[q] = mutation[q]
        /\ mutation'[m].sweeps = m /\ mutation'[m].seen = mutation[m].seen
    BY <1>1, <1>5, SweepsAside
  <2>2. mutation'[m].seen \subseteq Skills!Mutations
    BY <1>1, <2>1, SkillFacts DEF SkillRunners
  <2>3. ASSUME AsideHolds
        PROVE  /\ OneAside' /\ There' /\ Passed(m)' /\ Begun(m)'
               /\ \A t \in Skills!Mutations : AsideKept(t)'
    <3>1. \A t \in Skills!Mutations : Aside(t)' = Skills!Nothing
      BY <1>4, <1>5, <2>3, DirsStay
    <3> QED
      BY <1>2, <1>4, <1>5, <2>1, <2>2, <2>3, <3>1
      DEF OneAside, There, Passed, Begun, ChangeSteps, AsideKept, Skills!Nothing
  <2> QED
    BY <1>2, <1>3, <2>1, <2>3, AsideGoesOn
<1>6. CASE ~(Skills!Sweeps(m, m, "end") /\ UNCHANGED <<skill, dirs, replaced>>)
  <2>1. /\ skill # Skills!Nothing /\ skill' = Skills!Nothing
        /\ dirs' = [dirs EXCEPT ![m] = Skills!With(m, "previous", skill)]
        /\ Skills!Goes(m, "commit") /\ "commit" \in SkillSteps
    BY <1>6 DEF Skills!SetAside, SkillSteps, BusySteps
  <2>2. /\ mutation'[m].at = "commit" /\ mutation'[m].caller = mutation[m].caller
        /\ mutation'[m].op = "update"
        /\ \A q \in Skills!Runners \ {m} : mutation'[q] = mutation[q]
    BY <1>1, <1>2, <2>1, GoesOn DEF ExpectInv
  <2>3. /\ \A t \in Skills!Mutations \ {m} : Aside(t)' = Aside(t)
        /\ Skills!PartsLeft(m)' = Skills!PartsLeft(m) \cup {"previous"}
        /\ Aside(m)' = skill
    BY <1>1, <2>1, PartAdded
  <2>4. ASSUME AsideHolds
        PROVE  /\ OneAside' /\ There' /\ Passed(m)' /\ Begun(m)'
               /\ \A t \in Skills!Mutations : AsideKept(t)'
    <3>1. \A t \in Skills!Mutations \ {m} : Aside(t)' = Skills!Nothing
      BY <1>4, <2>3, <2>4
    <3>2. Aside(m)' = committed' /\ Aside(m)' # Skills!Nothing
      BY <1>2, <1>4, <2>1, <2>3, <2>4
    <3>3. OneAside' /\ There'
      BY <2>1, <3>1, <3>2 DEF OneAside, There, Skills!Nothing
    <3>4. Passed(m)' /\ Begun(m)'
      BY <1>4, <2>1, <2>2, <2>3, <2>4, <3>2 DEF Passed, Begun, Skills!Nothing
    <3>5. \A t \in Skills!Mutations : AsideKept(t)'
      BY <1>4, <2>2, <2>3, <2>4, <3>1, <3>2 DEF AsideKept, Skills!Nothing
    <3> QED
      BY <3>3, <3>4, <3>5
  <2> QED
    BY <1>2, <1>3, <2>2, <2>4, AsideGoesOn
<1> QED
  BY <1>5, <1>6

LEMMA CommitAside ==
    ASSUME SkillInv, AsideInv, NEW m \in Skills!Mutations, Skills!Commit(m)
    PROVE  AsideInv'
<1>1. SkillTypes /\ LockInv /\ ExpectInv /\ m \in Skills!Runners /\ m # Skills!Nothing
  BY SkillNumbers DEF SkillInv
<1>2. /\ mutation[m].at = "commit" /\ Skills!Sweeps(m, m, "end") /\ UNCHANGED overlooked
  BY DEF Skills!Commit
<1>3. Busy(m)
  BY <1>2 DEF Busy, BusySteps
<1>4. /\ mutation'[m].at = "sweep" /\ mutation'[m].caller = mutation[m].caller
      /\ \A q \in Skills!Runners \ {m} : mutation'[q] = mutation[q]
      /\ mutation'[m].sweeps = m /\ mutation'[m].seen = mutation[m].seen
  BY <1>1, <1>2, SweepsAside
<1>5. mutation'[m].seen \subseteq Skills!Mutations
  BY <1>1, <1>4, SkillFacts DEF SkillRunners
<1>6. Begun(m)'
  BY <1>4 DEF Begun, ChangeSteps
<1>7. CASE mutation[m].op = "delete"
  <2>1. /\ skill' = Skills!Nothing /\ committed' = Skills!Nothing
        /\ dirs' = [dirs EXCEPT ![m] = Skills!With(m, "deleted", skill)]
    BY <1>7 DEF Skills!Commit
  <2>2. \A t \in Skills!Mutations : Aside(t)' = Aside(t)
    BY <1>1, <2>1, PartAdded
  <2>3. ASSUME AsideHolds
        PROVE  /\ OneAside' /\ There' /\ Passed(m)'
               /\ \A t \in Skills!Mutations : AsideKept(t)'
    <3>1. \A t \in Skills!Mutations : Aside(t)' = Skills!Nothing
      BY <1>2, <1>7, <2>2, <2>3 DEF AsideHolds, Begun, ChangeSteps
    <3> QED
      BY <1>4, <1>5, <2>1, <3>1 DEF OneAside, There, Passed, AsideKept, Skills!Nothing
  <2> QED
    BY <1>2, <1>3, <1>4, <1>6, <2>3, AsideGoesOn
<1>8. CASE mutation[m].op # "delete"
  <2>1. /\ skill' = m /\ committed' = m
        /\ dirs' = [dirs EXCEPT ![m] = Skills!Without(m, "candidate")]
    BY <1>8 DEF Skills!Commit
  <2>2. \A t \in Skills!Mutations : Aside(t)' = Aside(t)
    BY <1>1, <2>1, PartRemoved
  <2>3. ASSUME AsideHolds
        PROVE  /\ OneAside' /\ There' /\ Passed(m)'
               /\ \A t \in Skills!Mutations : AsideKept(t)'
    <3>1. skill' # Skills!Nothing' /\ skill' = committed'
      BY <1>1, <2>1 DEF Skills!Nothing
    <3>2. OneAside'
      BY <2>2, <2>3 DEF AsideHolds, OneAside, Skills!Nothing
    <3> QED
      BY <3>1, <3>2 DEF There, Passed, AsideKept
  <2> QED
    BY <1>2, <1>3, <1>4, <1>6, <2>3, AsideGoesOn
<1> QED
  BY <1>7, <1>8

LEMMA CommitFailsAside ==
    ASSUME SkillInv, AsideInv, NEW m \in Skills!Mutations, Skills!CommitFails(m)
    PROVE  AsideInv'
<1>1. SkillTypes /\ LockInv /\ ExpectInv /\ m \in Skills!Runners
  BY SkillNumbers DEF SkillInv
<1>2. mutation[m].at = "commit" /\ UNCHANGED <<committed, overlooked>>
  BY DEF Skills!CommitFails
<1>3. Busy(m)
  BY <1>2 DEF Busy, BusySteps
<1>4. Skills!Sweeps(m, m, "end") =>
          /\ mutation'[m].at = "sweep" /\ mutation'[m].caller = mutation[m].caller
          /\ \A q \in Skills!Runners \ {m} : mutation'[q] = mutation[q]
          /\ mutation'[m].sweeps = m /\ mutation'[m].seen \subseteq Skills!Mutations
  BY <1>1, SweepsAside, SkillFacts DEF SkillRunners
<1>5. CASE mutation[m].op # "update"
  <2>1. Skills!Sweeps(m, m, "end") /\ UNCHANGED <<skill, dirs>>
    BY <1>5 DEF Skills!CommitFails
  <2>2. ASSUME AsideHolds
        PROVE  /\ OneAside' /\ There' /\ Passed(m)' /\ Begun(m)'
               /\ \A t \in Skills!Mutations : AsideKept(t)'
    <3>1. \A t \in Skills!Mutations : Aside(t) = Skills!Nothing
      BY <1>2, <1>5, <2>2 DEF AsideHolds, Begun, ChangeSteps
    <3>2. \A t \in Skills!Mutations : Aside(t)' = Skills!Nothing
      BY <2>1, <3>1, DirsStay
    <3> QED
      BY <1>2, <1>4, <2>1, <2>2, <3>1, <3>2
      DEF AsideHolds, OneAside, There, Passed, Begun, ChangeSteps, AsideKept, Skills!Nothing
  <2> QED
    BY <1>2, <1>3, <1>4, <2>1, <2>2, AsideGoesOn
<1>6. AsideHolds /\ mutation[m].op = "update" =>
          /\ skill = Skills!Nothing /\ Aside(m) # Skills!Nothing
          /\ Aside(m) = committed /\ "record" \in Skills!PartsLeft(m)
          /\ \A t \in Skills!Mutations \ {m} : Aside(t) = Skills!Nothing
  BY <1>2 DEF AsideHolds, Begun, ChangeSteps, AsideKept, OneAside
<1>7. CASE /\ mutation[m].op = "update" /\ skill = Skills!Nothing
           /\ Aside(m) # Skills!Nothing /\ skill' = Aside(m)
           /\ dirs' = [dirs EXCEPT ![m] = Skills!Without(m, "previous")]
           /\ Skills!Sweeps(m, m, "end")
  <2>1. /\ \A t \in Skills!Mutations \ {m} : Aside(t)' = Aside(t)
        /\ Aside(m)' = Skills!Nothing
    BY <1>1, <1>7, PartRemoved
  <2>2. ASSUME AsideHolds
        PROVE  /\ OneAside' /\ There' /\ Passed(m)' /\ Begun(m)'
               /\ \A t \in Skills!Mutations : AsideKept(t)'
    <3>1. \A t \in Skills!Mutations : Aside(t)' = Skills!Nothing
      BY <1>6, <1>7, <2>1, <2>2
    <3> QED
      BY <1>2, <1>4, <1>6, <1>7, <2>2, <3>1
      DEF OneAside, There, Passed, Begun, ChangeSteps, AsideKept, Skills!Nothing
  <2> QED
    BY <1>2, <1>3, <1>4, <1>7, <2>2, AsideGoesOn
<1>8. CASE mutation[m].op = "update" /\ Skills!Leave(m, "retained") /\ UNCHANGED <<skill, dirs>>
  <2>1. Skills!Goes(m, "retained") /\ "retained" \in SkillSteps
    BY <1>8 DEF Skills!Leave, SkillSteps
  <2>2. /\ mutation'[m].at = "retained" /\ mutation'[m].caller = mutation[m].caller
        /\ \A q \in Skills!Runners \ {m} : mutation'[q] = mutation[q]
    BY <1>1, <2>1, GoesOn
  <2>3. ASSUME AsideHolds
        PROVE  /\ OneAside' /\ There' /\ Passed(m)' /\ Begun(m)'
               /\ \A t \in Skills!Mutations : AsideKept(t)'
    <3>1. \A t \in Skills!Mutations :
              Aside(t)' = Aside(t) /\ Skills!PartsLeft(t)' = Skills!PartsLeft(t)
      BY <1>8, DirsStay
    <3>2. OneAside' /\ There'
      BY <1>2, <1>8, <2>3, <3>1 DEF AsideHolds, OneAside, There, Skills!Nothing
    <3>3. Passed(m)' /\ Begun(m)'
      BY <2>2 DEF Passed, Begun, ChangeSteps
    <3>4. \A t \in Skills!Mutations : AsideKept(t)'
      BY <1>2, <1>6, <1>8, <2>2, <2>3, <3>1 DEF AsideKept, Skills!Nothing
    <3> QED
      BY <3>2, <3>3, <3>4
  <2> QED
    BY <1>2, <1>3, <2>2, <2>3, AsideGoesOn
<1> QED
  BY <1>5, <1>7, <1>8 DEF Skills!CommitFails, Aside

LEMMA RecoverFailsAside ==
    ASSUME SkillInv, AsideInv, NEW m \in Skills!Mutations, Skills!RecoverFails(m)
    PROVE  AsideInv'
<1>1. SkillTypes /\ LockInv /\ m \in Skills!Runners
  BY SkillNumbers DEF SkillInv
<1>2. /\ mutation[m].at = "recover" /\ UNCHANGED <<skill, dirs, committed, overlooked>>
      /\ Skills!Goes(m, "ended") /\ "ended" \in SkillSteps
  BY DEF Skills!RecoverFails, Skills!Leave, SkillSteps
<1>3. Busy(m)
  BY <1>2 DEF Busy, BusySteps
<1>4. /\ mutation'[m].at = "ended" /\ mutation'[m].caller = mutation[m].caller
      /\ \A q \in Skills!Runners \ {m} : mutation'[q] = mutation[q]
  BY <1>1, <1>2, GoesOn
<1>5. \A t \in Skills!Mutations :
          Aside(t)' = Aside(t) /\ Skills!PartsLeft(t)' = Skills!PartsLeft(t)
  BY <1>2, DirsStay
<1>6. ASSUME AsideHolds
      PROVE  /\ OneAside' /\ There' /\ Passed(m)' /\ Begun(m)'
             /\ \A t \in Skills!Mutations : AsideKept(t)'
  <2>1. OneAside' /\ There'
    BY <1>2, <1>5, <1>6 DEF AsideHolds, OneAside, There, Skills!Nothing
  <2>2. Passed(m)' /\ Begun(m)'
    BY <1>4 DEF Passed, Begun, ChangeSteps
  <2>3. \A t \in Skills!Mutations : AsideKept(t)'
    BY <1>2, <1>4, <1>5, <1>6, SkillNumbers DEF AsideHolds, AsideKept, Skills!Running
  <2> QED
    BY <2>1, <2>2, <2>3
<1> QED
  BY <1>2, <1>3, <1>4, <1>6, AsideGoesOn

\* The recovery of the start takes a step: no change runs, before or after.
LEMMA AsideStarts ==
    ASSUME SkillInv, AsideInv, Skills!Running(Skills!Startup), UNCHANGED overlooked,
           \A m \in Skills!Mutations : mutation'[m] = mutation[m],
           mutation'[0].at = "sweep" => mutation'[0].then = "recover",
           Attended /\ AsideHolds =>
               /\ OneAside' /\ There' /\ Passed(Skills!Startup)'
               /\ \A t \in Skills!Mutations : AsideKept(t)'
    PROVE  AsideInv'
<1> SUFFICES ASSUME Attended', overlooked' = {} PROVE AsideHolds'
  BY DEF AsideInv
<1>1. AsideHolds /\ Attended
  BY DEF AsideInv, Attended
<1>2. \A m \in Skills!Mutations : mutation'[m].at \in {"idle", "ended"}
  BY DEF SkillInv, LockInv
<1>3. \A m \in Skills!Mutations : Begun(m)' /\ Passed(m)'
  BY <1>2 DEF Begun, Passed, ChangeSteps
<1>4. StartupRecovers'
  BY SkillNumbers DEF StartupRecovers
<1>5. WaitingIsNew'
  BY <1>2 DEF WaitingIsNew
<1> QED
  BY <1>1, <1>3, <1>4, <1>5, SkillNumbers DEF AsideHolds, Skills!Startup

LEMMA RecoverAside ==
    ASSUME SkillInv, AsideInv, NEW r \in Skills!Runners, Skills!Recover(r)
    PROVE  AsideInv'
<1>1. SkillTypes /\ LockInv
  BY DEF SkillInv
<1>2. mutation[r].at = "recover" /\ UNCHANGED <<committed, overlooked>>
  BY DEF Skills!Recover
<1>3. PICK t \in Skills!Unseen(r) :
          LET puts == Aside(t) # Skills!Nothing /\ skill = Skills!Nothing IN
          /\ skill' = IF puts THEN Aside(t) ELSE skill
          /\ dirs' = IF puts THEN [dirs EXCEPT ![t] = Skills!Without(t, "previous")] ELSE dirs
          /\ mutation' = [mutation EXCEPT ![r] =
                 [mutation[r] EXCEPT !.at = "sweep", !.sweeps = t, !.then = "recover",
                                     !.seen = @ \cup {t}]]
  BY DEF Skills!Recover, Aside
<1>4. t \in Skills!Mutations
  BY DEF Skills!Unseen
<1>5. /\ mutation'[r].at = "sweep" /\ mutation'[r].sweeps = t /\ mutation'[r].then = "recover"
      /\ mutation'[r].seen = mutation[r].seen \cup {t}
      /\ mutation'[r].caller = mutation[r].caller
      /\ \A q \in Skills!Runners \ {r} : mutation'[q] = mutation[q]
  <2>1. mutation \in [Skills!Runners -> SkillRunners] /\ mutation[r] \in SkillRunners
    BY <1>1, SkillFacts DEF SkillTypes
  <2> QED
    BY <1>3, <2>1 DEF SkillRunners
<1>6. mutation[r].seen \subseteq Skills!Mutations
  BY <1>1, SkillFacts DEF SkillRunners
<1>7. ASSUME AsideHolds
      PROVE  /\ OneAside' /\ There' /\ Passed(r)'
             /\ \A u \in Skills!Mutations : AsideKept(u)'
  <2>1. CASE Aside(t) # Skills!Nothing /\ skill = Skills!Nothing
    <3>1. skill' = Aside(t) /\ dirs' = [dirs EXCEPT ![t] = Skills!Without(t, "previous")]
      BY <1>3, <2>1
    <3>2. /\ \A u \in Skills!Mutations \ {t} : Aside(u)' = Aside(u)
          /\ Aside(t)' = Skills!Nothing
      BY <1>1, <1>4, <3>1, PartRemoved
    <3>3. \A u \in Skills!Mutations : Aside(u)' = Skills!Nothing
      BY <1>4, <1>7, <2>1, <3>2 DEF AsideHolds, OneAside
    <3>4. skill' = committed'
      BY <1>2, <1>4, <1>7, <2>1, <3>1 DEF AsideHolds, AsideKept
    <3> QED
      BY <1>4, <1>5, <1>6, <3>3, <3>4 DEF OneAside, There, Passed, AsideKept, Skills!Nothing
  <2>2. CASE ~(Aside(t) # Skills!Nothing /\ skill = Skills!Nothing)
    <3>1. UNCHANGED <<skill, dirs>>
      BY <1>3, <2>2
    <3>2. \A u \in Skills!Mutations :
              Aside(u)' = Aside(u) /\ Skills!PartsLeft(u)' = Skills!PartsLeft(u)
      BY <3>1, DirsStay
    <3>3. OneAside' /\ There'
      BY <1>2, <1>7, <3>1, <3>2 DEF AsideHolds, OneAside, There, Skills!Nothing
    <3>4. Passed(r)'
      BY <1>2, <1>4, <1>5, <1>6, <1>7, <2>2, <3>1, <3>2
      DEF AsideHolds, Passed, Skills!Nothing
    <3>5. \A u \in Skills!Mutations : AsideKept(u)'
      <4> TAKE u \in Skills!Mutations
      <4>1. mutation[u].at \in {"commit", "retained"} => mutation'[u].at = mutation[u].at
        BY <1>2, <1>5, SkillNumbers
      <4>2. Skills!Running(Skills!Startup) => Skills!Running(Skills!Startup)'
        BY <1>5, SkillNumbers DEF Skills!Running
      <4> QED
        BY <1>2, <1>7, <3>1, <3>2, <4>1, <4>2 DEF AsideHolds, AsideKept, Skills!Nothing
    <3> QED
      BY <3>3, <3>4, <3>5
  <2> QED
    BY <2>1, <2>2
<1>8. CASE r \in Skills!Mutations
  <2>1. Busy(r)
    BY <1>2 DEF Busy, BusySteps
  <2>2. Begun(r)'
    BY <1>5 DEF Begun, ChangeSteps
  <2> QED
    BY <1>2, <1>5, <1>7, <1>8, <2>1, <2>2, AsideGoesOn
<1>9. CASE r = Skills!Startup
  <2>1. Skills!Running(Skills!Startup)
    BY <1>2, <1>9 DEF Skills!Running
  <2>2. \A m \in Skills!Mutations : mutation'[m] = mutation[m]
    BY <1>5, <1>9, SkillNumbers
  <2>3. Passed(r)' => Passed(Skills!Startup)'
    BY <1>9 DEF Skills!Startup
  <2> QED
    BY <1>2, <1>5, <1>7, <1>9, <2>1, <2>2, <2>3, AsideStarts DEF Skills!Startup
<1> QED
  BY <1>8, <1>9, SkillNumbers

\* A part of a directory is gone, and nothing else.
LEMMA SweepRemoves ==
    ASSUME SkillInv, AsideInv, NEW r \in Skills!Runners, mutation[r].at = "sweep",
           NEW p, dirs' = [dirs EXCEPT ![mutation[r].sweeps] =
                               Skills!Without(mutation[r].sweeps, p)],
           UNCHANGED <<skill, mutation, committed, overlooked>>
    PROVE  AsideInv'
<1>1. SkillTypes /\ LockInv
  BY DEF SkillInv
<1>2. PICK t \in Skills!Mutations : t = mutation[r].sweeps
  BY <1>1 DEF SkillTypes
<1> SUFFICES ASSUME Attended', overlooked' = {} PROVE AsideHolds'
  BY DEF AsideInv
<1>3. Attended /\ AsideHolds
  BY DEF AsideInv, Attended
<1>4. /\ \A u \in Skills!Mutations \ {t} :
             Aside(u)' = Aside(u) /\ Skills!PartsLeft(u)' = Skills!PartsLeft(u)
      /\ Aside(t)' = Aside(t) \/ Aside(t)' = Skills!Nothing
      /\ Skills!PartsLeft(t)' \subseteq Skills!PartsLeft(t)
  BY <1>1, <1>2, PartRemoved
<1>5. Aside(t) # Skills!Nothing => skill # Skills!Nothing
  BY <1>2, <1>3 DEF AsideHolds, Passed
<1>6. \A u \in Skills!Mutations :
          Aside(u)' # Skills!Nothing => Aside(u) = Aside(u)' /\ Aside(u) # Skills!Nothing
  BY <1>4
<1>7. OneAside' /\ There'
  BY <1>3, <1>4, <1>5, <1>6 DEF AsideHolds, OneAside, There, Skills!Nothing
<1>8. \A u \in Skills!Mutations : AsideKept(u)'
  BY <1>3, <1>4, <1>5, <1>6 DEF AsideHolds, AsideKept, Skills!Running, Skills!Nothing
<1>9. \A q \in Skills!Runners : Passed(q)'
  <2> TAKE q \in Skills!Runners
  <2>1. mutation[q].seen \subseteq Skills!Mutations
        /\ (mutation[q].at = "sweep" => mutation[q].sweeps \in Skills!Mutations)
    BY <1>1, SkillFacts DEF SkillRunners, SkillTypes
  <2> QED
    BY <1>3, <1>6, <2>1 DEF AsideHolds, Passed, Skills!Nothing
<1>10. \A m \in Skills!Mutations : Begun(m)'
  <2> TAKE m \in Skills!Mutations
  <2>1. mutation[m].at \notin ChangeSteps
    <3>1. CASE r = 0
      BY <1>1, <3>1, SkillNumbers DEF LockInv, Skills!Running, ChangeSteps
    <3>2. CASE r \in Skills!Mutations
      BY <1>1, <1>3, <3>2 DEF LockInv, Busy, BusySteps, ChangeSteps
    <3> QED
      BY <3>1, <3>2, SkillNumbers
  <2> QED
    BY <2>1 DEF Begun
<1>11. StartupRecovers' /\ WaitingIsNew'
  BY <1>3 DEF AsideHolds, StartupRecovers, WaitingIsNew, Skills!Startup
<1> QED
  BY <1>7, <1>8, <1>9, <1>10, <1>11 DEF AsideHolds

LEMMA SweepAside ==
    ASSUME SkillInv, AsideInv, NEW r \in Skills!Runners, Skills!Sweep(r)
    PROVE  AsideInv'
<1>1. SkillTypes /\ LockInv
  BY DEF SkillInv
<1>2. mutation[r].at = "sweep" /\ UNCHANGED <<skill, committed, overlooked>>
  BY DEF Skills!Sweep
<1>3. ASSUME NEW p \in Skills!PartsLeft(mutation[r].sweeps), UNCHANGED mutation,
             dirs' = [dirs EXCEPT ![mutation[r].sweeps] =
                          Skills!Without(mutation[r].sweeps, p)]
      PROVE  AsideInv'
  BY <1>2, <1>3, SweepRemoves
<1>4. CASE /\ UNCHANGED dirs
           /\ IF mutation[r].then = "end" THEN Skills!Leave(r, "ended")
              ELSE Skills!Goes(r, mutation[r].then) /\ UNCHANGED skillLock
  <2> DEFINE step == IF mutation[r].then = "end" THEN "ended" ELSE "recover"
  <2>1. Skills!Goes(r, step) /\ step \in {"ended", "recover"} /\ step \in SkillSteps
    BY <1>1, <1>2, <1>4 DEF Skills!Leave, SkillTypes, SkillSteps, BusySteps
  <2> HIDE DEF step
  <2>2. /\ mutation'[r].at = step /\ mutation'[r].caller = mutation[r].caller
        /\ mutation'[r].seen = mutation[r].seen
        /\ \A q \in Skills!Runners \ {r} : mutation'[q] = mutation[q]
    <3>1. mutation \in [Skills!Runners -> SkillRunners] /\ mutation[r] \in SkillRunners
      BY <1>1, SkillFacts DEF SkillTypes
    <3> QED
      BY <2>1, <3>1 DEF Skills!Goes, SkillRunners
  <2>3. \A u \in Skills!Mutations :
            Aside(u)' = Aside(u) /\ Skills!PartsLeft(u)' = Skills!PartsLeft(u)
    BY <1>4, DirsStay
  <2>4. mutation[r].seen \subseteq Skills!Mutations
    BY <1>1, SkillFacts DEF SkillRunners
  <2>5. ASSUME AsideHolds PROVE OneAside' /\ There' /\ Passed(r)'
    <3>1. OneAside' /\ There'
      BY <1>2, <2>3, <2>5 DEF AsideHolds, OneAside, There, Skills!Nothing
    <3>2. Passed(r)'
      BY <1>2, <2>1, <2>2, <2>3, <2>4, <2>5 DEF AsideHolds, Passed, Skills!Nothing
    <3> QED
      BY <3>1, <3>2
  <2>6. CASE r \in Skills!Mutations
    <3>1. Busy(r) /\ Begun(r)'
      BY <1>2, <2>1, <2>2 DEF Busy, BusySteps, Begun, ChangeSteps
    <3>2. ASSUME AsideHolds PROVE \A u \in Skills!Mutations : AsideKept(u)'
      BY <1>2, <2>2, <2>3, <2>6, <3>2, SkillNumbers
      DEF AsideHolds, AsideKept, Skills!Running, Skills!Nothing
    <3> QED
      BY <1>2, <2>1, <2>2, <2>5, <2>6, <3>1, <3>2, AsideGoesOn
  <2>7. CASE r = 0
    <3>1. Skills!Running(Skills!Startup)
      BY <1>2, <2>7, SkillNumbers DEF Skills!Running
    <3>2. \A m \in Skills!Mutations : mutation'[m] = mutation[m]
      BY <2>2, <2>7, SkillNumbers
    <3>3. Passed(r)' => Passed(Skills!Startup)'
      BY <2>7 DEF Skills!Startup
    <3>4. ASSUME AsideHolds PROVE \A u \in Skills!Mutations : AsideKept(u)'
      <4>1. step = "recover"
        BY <1>2, <2>7, <3>4, SkillNumbers DEF AsideHolds, StartupRecovers, step
      <4>2. Skills!Running(Skills!Startup)'
        BY <2>2, <2>7, <4>1, SkillNumbers DEF Skills!Running, Skills!Startup
      <4> QED
        BY <1>2, <2>3, <3>2, <3>4, <4>2 DEF AsideHolds, AsideKept, Skills!Nothing
    <3>5. mutation'[0].at # "sweep"
      BY <2>1, <2>2, <2>7
    <3> QED
      BY <1>2, <2>5, <3>1, <3>2, <3>3, <3>4, <3>5, AsideStarts
  <2> QED
    BY <2>6, <2>7, SkillNumbers
<1> QED
  BY <1>3, <1>4 DEF Skills!Sweep

LEMMA StartupDoneAside ==
    ASSUME SkillInv, AsideInv, Skills!StartupDone
    PROVE  AsideInv'
<1>1. SkillTypes /\ LockInv
  BY DEF SkillInv
<1>2. /\ mutation[0].at = "recover" /\ Skills!Goes(0, "ended") /\ "ended" \in SkillSteps
      /\ Skills!Unseen(0) = {} \/ ~Skills!NameRecorded
      /\ UNCHANGED <<skill, dirs, committed, overlooked>> /\ 0 \in Skills!Runners
  BY SkillNumbers DEF Skills!StartupDone, SkillSteps
<1>3. Skills!Running(Skills!Startup)
  BY <1>2, SkillNumbers DEF Skills!Running
<1>4. mutation'[0].at = "ended" /\ \A m \in Skills!Mutations : mutation'[m] = mutation[m]
  BY <1>1, <1>2, GoesOn, SkillNumbers
<1>5. \A t \in Skills!Mutations :
          Aside(t)' = Aside(t) /\ Skills!PartsLeft(t)' = Skills!PartsLeft(t)
  BY <1>2, DirsStay
<1>6. ASSUME AsideHolds
      PROVE  /\ OneAside' /\ There' /\ Passed(Skills!Startup)'
             /\ \A t \in Skills!Mutations : AsideKept(t)'
  <2>1. OneAside' /\ There'
    BY <1>2, <1>5, <1>6 DEF AsideHolds, OneAside, There, Skills!Nothing
  <2>2. Passed(Skills!Startup)'
    BY <1>4, SkillNumbers DEF Passed
  <2>3. ASSUME NEW t \in Skills!Mutations, Aside(t) # Skills!Nothing, skill = Skills!Nothing
        PROVE  FALSE
    <3>1. "record" \in Skills!PartsLeft(t)
      BY <1>6, <2>3 DEF AsideHolds, AsideKept
    <3>2. Skills!NameRecorded /\ Skills!OfThisSkill(t)
      BY <2>3, <3>1 DEF Skills!NameRecorded, Skills!OfThisSkill
    <3>3. t \in mutation[0].seen
      BY <1>2, <2>3, <3>2 DEF Skills!Unseen
    <3> QED
      BY <1>2, <1>6, <2>3, <3>3 DEF AsideHolds, Passed
  <2>4. \A t \in Skills!Mutations : AsideKept(t)'
    BY <1>2, <1>5, <2>3 DEF AsideKept, Skills!Nothing
  <2> QED
    BY <2>1, <2>2, <2>4
<1> QED
  BY <1>2, <1>3, <1>4, <1>6, AsideStarts

\* A change that is asked for, or gets the lock, changes nothing that is set aside.
LEMMA AsideEnters ==
    ASSUME SkillInv, AsideInv, NEW m \in Skills!Mutations,
           mutation[m].at \in {"idle", "asked"}, mutation'[m].at \in {"asked", "recover"},
           mutation[m].at = "asked" => mutation'[m].seen = mutation[m].seen,
           mutation[m].at = "idle" => mutation'[m].at = "asked" /\ mutation'[m].seen = {},
           Attended' => Attended, UNCHANGED <<skill, dirs, committed, overlooked>>,
           \A q \in Skills!Runners \ {m} : mutation'[q] = mutation[q]
    PROVE  AsideInv'
<1> SUFFICES ASSUME Attended', overlooked' = {} PROVE AsideHolds'
  BY DEF AsideInv
<1>1. AsideHolds
  BY DEF AsideInv
<1>2. \A t \in Skills!Mutations :
          Aside(t)' = Aside(t) /\ Skills!PartsLeft(t)' = Skills!PartsLeft(t)
  BY DirsStay
<1>3. mutation'[0] = mutation[0]
  BY SkillNumbers
<1>4. OneAside' /\ There' /\ StartupRecovers'
  BY <1>1, <1>2, <1>3, SkillNumbers
  DEF AsideHolds, OneAside, There, StartupRecovers
<1>5. \A t \in Skills!Mutations : AsideKept(t)'
  <2> TAKE t \in Skills!Mutations
  <2>1. mutation[t].at \in {"commit", "retained"} => mutation'[t] = mutation[t]
    BY SkillNumbers
  <2>2. Skills!Running(Skills!Startup) => Skills!Running(Skills!Startup)'
    BY <1>3, SkillNumbers DEF Skills!Running
  <2> QED
    BY <1>1, <1>2, <2>1, <2>2 DEF AsideHolds, AsideKept, Skills!Nothing
<1>6. \A t \in Skills!Mutations : Begun(t)'
  <2> TAKE t \in Skills!Mutations
  <2>1. CASE t = m
    BY <2>1 DEF Begun, ChangeSteps
  <2>2. CASE t # m
    BY <1>1, <1>2, <2>2, SkillNumbers DEF AsideHolds, Begun, Skills!Nothing
  <2> QED
    BY <2>1, <2>2
<1>7. mutation'[m].seen = {}
  BY <1>1 DEF AsideHolds, WaitingIsNew
<1>8. WaitingIsNew'
  BY <1>1, <1>7, SkillNumbers DEF AsideHolds, WaitingIsNew
<1>9. \A r \in Skills!Runners : Passed(r)'
  <2> TAKE r \in Skills!Runners
  <2>1. CASE r = m
    BY <1>7, <2>1 DEF Passed
  <2>2. CASE r # m
    <3>1. mutation[r].seen \subseteq Skills!Mutations
          /\ (mutation[r].at = "sweep" => mutation[r].sweeps \in Skills!Mutations)
      BY SkillFacts DEF SkillInv, SkillTypes, SkillRunners
    <3> QED
      BY <1>1, <1>2, <2>2, <3>1 DEF AsideHolds, Passed, Skills!Nothing
  <2> QED
    BY <2>1, <2>2
<1> QED
  BY <1>4, <1>5, <1>6, <1>8, <1>9 DEF AsideHolds

LEMMA AskAside ==
    ASSUME SkillInv, AsideInv, NEW m \in Skills!Mutations, Skills!Ask(m)
    PROVE  AsideInv'
<1>1. SkillTypes /\ LockInv /\ m \in Skills!Runners
  BY SkillNumbers DEF SkillInv
<1>2. mutation[m].at = "idle" /\ UNCHANGED <<skill, dirs, committed, overlooked>>
  BY DEF Skills!Ask
<1>3. PICK op, expects :
          mutation' = [mutation EXCEPT ![m] =
              [Skills!IdleMutation EXCEPT !.at = "asked", !.op = op, !.expects = expects]]
  BY DEF Skills!Ask
<1>4. /\ mutation'[m].at = "asked" /\ mutation'[m].seen = {}
      /\ \A q \in Skills!Runners \ {m} : mutation'[q] = mutation[q]
  BY <1>1, <1>3 DEF SkillTypes, Skills!IdleMutation
<1>5. Attended' => Attended
  <2>1. mutation[m].caller
    BY <1>1, <1>2 DEF LockInv
  <2> QED
    BY <1>4, <2>1, SkillNumbers DEF Attended
<1> QED
  BY <1>2, <1>4, <1>5, AsideEnters

LEMMA TakeSkillLockAside ==
    ASSUME SkillInv, AsideInv, NEW m \in Skills!Mutations, Skills!TakeSkillLock(m)
    PROVE  AsideInv'
<1>1. SkillTypes /\ m \in Skills!Runners
  BY SkillNumbers DEF SkillInv
<1>2. /\ mutation[m].at = "asked" /\ UNCHANGED <<skill, dirs, committed, overlooked>>
      /\ mutation' = [mutation EXCEPT ![m].at = "recover"]
  BY DEF Skills!TakeSkillLock, Skills!Goes
<1>3. /\ mutation'[m].at = "recover" /\ mutation'[m].seen = mutation[m].seen
      /\ mutation'[m].caller = mutation[m].caller
      /\ \A q \in Skills!Runners \ {m} : mutation'[q] = mutation[q]
  <2>1. mutation \in [Skills!Runners -> SkillRunners] /\ mutation[m] \in SkillRunners
    BY <1>1, SkillFacts DEF SkillTypes
  <2> QED
    BY <1>1, <1>2, <2>1 DEF SkillRunners
<1>4. Attended' => Attended
  BY <1>3, SkillNumbers DEF Attended
<1> QED
  BY <1>2, <1>3, <1>4, AsideEnters

\* A caller that is dropped ends what is said.
LEMMA AbandonAside ==
    ASSUME SkillInv, NEW m \in Skills!Mutations, Skills!Abandon(m)
    PROVE  AsideInv'
<1>1. mutation \in [Skills!Runners -> SkillRunners] /\ m \in Skills!Runners
  BY SkillNumbers DEF SkillInv, SkillTypes
<1>2. mutation' = [mutation EXCEPT ![m] =
          [mutation[m] EXCEPT !.caller = FALSE, !.at = IF @ = "asked" THEN "ended" ELSE @]]
  BY DEF Skills!Abandon
<1>3. ~mutation'[m].caller
  BY <1>1, <1>2 DEF SkillRunners
<1> QED
  BY <1>3 DEF AsideInv, Attended

\* A stop ends every change; the start that follows has recovered nothing yet.
LEMMA StopAndStartAside ==
    ASSUME SkillInv, AsideInv, Skills!StopAndStart
    PROVE  AsideInv'
<1>1. SkillTypes /\ LockInv
  BY DEF SkillInv
<1>2. UNCHANGED <<skill, dirs, committed, overlooked>>
  BY DEF Skills!StopAndStart
<1> DEFINE first == [Skills!IdleMutation EXCEPT !.at = "recover"]
           stopped(r) == [mutation[r] EXCEPT !.at = "ended"]
<1>3. mutation' = [r \in Skills!Runners |->
          IF r = Skills!Startup THEN first
          ELSE IF mutation[r].at = "idle" THEN mutation[r] ELSE stopped(r)]
  BY DEF Skills!StopAndStart
<1>4. first.at = "recover" /\ first.seen = {}
  BY DEF Skills!IdleMutation
<1>5. \A r \in Skills!Runners : stopped(r).at = "ended" /\ stopped(r).caller = mutation[r].caller
  BY <1>1, SkillFacts DEF SkillRunners
<1> HIDE DEF first, stopped
<1>6. mutation'[0].at = "recover" /\ mutation'[0].seen = {}
  BY <1>3, <1>4, SkillNumbers
<1>7. \A m \in Skills!Mutations :
          mutation'[m].at \in {"idle", "ended"} /\ mutation'[m].caller = mutation[m].caller
  <2> TAKE m \in Skills!Mutations
  <2>1. m \in Skills!Runners /\ m # Skills!Startup
    BY SkillNumbers
  <2>2. mutation'[m] = IF mutation[m].at = "idle" THEN mutation[m] ELSE stopped(m)
    BY <1>3, <2>1
  <2> QED
    BY <1>5, <2>1, <2>2
<1> SUFFICES ASSUME Attended', overlooked' = {} PROVE AsideHolds'
  BY DEF AsideInv
<1>8. AsideHolds
  BY <1>2, <1>7 DEF AsideInv, Attended
<1>9. \A t \in Skills!Mutations :
          Aside(t)' = Aside(t) /\ Skills!PartsLeft(t)' = Skills!PartsLeft(t)
  BY <1>2, DirsStay
<1>10. OneAside' /\ There' /\ StartupRecovers' /\ WaitingIsNew'
  BY <1>2, <1>6, <1>7, <1>8, <1>9, SkillNumbers
  DEF AsideHolds, OneAside, There, StartupRecovers, WaitingIsNew
<1>11. Skills!Running(Skills!Startup)'
  BY <1>6, SkillNumbers DEF Skills!Running
<1>12. \A t \in Skills!Mutations : AsideKept(t)' /\ Begun(t)'
  BY <1>2, <1>7, <1>8, <1>9, <1>11
  DEF AsideHolds, AsideKept, Begun, ChangeSteps, Skills!Nothing
<1>13. \A r \in Skills!Runners : Passed(r)'
  BY <1>6, <1>7, SkillNumbers DEF Passed
<1> QED
  BY <1>10, <1>12, <1>13 DEF AsideHolds

\* A package that is edited is there, so nothing that is set aside takes its place.
LEMMA LocalEditAside ==
    ASSUME SkillInv, AsideInv, Skills!LocalEdit
    PROVE  AsideInv'
<1>1. /\ skill # Skills!Nothing /\ skill' = Skills!Edited /\ committed' = Skills!Edited
      /\ Skills!NoneRuns /\ UNCHANGED <<dirs, mutation, overlooked>>
  BY DEF Skills!LocalEdit
<1> SUFFICES ASSUME Attended', overlooked' = {} PROVE AsideHolds'
  BY DEF AsideInv
<1>2. AsideHolds
  BY <1>1 DEF AsideInv, Attended
<1>3. skill' # Skills!Nothing'
  BY <1>1, SkillNumbers DEF Skills!Nothing
<1>4. OneAside' /\ There' /\ StartupRecovers' /\ WaitingIsNew'
  BY <1>1, <1>2
  DEF AsideHolds, OneAside, There, StartupRecovers, WaitingIsNew, Aside, Skills!Holds,
      Skills!PartsLeft, Skills!Nothing
<1>5. \A t \in Skills!Mutations : AsideKept(t)'
  BY <1>3 DEF AsideKept
<1>6. \A t \in Skills!Mutations : Begun(t)'
  BY <1>1, SkillNumbers DEF Begun, ChangeSteps, Skills!NoneRuns, Skills!Running
<1>7. \A r \in Skills!Runners : Passed(r)'
  BY <1>3 DEF Passed
<1> QED
  BY <1>4, <1>5, <1>6, <1>7 DEF AsideHolds

LEMMA AsideStartsEmpty == Skills!SkillInit => AsideInv
<1> SUFFICES ASSUME Skills!SkillInit PROVE AsideHolds
  BY DEF AsideInv
<1>1. /\ committed = skill /\ dirs = [m \in Skills!Mutations |-> Skills!NoDir]
      /\ mutation = [r \in Skills!Runners |-> Skills!IdleMutation]
  BY DEF Skills!SkillInit
<1>2. \A t \in Skills!Mutations : Aside(t) = Skills!Nothing
  BY <1>1 DEF Aside, Skills!Holds, Skills!PartsLeft, Skills!NoDir
<1>3. \A r \in Skills!Runners : mutation[r].at = "idle"
  BY <1>1 DEF Skills!IdleMutation
<1> QED
  BY <1>1, <1>2, <1>3, SkillNumbers
  DEF AsideHolds, OneAside, There, StartupRecovers, WaitingIsNew, AsideKept, Begun,
      ChangeSteps, Passed

LEMMA AsideKeeps == SkillInv /\ AsideInv /\ Skills!SkillNext => AsideInv'
<1> SUFFICES ASSUME SkillInv, AsideInv, Skills!SkillNext PROVE AsideInv'
  OBVIOUS
<1>1. CASE Skills!StopAndStart \/ Skills!LocalEdit \/ Skills!StartupDone
  BY <1>1, StopAndStartAside, LocalEditAside, StartupDoneAside
<1>2. ASSUME NEW r \in Skills!Runners, Skills!Recover(r) \/ Skills!Sweep(r) PROVE AsideInv'
  BY <1>2, RecoverAside, SweepAside
<1>3. ASSUME NEW m \in Skills!Mutations,
             \/ Skills!Ask(m) \/ Skills!TakeSkillLock(m) \/ Skills!Abandon(m)
             \/ Skills!RecoverFails(m) \/ Skills!Examine(m) \/ Skills!Prepare(m)
             \/ Skills!SetAside(m) \/ Skills!Commit(m) \/ Skills!CommitFails(m)
      PROVE  AsideInv'
  BY <1>3, AskAside, TakeSkillLockAside, AbandonAside, RecoverFailsAside, ExamineAside,
     PrepareAside, SetAsideAside, CommitAside, CommitFailsAside
<1> HIDE DEF SkillInv, AsideInv
<1> QED
  BY <1>1, <1>2, <1>3 DEF Skills!SkillNext

LEMMA AsideRests == AsideInv /\ UNCHANGED Skills!skillVars => AsideInv'
<1> SUFFICES ASSUME AsideInv, UNCHANGED Skills!skillVars PROVE AsideInv'
  OBVIOUS
<1>1. UNCHANGED <<skill, dirs, mutation, committed, overlooked>>
  BY DEF Skills!skillVars
<1> QED
  BY <1>1
  DEF AsideInv, Attended, AsideHolds, OneAside, There, StartupRecovers, WaitingIsNew,
      AsideKept, Begun, Passed, Aside, Skills!Holds, Skills!PartsLeft, Skills!Running,
      Skills!Nothing, Skills!Startup

\* While every caller waits for its answer, a package survives and a revision is respected.
LEMMA SkillsAreSound == SkillInv /\ AsideInv => Skills!SkillsHold
<1> SUFFICES ASSUME SkillInv, AsideInv, Attended
             PROVE  Skills!SkillSurvives /\ Skills!RevisionIsRespected
  BY DEF Skills!SkillsHold, Attended
<1>1. Skills!RevisionIsRespected
  BY DEF SkillInv, ExpectInv
<1>2. Skills!SkillSurvives
  <2> SUFFICES ASSUME Skills!NoneRuns, overlooked = {}, skill # committed
               PROVE  /\ skill = Skills!Nothing
                      /\ \E m \in Skills!Mutations :
                             /\ mutation[m].at = "retained"
                             /\ Skills!Holds(m, "previous") = committed
    BY DEF Skills!SkillSurvives
  <2>1. AsideHolds
    BY DEF AsideInv
  <2>2. PICK t \in Skills!Mutations : skill = Skills!Nothing /\ Aside(t) # Skills!Nothing
    BY <2>1 DEF AsideHolds, There
  <2>3. /\ Aside(t) = committed
        /\ mutation[t].at \in {"commit", "retained"} \/ Skills!Running(Skills!Startup)
    BY <2>1, <2>2 DEF AsideHolds, AsideKept
  <2>4. mutation[t].at # "commit"
    BY SkillNumbers DEF Skills!NoneRuns, Skills!Running
  <2>5. ~Skills!Running(Skills!Startup)
    BY SkillNumbers DEF Skills!NoneRuns, SkillInv, LockInv
  <2> QED
    BY <2>2, <2>3, <2>4, <2>5 DEF Aside
<1> QED
  BY <1>1, <1>2

-----------------------------------------------------------------------------
(* The run of MCServices: the component that moves keeps its invariant.    *)

SvcInv ==
    /\ subject \in Components
    /\ subject = "oauth" => OAuthInv
    /\ subject = "servers" => ServersInv
    /\ subject = "market" => MarketInv
    /\ subject = "events" => EventsInv
    /\ subject = "control" => ControlInv
    /\ subject = "skills" => SkillInv /\ AsideInv

LEMMA SvcStarts == Init => SvcInv
<1> SUFFICES ASSUME Init PROVE SvcInv
  OBVIOUS
<1>1. subject \in Components
  BY DEF Init
<1>2. subject = "oauth" => OAuthInv
  BY OAuthStarts DEF Init, OAuthInit
<1>3. subject = "servers" => ServersInv
  BY ServersStart DEF Init, ServersInit
<1>4. subject = "market" => MarketInv
  BY MarketStarts DEF Init, MarketplaceInit
<1>5. subject = "events" => EventsInv
  BY EventsStart DEF Init, EventsInit
<1>6. subject = "control" => ControlInv
  BY ControlStart DEF Init, ControlInit
<1>7. subject = "skills" => SkillInv /\ AsideInv
  BY SkillsStart, AsideStartsEmpty DEF Init, SkillsInit
<1> QED
  BY <1>1, <1>2, <1>3, <1>4, <1>5, <1>6, <1>7 DEF SvcInv

\* A step of one component leaves the subject what it is, so the others' invariants are
\* not asked for.
LEMMA SvcSteps == SvcInv /\ Next => SvcInv'
<1> SUFFICES ASSUME SvcInv, Next PROVE SvcInv'
  OBVIOUS
<1>1. CASE OAuthStep
  <2>1. subject = "oauth" /\ subject' = "oauth" /\ OAuth!OAuthNext
    BY <1>1 DEF OAuthStep, Only
  <2> QED
    BY <2>1, OAuthKeeps DEF SvcInv, Components
<1>2. CASE ServersStep
  <2>1. subject = "servers" /\ subject' = "servers" /\ Servers!McpNext
    BY <1>2 DEF ServersStep, Only
  <2> QED
    BY <2>1, ServersKeep DEF SvcInv, Components
<1>3. CASE EventsStep
  <2>1. subject = "events" /\ subject' = "events" /\ Events!EventsNext
    BY <1>3 DEF EventsStep, Only
  <2> QED
    BY <2>1, EventsKeep DEF SvcInv, Components
<1>4. CASE ControlStep
  <2>1. subject = "control" /\ subject' = "control" /\ Control!ControlNext
    BY <1>4 DEF ControlStep, Only
  <2> QED
    BY <2>1, ControlKeeps DEF SvcInv, Components
<1>5. CASE SkillsStep
  <2>1. subject = "skills" /\ subject' = "skills" /\ Skills!SkillNext
    BY <1>5 DEF SkillsStep, Only
  <2> QED
    BY <2>1, SkillsKeep, AsideKeeps DEF SvcInv, Components
<1>6. CASE MarketplaceStep
  <2>1. subject = "market" /\ subject' = "market" /\ Market!MarketNext
    BY <1>6 DEF MarketplaceStep, Only
  <2> QED
    BY <2>1, MarketKeeps DEF SvcInv, Components
<1> QED
  BY <1>1, <1>2, <1>3, <1>4, <1>5, <1>6 DEF Next

LEMMA SvcRests == SvcInv /\ UNCHANGED vars => SvcInv'
<1> SUFFICES ASSUME SvcInv, UNCHANGED vars PROVE SvcInv'
  OBVIOUS
<1>1. UNCHANGED subject
  BY DEF vars
<1>2. UNCHANGED OAuth!oauthVars
  BY DEF vars, oauthState, OAuth!oauthVars
<1>3. UNCHANGED Servers!mcpVars
  BY DEF vars, serversState, Servers!mcpVars
<1>4. UNCHANGED Market!marketVars
  BY DEF vars, marketState, Market!marketVars
<1>5. UNCHANGED Events!eventVars
  BY DEF vars, eventsState, Events!eventVars
<1>6. UNCHANGED Control!controlVars
  BY DEF vars, controlState, Control!controlVars, Control!policyVars, Control!callVars
<1>7. UNCHANGED Skills!skillVars
  BY DEF vars, skillsState, Skills!skillVars
<1>8. /\ OAuthInv => OAuthInv'
      /\ ServersInv => ServersInv'
      /\ MarketInv => MarketInv'
      /\ EventsInv => EventsInv'
      /\ ControlInv => ControlInv'
      /\ SkillInv => SkillInv'
      /\ AsideInv => AsideInv'
  BY <1>2, <1>3, <1>4, <1>5, <1>6, <1>7,
     OAuthRests, ServersRest, MarketRests, EventsRest, ControlRests, SkillsRest,
     AsideRests
<1> QED
  BY <1>1, <1>8 DEF SvcInv

LEMMA SvcInvariant == Spec => []SvcInv
<1>1. SvcInv /\ [Next]_vars => SvcInv'
  BY SvcSteps, SvcRests
<1> QED
  BY <1>1, SvcStarts, PTL DEF Spec

\* Every variable of the component that moves keeps its type, for any number of flows,
\* plugins, snapshot tasks, control calls and skill mutations.
THEOREM ServicesTyped == Spec => []ServicesTypeOK
<1>1. SvcInv => ServicesTypeOK
  BY DEF SvcInv, ServicesTypeOK, OAuthInv, ServersInv, MarketInv, EventsInv, ControlInv,
         ControlTypes, SkillInv, SkillTypes
<1> QED
  BY <1>1, SvcInvariant, PTL

\* What a runtime has and shows is the handle's: no OAuth flow stores a token after its
\* handle or its credential is gone, a plugin's server can be reclaimed, its sign-in goes
\* with the server's last owner and its Marketplace stays, and once no event is on its
\* way the screen shows the current state (oauth.rs, marketplace.rs,
\* computer_runtime_events.rs).
THEOREM RuntimeIsSound == Spec => []RuntimeHolds
<1>1. OAuthInv => OAuth!AuthorizationHolds
  BY HandleIsCurrent DEF OAuthInv, OAuth!AuthorizationHolds
<1>2. ServersInv => Servers!McpServersHold
  BY DEF ServersInv
<1>3. SvcInv => RuntimeHolds
  BY <1>1, <1>2, MarketInvHolds, LatestIsCurrent DEF SvcInv, RuntimeHolds
<1> QED
  BY <1>3, SvcInvariant, PTL

\* What the client lets itself be controlled with is what took effect: the saved policy,
\* the published one and the mounted servers agree unless undoing an update failed as
\* well, an admitted call was decided by a policy that took effect, and every decided call
\* is audited once (client_control/mod.rs, audit.rs).
THEOREM ControlIsSound == Spec => [](subject = "control" => Control!ControlHolds)
<1>1. ControlInv => Control!ControlHolds
  BY ControlCalls DEF Control!ControlHolds
<1>2. SvcInv => (subject = "control" => Control!ControlHolds)
  BY <1>1 DEF SvcInv
<1> QED
  BY <1>2, SvcInvariant, PTL

\* A part of ControlledHolds that needs no more than the lock of the package: while no
\* caller of a change was dropped, every change replaces the revision it was asked for, and
\* none that another change has stored meanwhile (client_control/package.rs).
THEOREM RevisionsAreRespected ==
    Spec => [](subject = "skills" =>
                   ((\A m \in Skills!Mutations : mutation[m].caller)
                        => Skills!RevisionIsRespected))
<1>1. SkillInv => (Attended => Skills!RevisionIsRespected)
  BY DEF SkillInv, ExpectInv
<1>2. SvcInv => (subject = "skills" =>
                   ((\A m \in Skills!Mutations : mutation[m].caller)
                        => Skills!RevisionIsRespected))
  BY <1>1 DEF SvcInv, Attended
<1> QED
  BY <1>2, SvcInvariant, PTL

\* What the client is controlled with is what took effect, and a skill package is the one of
\* the last change that was committed, absent after a deletion: wherever renames and
\* removals fail and the application stops, as long as no caller is dropped and no change
\* begins beside a content that an earlier one set aside and nobody could remove
\* (client_control/mod.rs, audit.rs, package.rs).
THEOREM ControlledIsSound == Spec => []ControlledHolds
<1>1. ControlInv => Control!ControlHolds
  BY ControlCalls DEF Control!ControlHolds
<1>2. SvcInv => ControlledHolds
  BY <1>1, SkillsAreSound DEF SvcInv, ControlledHolds
<1> QED
  BY <1>2, SvcInvariant, PTL
=============================================================================
