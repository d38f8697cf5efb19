------------------------- MODULE ConfigStore_proofs -------------------------
(***************************************************************************)
(* For every set of configurations and every set of faults the store is    *)
(* well typed and confirms only what is stored.  Unless the active slot's  *)
(* number can be in doubt - its write fails and takes effect all the same, *)
(* or its read fails - only what is stored runs, and the two slots         *)
(* implement the atomic register of module ConfigRegister.                 *)
(***************************************************************************)
EXTENDS ConfigStore, TLAPS

\* The active slot's number is what was written last, and is read as such.
Definite == "ambiguous" \notin Faults /\ "misread" \notin Faults

\* Where an application has a configuration in hand.
Busy == Applying \union {"discard", "confirm"}

\* The store is open whenever a configuration is applied; what is being
\* applied is known exactly then.
RequestInv ==
  /\ step \in Busy => ready /\ config \in Configs
  /\ step \notin Busy => config = None

\* What was to be written is remembered until it was compared, what is
\* activated was compared, and what is confirmed was activated.
SlotInv ==
  /\ step \in {"match", "activate"} => pending = config
  /\ step = "activate" => slots[pendingSlot] = config
  /\ step = "confirm" => Stored = config

\* The slot in use is not the one that is written, until the number is.
NumberInv ==
  /\ pendingSlot = Other(activeSlot)
  /\ step # "off" /\ ready => activeSlot = FoundSlot

RequestTyped == TypeOK /\ RequestInv /\ SlotInv

StoreInv == RequestTyped /\ NumberInv

LEMMA OtherSlot ==
  ASSUME NEW s \in Slots
  PROVE  Other(s) \in Slots /\ Other(s) # s /\ Other(Other(s)) = s
BY DEF Slots, Other

LEMMA StoredType ==
  ASSUME TypeOK
  PROVE  Stored \in Configs \union {None} /\ FoundSlot \in Slots
<1>1. FoundSlot \in Slots
  BY DEF TypeOK, FoundSlot, Slots, Unset
<1>2. slots[FoundSlot] \in Configs \union {None, Garbage}
  BY <1>1 DEF TypeOK
<1> QED
  BY <1>1, <1>2 DEF Stored, Decoded

LEMMA InitTyped == Init => RequestTyped
BY DEF Init, RequestTyped, TypeOK, RequestInv, SlotInv, Slots, Unset, Steps,
       Answers, Busy, Applying

\* What setup() takes for the active slot, and what it reads from it.
LEMMA BeginTyped ==
  ASSUME TypeOK, Begin
  PROVE  /\ activeSlot' \in Slots /\ pendingSlot' \in Slots
         /\ running' \in Configs \union {None}
<1>1. CASE UNCHANGED numbers /\ running' = None
  BY <1>1 DEF TypeOK, numbers
<1>2. CASE ~(UNCHANGED numbers /\ running' = None)
  <2>1. /\ activeSlot' \in {FoundSlot, 0} /\ pendingSlot' = Other(activeSlot')
        /\ running' \in {Decoded(slots[activeSlot']), None}
    BY <1>2 DEF Begin
  <2>2. activeSlot' \in Slots
    BY <2>1, StoredType DEF Slots
  <2>3. pendingSlot' \in Slots
    BY <2>1, <2>2, OtherSlot
  <2>4. slots[activeSlot'] \in Configs \union {None, Garbage}
    BY <2>2 DEF TypeOK
  <2> QED
    BY <2>1, <2>2, <2>3, <2>4 DEF Decoded
<1> QED
  BY <1>1, <1>2

\* Nothing here depends on the slots' numbers being right, so it holds
\* whatever the flash does.
LEMMA StepTyped == RequestTyped /\ [Next]_vars => RequestTyped'
<1> SUFFICES ASSUME RequestTyped, [Next]_vars PROVE RequestTyped'
  OBVIOUS
<1> USE StoreAssumption DEF RequestTyped, TypeOK, RequestInv, SlotInv, Slots,
        Steps, Busy, Applying, Answers
<1>1. CASE Begin
  <2>1. /\ activeSlot' \in Slots /\ pendingSlot' \in Slots
        /\ running' \in Configs \union {None}
    BY <1>1, BeginTyped
  <2> QED
    BY <1>1, <2>1 DEF Begin, flash
<1>2. CASE PowerLoss
  BY <1>2 DEF PowerLoss, flash
<1>3. ASSUME NEW c \in Configs, Apply(c) PROVE RequestTyped'
  BY <1>3 DEF Apply, flash, numbers
<1>4. CASE WritePending
  BY <1>4 DEF WritePending, numbers
<1>5. CASE PendingMatches
  BY <1>5 DEF PendingMatches, flash, numbers
<1>6. CASE ActivatePending
  <2>1. Other(pendingSlot) \in Slots
    BY OtherSlot
  <2>2. step' = "confirm" => Stored' = config'
    <3>1. slots[pendingSlot] = config /\ config # Garbage /\ pendingSlot # Unset
      BY <1>6 DEF ActivatePending, Unset
    <3> QED
      BY <1>6, <3>1 DEF ActivatePending, Stored, FoundSlot, Decoded
  <2> QED
    BY <1>6, <2>1, <2>2 DEF ActivatePending, numbers
<1>7. CASE DiscardPending
  BY <1>7 DEF DiscardPending, numbers
<1>8. CASE ConfirmAndRestart
  BY <1>8 DEF ConfirmAndRestart, flash
<1>9. CASE UNCHANGED vars
  BY <1>9 DEF vars, flash, numbers, Stored, FoundSlot, Decoded
<1> QED
  BY <1>1, <1>2, <1>3, <1>4, <1>5, <1>6, <1>7, <1>8, <1>9 DEF Next, StoreSteps

-----------------------------------------------------------------------------
LEMMA InitNumbers == Init => NumberInv
BY DEF Init, NumberInv, Other

LEMMA StepNumbers ==
  ASSUME Definite, RequestTyped, NumberInv, [Next]_vars
  PROVE  NumberInv'
<1> USE DEF NumberInv, FoundSlot, Stored, Decoded
<1>0. /\ activeSlot \in Slots /\ pendingSlot \in Slots
      /\ pendingSlot # activeSlot /\ Other(pendingSlot) = activeSlot
      /\ FoundSlot \in Slots /\ Other(FoundSlot) \in Slots
  <2>1. activeSlot \in Slots /\ FoundSlot \in Slots
    BY StoredType DEF RequestTyped, TypeOK
  <2> QED
    BY <2>1, OtherSlot
<1>1. CASE Begin
  BY <1>1 DEF Begin, Definite, flash, numbers, Other
<1>2. CASE PowerLoss
  BY <1>2 DEF PowerLoss, flash, Other
<1>3. ASSUME NEW c \in Configs, Apply(c) PROVE NumberInv'
  BY <1>3 DEF Apply, flash, numbers, Other
<1>4. CASE WritePending
  BY <1>0, <1>4 DEF WritePending, numbers, Other
<1>5. CASE PendingMatches
  BY <1>5 DEF PendingMatches, flash, numbers, Other
<1>6. CASE ActivatePending
  <2>1. slots[pendingSlot] = config /\ config # Garbage /\ pendingSlot # Unset
    BY <1>0, <1>6, StoreAssumption
       DEF ActivatePending, RequestTyped, RequestInv, SlotInv, Busy, Applying,
           Slots, Unset
  <2> QED
    BY <1>0, <1>6, <2>1 DEF ActivatePending, Definite, numbers, Other
<1>7. CASE DiscardPending
  BY <1>0, <1>7 DEF DiscardPending, numbers, Other
<1>8. CASE ConfirmAndRestart
  BY <1>8 DEF ConfirmAndRestart, flash, Other
<1>9. CASE UNCHANGED vars
  BY <1>9 DEF vars, flash, numbers, Other
<1> QED
  BY <1>1, <1>2, <1>3, <1>4, <1>5, <1>6, <1>7, <1>8, <1>9 DEF Next, StoreSteps

-----------------------------------------------------------------------------
\* Type correctness (config_transaction.h, preferences_config_store.h), for
\* every fault of the flash.
THEOREM StoreTypeCorrect == Spec => []TypeOK
<1>1. RequestTyped => TypeOK
  BY DEF RequestTyped
<1> QED
  BY <1>1, InitTyped, StepTyped, PTL DEF Spec

\* applyDeviceConfig() reports kApplied only for a configuration that was read
\* back and that the number in flash now names: whatever the flash does, and
\* whatever slot begin() took for the active one, what the host is about to be
\* told is configured is what the next start finds.
THEOREM ConfirmsOnlyStored == Spec => [](step = "confirm" => Stored = config)
<1>1. RequestTyped => (step = "confirm" => Stored = config)
  BY DEF RequestTyped, SlotInv
<1> QED
  BY <1>1, InitTyped, StepTyped, PTL DEF Spec

LEMMA StoreInvariant == Definite => (Spec => []StoreInv)
<1> SUFFICES ASSUME Definite PROVE Spec => []StoreInv
  OBVIOUS
<1>1. Init => StoreInv
  BY InitTyped, InitNumbers DEF StoreInv
<1>2. StoreInv /\ [Next]_vars => StoreInv'
  BY StepTyped, StepNumbers DEF StoreInv
<1> QED
  BY <1>1, <1>2, PTL DEF Spec

\* A slot is written or removed only during an application, and then it is not
\* the one that is stored.
LEMMA WritesLeaveStored ==
  ASSUME Definite, StoreInv, WritePending \/ DiscardPending
  PROVE  Stored' = Stored
<1>1. /\ pendingSlot \in Slots /\ FoundSlot \in Slots
      /\ pendingSlot # FoundSlot
  <2>1. step \in Busy
    BY DEF WritePending, DiscardPending, Busy, Applying
  <2>2. activeSlot = FoundSlot /\ pendingSlot = Other(activeSlot)
    BY <2>1 DEF StoreInv, RequestTyped, RequestInv, NumberInv, Busy, Applying
  <2> QED
    BY <2>2, StoredType, OtherSlot DEF StoreInv, RequestTyped, TypeOK
<1>2. activeKey' = activeKey
  BY DEF WritePending, DiscardPending
<1>3. slots'[FoundSlot] = slots[FoundSlot]
  BY <1>1 DEF WritePending, DiscardPending, StoreInv, RequestTyped, TypeOK
<1> QED
  BY <1>2, <1>3 DEF Stored, FoundSlot, Decoded

\* What the other steps that change the flash or nothing at all do to it.
LEMMA OthersLeaveStored ==
  ASSUME UNCHANGED flash
  PROVE  Stored' = Stored
BY DEF flash, Stored, FoundSlot, Decoded

LEMMA ActivationStores ==
  ASSUME Definite, StoreInv, ActivatePending
  PROVE  \/ step' = "confirm" /\ Stored' = config
         \/ step' = "discard" /\ Stored' = Stored
<1>1. /\ slots[pendingSlot] = config /\ config # Garbage
      /\ pendingSlot \in Slots /\ pendingSlot # Unset
  BY StoreAssumption
     DEF ActivatePending, StoreInv, RequestTyped, RequestInv, SlotInv, TypeOK,
         Busy, Applying, Slots, Unset
<1>2. CASE step' = "confirm"
  <2>1. activeKey' = pendingSlot /\ slots' = slots
    BY <1>2 DEF ActivatePending
  <2> QED
    BY <1>1, <1>2, <2>1 DEF Stored, FoundSlot, Decoded
<1>3. CASE step' = "discard"
  <2>1. UNCHANGED flash
    BY <1>3 DEF ActivatePending, Definite, flash
  <2> QED
    BY <1>3, <2>1, OthersLeaveStored
<1> QED
  BY <1>2, <1>3 DEF ActivatePending

-----------------------------------------------------------------------------
\* What runs is what is stored (active_config of esp32_voice_kit.ino:673), if
\* the active slot's number is never in doubt.
THEOREM RunsStored == Definite => (Spec => []RunsWhatIsStored)
<1> SUFFICES ASSUME Definite PROVE Spec => []RunsWhatIsStored
  OBVIOUS
<1>1. Init => RunsWhatIsStored
  BY DEF Init, RunsWhatIsStored
<1>2. StoreInv /\ RunsWhatIsStored /\ [Next]_vars => RunsWhatIsStored'
  <2> SUFFICES ASSUME StoreInv, RunsWhatIsStored, [Next]_vars
               PROVE  RunsWhatIsStored'
    OBVIOUS
  <2> USE DEF RunsWhatIsStored
  <2>1. CASE Begin
    <3>1. running' \in {Stored, None} /\ UNCHANGED flash
      BY <2>1 DEF Begin, Definite, Stored
    <3> QED
      BY <3>1, OthersLeaveStored
  <2>2. CASE PowerLoss \/ ConfirmAndRestart
    BY <2>2 DEF PowerLoss, ConfirmAndRestart
  <2>3. CASE \E c \in Configs : Apply(c)
    BY <2>3, OthersLeaveStored DEF Apply
  <2>4. CASE WritePending
    BY <2>4, WritesLeaveStored DEF WritePending
  <2>5. CASE PendingMatches
    BY <2>5, OthersLeaveStored DEF PendingMatches
  <2>6. CASE ActivatePending
    BY <2>6, ActivationStores DEF ActivatePending
  <2>7. CASE DiscardPending
    BY <2>7, WritesLeaveStored DEF DiscardPending
  <2>8. CASE UNCHANGED vars
    BY <2>8, OthersLeaveStored DEF vars
  <2> QED
    BY <2>1, <2>2, <2>3, <2>4, <2>5, <2>6, <2>7, <2>8 DEF Next, StoreSteps
<1> QED
  BY <1>1, <1>2, StoreInvariant, PTL DEF Spec

-----------------------------------------------------------------------------
(* The register.                                                           *)

Stage == CASE step \in Applying \union {"discard"} -> "asked"
           [] step = "confirm" -> "installed"
           [] OTHER -> "idle"

LEMMA StageOf ==
  /\ step \in {"write", "match", "activate", "discard"} => Stage = "asked"
  /\ step = "confirm" => Stage = "installed"
  /\ step \in {"off", "run"} => Stage = "idle"
BY DEF Stage, Applying

LEMMA StageOfNext ==
  /\ step' \in {"write", "match", "activate", "discard"} => Stage' = "asked"
  /\ step' = "confirm" => Stage' = "installed"
  /\ step' \in {"off", "run"} => Stage' = "idle"
BY DEF Stage, Applying

LEMMA InitRegister == Init => Register!Init
BY DEF Init, Register!Init, Stored, Decoded, FoundSlot, Unset, Slots, Applying

\* Every step of the store is a step of the register or leaves it as it is.
LEMMA StepRegister ==
  ASSUME Definite, StoreInv, [Next]_vars
  PROVE  [Register!Next]_(Register!rvars)
<1> USE StageOf, StageOfNext
<1>0. Register!rvars = <<Stored, config, Stage, answer>>
  BY DEF Register!rvars, Stage
<1>1. CASE Begin \/ PendingMatches \/ UNCHANGED vars
  <2>1. UNCHANGED <<Stored, config, answer>>
    BY <1>1, OthersLeaveStored DEF Begin, PendingMatches, vars
  <2>2. Stage' = Stage
    <3>1. CASE Begin
      BY <3>1 DEF Begin
    <3>2. CASE PendingMatches
      BY <3>2 DEF PendingMatches
    <3>3. CASE UNCHANGED vars
      BY <3>3 DEF vars, Stage
    <3> QED
      BY <1>1, <3>1, <3>2, <3>3
  <2> QED
    BY <2>1, <2>2, <1>0 DEF Register!rvars, Stage
<1>2. CASE PowerLoss
  <2>1. Register!PowerLoss
    BY <1>2, OthersLeaveStored DEF PowerLoss, Register!PowerLoss, Stage
  <2> QED
    BY <2>1 DEF Register!Next
<1>3. ASSUME NEW c \in Configs, Apply(c) PROVE Register!Request(c)
  BY <1>3, OthersLeaveStored DEF Apply, Register!Request, Stage
<1>4. CASE WritePending
  <2>1. UNCHANGED <<Stored, config, answer>>
    BY <1>4, WritesLeaveStored DEF WritePending
  <2>2. Stage' = Stage
    BY <1>4 DEF WritePending
  <2> QED
    BY <2>1, <2>2 DEF Register!rvars, Stage
<1>5. CASE ActivatePending
  <2>1. UNCHANGED <<config, answer>> /\ Stage = "asked"
    BY <1>5 DEF ActivatePending
  <2>2. CASE step' = "confirm" /\ Stored' = config
    <3>1. Register!Install
      BY <2>1, <2>2 DEF Register!Install, Stage
    <3> QED
      BY <3>1 DEF Register!Next
  <2>3. CASE step' = "discard" /\ Stored' = Stored
    BY <2>1, <2>3 DEF Register!rvars, Stage
  <2> QED
    BY <1>5, <2>2, <2>3, ActivationStores
<1>6. CASE DiscardPending
  <2>1. Register!Refuse
    BY <1>6, WritesLeaveStored DEF DiscardPending, Register!Refuse, Stage
  <2> QED
    BY <2>1 DEF Register!Next
<1>7. CASE ConfirmAndRestart
  <2>1. Register!Confirm
    BY <1>7, OthersLeaveStored DEF ConfirmAndRestart, Register!Confirm, Stage
  <2> QED
    BY <2>1 DEF Register!Next
<1> QED
  BY <1>1, <1>2, <1>3, <1>4, <1>5, <1>6, <1>7
     DEF Next, StoreSteps, Register!Next

\* The two slots implement the atomic register (applyDeviceConfig() over
\* PreferencesConfigStore): if the active slot's number is never in doubt, then
\* under every other fault and whenever the power goes a configuration is
\* replaced in one step or not at all, and the answer says which.
THEOREM StoreImplementsRegister == Definite => (Spec => ImplementsRegister)
<1> SUFFICES ASSUME Definite PROVE Spec => ImplementsRegister
  OBVIOUS
<1>1. StoreInv /\ [Next]_vars => [Register!Next]_(Register!rvars)
  BY StepRegister
<1> QED
  BY <1>1, InitRegister, StoreInvariant, PTL
     DEF Spec, ImplementsRegister, Register!Spec
=============================================================================
