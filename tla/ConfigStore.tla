---------------------------- MODULE ConfigStore ----------------------------
(***************************************************************************)
(* applyDeviceConfig() (config_transaction.h) over the two slots of        *)
(* PreferencesConfigStore (preferences_config_store.h) in flash, one step  *)
(* per access to the flash, with power that may go at any time.            *)
(*                                                                         *)
(* A slot holds the wire form of a configuration, nothing, or Garbage,     *)
(* bytes that do not decode.  The wire form is one to one, so a            *)
(* configuration stands for it.                                            *)
(***************************************************************************)
EXTENDS Naturals

CONSTANTS
  Configs, None, Garbage,
  Faults      \* what the flash may do, a subset of FaultKinds

\* "open": Preferences do not open.  "write": a write reports failure, done
\* or not.  "corrupt": it reports success and stores something else.  "read":
\* a slot is not read.  "misread": the active slot's number is not read.
\* "activate": it is not written.  "ambiguous": it is written, and the write
\* reports failure.  "remove": a slot is not removed.
FaultKinds ==
  {"open", "write", "corrupt", "read", "misread", "activate", "ambiguous",
   "remove"}

ASSUME StoreAssumption ==
  /\ None \notin Configs /\ Garbage \notin Configs /\ None # Garbage
  /\ Faults \subseteq FaultKinds

VARIABLES
  slots, activeKey,        \* flash: cfg0 and cfg1; "active", Unset if absent
  activeSlot, pendingSlot, \* active_slot_, pending_slot_
  pending,                 \* pending_
  ready,                   \* store_ready
  running,                 \* active_config
  step, config,            \* where applyDeviceConfig() is, its argument
  answer                   \* what the provisioning host was told last

flash     == <<slots, activeKey>>
numbers   == <<activeSlot, pendingSlot>>
vars      == <<flash, numbers, pending, ready, running, step, config, answer>>

Slots   == {0, 1}
Unset   == 2
Applying == {"write", "match", "activate"}
Steps   == Applying \union {"off", "run", "discard", "confirm"}
Answers == {"none", "configured", "refused"}

TypeOK ==
  /\ slots \in [Slots -> Configs \union {None, Garbage}]
  /\ activeKey \in Slots \union {Unset}
  /\ activeSlot \in Slots /\ pendingSlot \in Slots
  /\ pending \in Configs \union {None}
  /\ ready \in BOOLEAN
  /\ running \in Configs \union {None}
  /\ step \in Steps
  /\ config \in Configs \union {None}
  /\ answer \in Answers

\* A device fresh from the factory; store and active_config as the program
\* initializes them.
Init ==
  /\ slots = [s \in Slots |-> None] /\ activeKey = Unset
  /\ activeSlot = 0 /\ pendingSlot = 1 /\ pending = None
  /\ ready = FALSE /\ running = None
  /\ step = "off" /\ config = None /\ answer = "none"

Other(s) == IF s = 0 THEN 1 ELSE 0

\* The slot whose number is in flash; begin() takes it for the active one.
FoundSlot == IF activeKey = Unset THEN 0 ELSE activeKey

\* decodeDeviceConfigWire()
Decoded(x) == IF x = Garbage THEN None ELSE x

\* What the next start of the device will run with, if it can read it.
Stored == Decoded(slots[FoundSlot])

-----------------------------------------------------------------------------
\* setup(): the store opens, begin() takes a slot for the active one, slot 0
\* if it cannot read which it is, and active_config is read from that slot; or
\* the store does not open.
Begin ==
  /\ step = "off" /\ step' = "run"
  /\ \/ /\ ready' = TRUE
        /\ \/ activeSlot' = FoundSlot
           \/ "misread" \in Faults /\ activeSlot' = 0
        /\ pendingSlot' = Other(activeSlot')
        /\ \/ running' = Decoded(slots[activeSlot'])
           \/ "read" \in Faults /\ running' = None
     \/ /\ "open" \in Faults
        /\ ready' = FALSE /\ running' = None
        /\ UNCHANGED numbers
  /\ UNCHANGED <<flash, pending, config, answer>>

\* A received configuration, which decoding has validated.
Apply(c) ==
  /\ step = "run" /\ ready
  /\ step' = "write" /\ config' = c /\ answer' = "none"
  /\ UNCHANGED <<flash, numbers, pending, ready, running>>

\* Mutant of WritePending: the slot in use is written.
WriteActive ==
  /\ step = "write" /\ step' = "match"
  /\ pending' = config
  /\ slots' = [slots EXCEPT ![activeSlot] = config]
  /\ UNCHANGED <<activeKey, numbers, ready, running, config, answer>>

WritePending ==
  /\ step = "write"
  /\ pending' = config
  /\ \/ /\ step' = "match"
        /\ \/ slots' = [slots EXCEPT ![pendingSlot] = config]
           \/ "corrupt" \in Faults
                /\ slots' = [slots EXCEPT ![pendingSlot] = Garbage]
     \/ /\ "write" \in Faults
        /\ step' = "discard"
        /\ \E x \in {slots[pendingSlot], config, Garbage} :
             slots' = [slots EXCEPT ![pendingSlot] = x]
  /\ UNCHANGED <<activeKey, numbers, ready, running, config, answer>>

\* Mutant of PendingMatches: something was stored, and that is enough.
PendingPresent ==
  /\ step = "match"
  /\ step' = IF slots[pendingSlot] # None THEN "activate" ELSE "discard"
  /\ UNCHANGED <<flash, numbers, pending, ready, running, config, answer>>

\* The slot is read back and compared with what was to be written.
PendingMatches ==
  /\ step = "match"
  /\ \/ /\ slots[pendingSlot] = pending /\ step' = "activate"
     \/ /\ slots[pendingSlot] # pending \/ "read" \in Faults
        /\ step' = "discard"
  /\ UNCHANGED <<flash, numbers, pending, ready, running, config, answer>>

ActivatePending ==
  /\ step = "activate"
  /\ \/ /\ step' = "confirm"
        /\ activeKey' = pendingSlot
        /\ activeSlot' = pendingSlot /\ pendingSlot' = Other(pendingSlot)
        /\ pending' = None
     \/ /\ step' = "discard"
        /\ \/ "activate" \in Faults /\ UNCHANGED activeKey
           \/ "ambiguous" \in Faults /\ activeKey' = pendingSlot
        /\ UNCHANGED <<numbers, pending>>
  /\ UNCHANGED <<slots, ready, running, config, answer>>

\* Any failure: the slot is removed, and nobody looks at whether it was.
DiscardPending ==
  /\ step = "discard" /\ step' = "run"
  /\ \/ slots' = [slots EXCEPT ![pendingSlot] = None]
     \/ "remove" \in Faults /\ UNCHANGED slots
  /\ pending' = None /\ config' = None /\ answer' = "refused"
  /\ UNCHANGED <<activeKey, numbers, ready, running>>

\* The host is told, and ESP.restart().
ConfirmAndRestart ==
  /\ step = "confirm" /\ step' = "off"
  /\ answer' = "configured" /\ config' = None
  /\ activeSlot' = 0 /\ pendingSlot' = 1 /\ pending' = None
  /\ ready' = FALSE /\ running' = None
  /\ UNCHANGED flash

PowerLoss ==
  /\ step' = "off" /\ config' = None /\ answer' = "none"
  /\ activeSlot' = 0 /\ pendingSlot' = 1 /\ pending' = None
  /\ ready' = FALSE /\ running' = None
  /\ UNCHANGED flash

StoreSteps ==
  \/ WritePending \/ PendingMatches \/ ActivatePending \/ DiscardPending
  \/ ConfirmAndRestart

Next ==
  \/ Begin \/ PowerLoss \/ StoreSteps
  \/ \E c \in Configs : Apply(c)

Spec == Init /\ [][Next]_vars

-----------------------------------------------------------------------------
\* The two slots and their number implement one atomic register.  Between the
\* single steps of an application the power may go; what makes the register
\* atomic is that the number is written last, over a slot that was read back.
\* It is not atomic if the number's write can fail and take effect all the
\* same, nor if its read can fail: a number that is not read counts as 0, and
\* the next application then writes over the slot in use.
Register == INSTANCE ConfigRegister WITH
  stored  <- Stored,
  request <- config,
  stage   <- CASE step \in Applying \union {"discard"} -> "asked"
               [] step = "confirm" -> "installed"
               [] OTHER -> "idle"

ImplementsRegister == Register!Spec

\* What runs is what is stored, or nothing: the device is restarted before it
\* can run with a configuration that was replaced, and a refused one never
\* runs.  Under the same two exceptions: a number that is not read as it is in
\* flash makes the device run the other slot.
RunsWhatIsStored ==
  step \notin {"off", "confirm"} /\ running # None => running = Stored
=============================================================================
