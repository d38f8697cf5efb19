------------------------ MODULE Provisioning_proofs ------------------------
(***************************************************************************)
(* For every set of configurations, size of a payload, line limit and set  *)
(* of flash faults, and however the line and the host misbehave: what is   *)
(* collected stays within its limits, only a payload that one host sent as *)
(* a whole is installed, and it is confirmed only if it is what the next   *)
(* start finds in flash.                                                   *)
(***************************************************************************)
EXTENDS Provisioning, SequenceTheorems, TLAPS

\* Where the receiver's payload may be complete.
Complete == Store!Applying \union {"discard", "confirm"}

\* The parts of TypeOK.
ReceiverTyped ==
  /\ line \in Seq(Bytes) /\ Len(line) <= MaximumLine
  /\ payload \in Seq(Bytes) /\ Len(payload) <= PayloadSize
  /\ Len(payload) = PayloadSize => step \in Complete
  /\ expected \in {<<>>} \union (Payloads \X Payloads)

LineTyped ==
  /\ wire \in Seq(Bytes) /\ Len(wire) <= WireSize
  /\ reply \in Replies
  /\ sending \in Payloads \union {None} /\ part \in 1..(LastPart + 1)
  /\ settled \in BOOLEAN

LEMMA TypeOKParts == TypeOK <=> Store!TypeOK /\ ReceiverTyped /\ LineTyped
BY DEF TypeOK, ReceiverTyped, LineTyped, Complete

LEMMA EmptyBytes == <<>> \in Seq(Bytes) /\ Len(<<>>) = 0
OBVIOUS

\* The store and the receiver in one step of Provisioning.
StoreStep == Store!Next \/ UNCHANGED storeVars

-----------------------------------------------------------------------------
(* Every step is one of the store's, or leaves it alone.                   *)

LEMMA StepsTheStore == [Next]_vars => StoreStep
<1> SUFFICES ASSUME [Next]_vars PROVE StoreStep
  OBVIOUS
<1>1. CASE PayloadComplete
  BY <1>1 DEF PayloadComplete, StoreStep, Store!Next
<1>2. CASE StoreWorks \/ StoreRefuses \/ StoreConfirms
  BY <1>2 DEF StoreWorks, StoreRefuses, StoreConfirms, StoreStep, Store!Next,
     Store!StoreSteps
<1>3. CASE Boots \/ PowerLoss
  BY <1>3 DEF Boots, PowerLoss, StoreStep, Store!Next
<1>4. CASE ReadPayload \/ HandleCommand \/ ReadLine
  BY <1>4 DEF ReadPayload, HandleCommand, ReadLine, StoreStep
<1>5. CASE HostSends \/ HostRetries \/ HostEnds \/ LoseByte \/ Settle
  BY <1>5 DEF HostSends, HostRetries, HostEnds, LoseByte, Settle, StoreStep
<1>6. CASE \E c \in Payloads : HostBegins(c)
  BY <1>6 DEF HostBegins, StoreStep
<1>7. CASE UNCHANGED vars
  BY <1>7 DEF vars, StoreStep
<1> QED
  BY <1>1, <1>2, <1>3, <1>4, <1>5, <1>6, <1>7 DEF Next, Device

-----------------------------------------------------------------------------
(* Types.                                                                  *)

LEMMA StoreTyped == Store!TypeOK /\ StoreStep => Store!TypeOK'
<1> SUFFICES ASSUME Store!TypeOK, StoreStep PROVE Store!TypeOK'
  OBVIOUS
<1> USE DEF Store!TypeOK, Store!Slots, Store!Unset, Store!Steps,
        Store!Applying, Store!Answers
<1>0. /\ Store!FoundSlot \in Store!Slots
      /\ Store!Other(pendingSlot) \in Store!Slots
  BY DEF Store!FoundSlot, Store!Other
<1>1. CASE Store!Begin
  <2>1. CASE UNCHANGED Store!numbers /\ running' = None
    BY <1>1, <2>1 DEF Store!Begin, Store!flash, Store!numbers
  <2>2. CASE ~(UNCHANGED Store!numbers /\ running' = None)
    <3>1. /\ activeSlot' \in {Store!FoundSlot, 0}
          /\ pendingSlot' = Store!Other(activeSlot')
          /\ running' \in {Store!Decoded(slots[activeSlot']), None}
      BY <1>1, <2>2 DEF Store!Begin
    <3>2. activeSlot' \in Store!Slots /\ pendingSlot' \in Store!Slots
      BY <1>0, <3>1 DEF Store!Other
    <3>3. running' \in Configs \union {None}
      BY <3>1, <3>2 DEF Store!Decoded
    <3> QED
      BY <1>1, <3>2, <3>3 DEF Store!Begin, Store!flash
  <2> QED
    BY <2>1, <2>2
<1>2. CASE Store!PowerLoss \/ Store!ConfirmAndRestart
  BY <1>2 DEF Store!PowerLoss, Store!ConfirmAndRestart, Store!flash
<1>3. ASSUME NEW c \in Configs, Store!Apply(c) PROVE Store!TypeOK'
  BY <1>3 DEF Store!Apply, Store!flash, Store!numbers
<1>4. CASE Store!WritePending
  BY <1>4 DEF Store!WritePending, Store!numbers
<1>5. CASE Store!PendingMatches
  BY <1>5 DEF Store!PendingMatches, Store!flash, Store!numbers
<1>6. CASE Store!ActivatePending
  BY <1>0, <1>6 DEF Store!ActivatePending, Store!numbers
<1>7. CASE Store!DiscardPending
  BY <1>7 DEF Store!DiscardPending, Store!numbers
<1>8. CASE UNCHANGED storeVars
  BY <1>8 DEF storeVars
<1> QED
  BY <1>1, <1>2, <1>3, <1>4, <1>5, <1>6, <1>7, <1>8
     DEF StoreStep, Store!Next, Store!StoreSteps

LEMMA ReceiverReads ==
  ASSUME TypeOK, NEW b \in Bytes, Reads(b)
  PROVE  /\ wire' \in Seq(Bytes) /\ Len(wire') <= WireSize
         /\ Append(line, b) \in Seq(Bytes)
         /\ Len(Append(line, b)) = Len(line) + 1
         /\ Append(payload, b) \in Seq(Bytes)
         /\ Len(Append(payload, b)) = Len(payload) + 1
         /\ Len(wire) \in Nat /\ Len(line) \in Nat /\ Len(payload) \in Nat
         /\ step = "run" /\ UNCHANGED <<host, settled>>
<1>1. wire \in Seq(Bytes) /\ wire # <<>> /\ wire' = Tail(wire)
  BY DEF TypeOK, Reads
<1>2. wire' \in Seq(Bytes) /\ Len(wire') = Len(wire) - 1
  BY <1>1
<1> QED
  BY <1>1, <1>2, ProvisioningAssumption DEF TypeOK, Reads

LEMMA PayloadCompletes ==
  ASSUME TypeOK, PayloadComplete
  PROVE  ReceiverTyped' /\ LineTyped'
<1> USE ProvisioningAssumption, EmptyBytes
<1>1. PICK b \in Bytes :
        /\ Reads(b)
        /\ Len(payload) + 1 = PayloadSize
        /\ \/ \E c \in Configs :
                /\ Store!Apply(c)
                /\ payload' = Append(payload, b)
                /\ UNCHANGED <<expected, reply>>
           \/ ResetReceiver /\ reply' = "error" /\ UNCHANGED storeVars
        /\ UNCHANGED line
  BY DEF PayloadComplete
<1>2. LineTyped'
  BY <1>1, ReceiverReads DEF LineTyped, TypeOK, Replies, host
<1>3. CASE \E c \in Configs : /\ Store!Apply(c)
                              /\ payload' = Append(payload, b)
                              /\ UNCHANGED <<expected, reply>>
  <2>1. step' = "write" /\ step' \in Complete
    BY <1>3 DEF Store!Apply, Complete, Store!Applying
  <2>2. payload' \in Seq(Bytes) /\ Len(payload') = PayloadSize
    BY <1>1, <1>3, ReceiverReads
  <2>3. PayloadSize <= PayloadSize
    OBVIOUS
  <2> QED
    BY <1>1, <1>2, <1>3, <2>1, <2>2, <2>3
       DEF ReceiverTyped, TypeOK, Complete, Store!Applying
<1>4. CASE ResetReceiver /\ reply' = "error" /\ UNCHANGED storeVars
  BY <1>1, <1>2, <1>4 DEF ReceiverTyped, TypeOK, ResetReceiver
<1> QED
  BY <1>1, <1>3, <1>4

LEMMA ReadingTyped ==
  ASSUME TypeOK, ReadPayload \/ HandleCommand \/ ReadLine
  PROVE  ReceiverTyped' /\ LineTyped'
<1> USE ProvisioningAssumption, EmptyBytes
<1>1. CASE ReadPayload
  <2>1. PICK b \in Bytes :
          /\ Reads(b) /\ Len(payload) + 1 < PayloadSize
          /\ payload' = Append(payload, b)
          /\ UNCHANGED <<storeVars, line, expected, reply>>
    BY <1>1 DEF ReadPayload
  <2>2. payload' \in Seq(Bytes) /\ Len(payload') < PayloadSize
    BY <2>1, ReceiverReads
  <2>3. ReceiverTyped'
    BY <2>1, <2>2 DEF ReceiverTyped, TypeOK
  <2>4. LineTyped'
    BY <2>1, ReceiverReads DEF LineTyped, TypeOK, host
  <2> QED
    BY <2>3, <2>4
<1>2. CASE HandleCommand
  <2>1. PICK b \in Bytes :
          /\ Reads(b) /\ line' = <<>>
          /\ IF IsCommand /\ ready
               THEN /\ expected' = <<line[1][1], b[1]>> /\ payload' = <<>>
                    /\ reply' = "send_payload"
               ELSE reply' = "error" /\ UNCHANGED <<expected, payload>>
          /\ UNCHANGED storeVars
    BY <1>2 DEF HandleCommand
  <2>2. LineTyped'
    BY <2>1, ReceiverReads DEF LineTyped, TypeOK, Replies, host
  <2>3. CASE IsCommand /\ ready
    <3>1. line[1] \in Bytes
      <4>1. line \in Seq(Bytes) /\ 1 \in 1..Len(line)
        BY <2>3 DEF IsCommand, TypeOK
      <4> QED
        BY <4>1, ElementOfSeq
    <3>2. line[1][1] \in Payloads /\ b[1] \in Payloads
      BY <3>1 DEF Bytes
    <3> QED
      BY <2>1, <2>2, <2>3, <3>2 DEF ReceiverTyped, TypeOK
  <2>4. CASE ~(IsCommand /\ ready)
    BY <2>1, <2>2, <2>4 DEF ReceiverTyped, TypeOK, storeVars, Complete
  <2> QED
    BY <2>3, <2>4
<1>3. CASE ReadLine
  <2>1. PICK b \in Bytes :
          /\ Reads(b)
          /\ IF Len(line) >= MaximumLine
               THEN line' = <<>> /\ reply' = "error"
               ELSE line' = Append(line, b) /\ UNCHANGED reply
          /\ UNCHANGED <<storeVars, payload, expected>>
    BY <1>3 DEF ReadLine
  <2>2. LineTyped'
    BY <2>1, ReceiverReads DEF LineTyped, TypeOK, Replies, host
  <2>3. line' \in Seq(Bytes) /\ Len(line') <= MaximumLine
    <3>1. CASE Len(line) >= MaximumLine
      BY <2>1, <3>1
    <3>2. CASE ~(Len(line) >= MaximumLine)
      <4>1. line' = Append(line, b)
        BY <2>1, <3>2
      <4>2. /\ line' \in Seq(Bytes) /\ Len(line') = Len(line) + 1
            /\ Len(line) \in Nat
        BY <2>1, <4>1, ReceiverReads
      <4> QED
        BY <3>2, <4>2
    <3> QED
      BY <3>1, <3>2
  <2>4. ReceiverTyped'
    BY <2>1, <2>3 DEF ReceiverTyped, TypeOK, storeVars, Complete
  <2> QED
    BY <2>2, <2>4
<1> QED
  BY <1>1, <1>2, <1>3

\* The payload is complete only from the last byte until the receiver is reset
\* or the program ends, whatever the store does meanwhile.
LEMMA StoreLeavesReceiver ==
  ASSUME TypeOK, StoreWorks \/ StoreRefuses \/ StoreConfirms \/ Boots
  PROVE  ReceiverTyped' /\ LineTyped'
<1> USE ProvisioningAssumption, EmptyBytes
<1>1. CASE StoreWorks
  <2>1. step' \in Complete
    BY <1>1 DEF StoreWorks, Store!WritePending, Store!PendingMatches,
       Store!ActivatePending, Complete, Store!Applying
  <2> QED
    BY <1>1, <2>1 DEF StoreWorks, ReceiverTyped, LineTyped, TypeOK, receiver,
       host
<1>2. CASE StoreRefuses
  BY <1>2 DEF StoreRefuses, ResetReceiver, ReceiverTyped, LineTyped, TypeOK,
     Replies, host
<1>3. CASE StoreConfirms
  BY <1>3 DEF StoreConfirms, ProgramEnds, ReceiverTyped, LineTyped, TypeOK,
     Replies, host
<1>4. CASE Boots
  <2>1. step \notin Complete
    BY <1>4 DEF Boots, Store!Begin, Complete, Store!Applying
  <2> QED
    BY <1>4, <2>1 DEF Boots, ReceiverTyped, LineTyped, TypeOK, receiver, host,
       Complete
<1> QED
  BY <1>1, <1>2, <1>3, <1>4

LEMMA HostTyped ==
  ASSUME TypeOK,
         \/ HostSends \/ HostRetries \/ HostEnds
         \/ \E c \in Payloads : HostBegins(c)
  PROVE  ReceiverTyped' /\ LineTyped'
<1>0. LastPart \in Nat /\ 1 \in 1..(LastPart + 1)
  BY ProvisioningAssumption DEF LastPart
<1>1. CASE HostSends
  <2>1. sending \in Payloads /\ part \in Parts /\ part + 1 \in 1..(LastPart + 1)
    BY <1>0, <1>1 DEF HostSends, TypeOK, Parts
  <2>2. /\ wire' \in Seq(Bytes) /\ Len(wire') <= WireSize
    BY <1>1, <2>1, ProvisioningAssumption DEF HostSends, TypeOK, Bytes
  <2> QED
    BY <1>1, <2>1, <2>2 DEF HostSends, ReceiverTyped, LineTyped, TypeOK,
       receiver, storeVars, Complete
<1>2. CASE HostRetries
  BY <1>0, <1>2 DEF HostRetries, ReceiverTyped, LineTyped, TypeOK, Replies,
     receiver, storeVars, Complete
<1>3. CASE HostEnds
  BY <1>0, <1>3 DEF HostEnds, ReceiverTyped, LineTyped, TypeOK, receiver,
     storeVars, Complete
<1>4. CASE \E c \in Payloads : HostBegins(c)
  BY <1>0, <1>4 DEF HostBegins, ReceiverTyped, LineTyped, TypeOK, Replies,
     receiver, storeVars, Complete
<1> QED
  BY <1>1, <1>2, <1>3, <1>4

LEMMA FaultsTyped ==
  ASSUME TypeOK, LoseByte \/ PowerLoss \/ Settle
  PROVE  ReceiverTyped' /\ LineTyped'
<1> USE ProvisioningAssumption, EmptyBytes
<1>1. CASE LoseByte
  <2>1. wire' \in Seq(Bytes) /\ Len(wire') <= WireSize
    BY <1>1 DEF LoseByte, TypeOK
  <2> QED
    BY <1>1, <2>1 DEF LoseByte, ReceiverTyped, LineTyped, TypeOK, receiver,
       storeVars, Complete, host
<1>2. CASE PowerLoss
  BY <1>2 DEF PowerLoss, ProgramEnds, ReceiverTyped, LineTyped, TypeOK, host
<1>3. CASE Settle
  BY <1>3 DEF Settle, ReceiverTyped, LineTyped, TypeOK, receiver, storeVars,
     Complete, host
<1> QED
  BY <1>1, <1>2, <1>3

LEMMA TypeInvariant == Spec => []TypeOK
<1>1. Init => TypeOK
  <2> SUFFICES ASSUME Init PROVE TypeOK
    OBVIOUS
  <2>1. Store!TypeOK
    BY DEF Init, Store!Init, Store!TypeOK, Store!Slots, Store!Unset,
       Store!Steps, Store!Answers
  <2>2. 1 \in 1..(LastPart + 1)
    BY ProvisioningAssumption DEF LastPart
  <2>3. ReceiverTyped
    <3>1. line = <<>> /\ payload = <<>> /\ expected = <<>>
      BY DEF Init
    <3> QED
      BY <3>1, ProvisioningAssumption, EmptyBytes DEF ReceiverTyped
  <2>4. LineTyped
    <3>1. /\ wire = <<>> /\ reply = "none" /\ sending = None /\ part = 1
          /\ settled = FALSE
      BY DEF Init
    <3>2. wire \in Seq(Bytes) /\ Len(wire) <= WireSize
      BY <3>1, ProvisioningAssumption, EmptyBytes
    <3>3. sending \in Payloads \union {None} /\ part \in 1..(LastPart + 1)
      BY <2>2, <3>1
    <3> QED
      BY <3>1, <3>2, <3>3 DEF LineTyped, Replies
  <2> QED
    BY <2>1, <2>3, <2>4, TypeOKParts
<1>2. TypeOK /\ [Next]_vars => TypeOK'
  <2> SUFFICES ASSUME TypeOK, [Next]_vars PROVE TypeOK'
    OBVIOUS
  <2>1. Store!TypeOK'
    BY StepsTheStore, StoreTyped DEF TypeOK
  <2>2. ASSUME UNCHANGED vars PROVE ReceiverTyped' /\ LineTyped'
    <3>1. UNCHANGED <<step, line, payload, expected, wire, reply, sending, part,
                      settled>>
      BY <2>2 DEF vars, storeVars, receiver, host
    <3>2. ReceiverTyped /\ LineTyped
      BY TypeOKParts
    <3> QED
      BY <3>1, <3>2 DEF ReceiverTyped, LineTyped, Complete
  <2>3. ReceiverTyped' /\ LineTyped'
    BY <2>2, PayloadCompletes, ReadingTyped, StoreLeavesReceiver, HostTyped,
       FaultsTyped DEF Next, Device
  <2> QED
    BY <2>1, <2>3 DEF TypeOK, ReceiverTyped, LineTyped, Complete
<1> QED
  BY <1>1, <1>2, PTL DEF Spec

\* readProvisioningSerial() collects no more of a line or of a payload than it
\* may, and holds a whole payload only while the store works on it.
THEOREM ReceiverWithinLimits == Spec => []TypeOK
BY TypeInvariant

-----------------------------------------------------------------------------
(* What is installed.                                                      *)

\* What the store compares: what is to be written is remembered until it was
\* read back, and what is activated was read back.
ComparedInv ==
  /\ step \in {"match", "activate"} => pending = config
  /\ step = "activate" => slots[pendingSlot] = config
  /\ step \in Store!Applying => config \in Configs

Applied   == step \in Store!Applying => payload = Text(config)
Confirmed == step = "confirm" => payload = Text(Store!Stored)

LEMMA OneHostsParts == OneHostsConfig <=> Applied /\ Confirmed
BY DEF OneHostsConfig, Applied, Confirmed

LEMMA ComparedStep == TypeOK /\ ComparedInv /\ [Next]_vars => ComparedInv'
<1> SUFFICES ASSUME TypeOK, ComparedInv, [Next]_vars PROVE ComparedInv'
  OBVIOUS
<1> USE DEF ComparedInv, Store!Applying
<1>0. StoreStep
  BY StepsTheStore
<1>1. CASE Store!Begin \/ Store!PowerLoss \/ Store!ConfirmAndRestart
  BY <1>1 DEF Store!Begin, Store!PowerLoss, Store!ConfirmAndRestart
<1>2. ASSUME NEW c \in Configs, Store!Apply(c) PROVE ComparedInv'
  BY <1>2 DEF Store!Apply
<1>3. CASE Store!WritePending
  BY <1>3 DEF Store!WritePending, Store!numbers
<1>4. CASE Store!PendingMatches
  BY <1>4 DEF Store!PendingMatches, Store!flash, Store!numbers
<1>5. CASE Store!ActivatePending \/ Store!DiscardPending
  BY <1>5 DEF Store!ActivatePending, Store!DiscardPending
<1>6. CASE UNCHANGED storeVars
  BY <1>6 DEF storeVars
<1> QED
  BY <1>0, <1>1, <1>2, <1>3, <1>4, <1>5, <1>6
     DEF StoreStep, Store!Next, Store!StoreSteps

LEMMA AppliedWhole ==
  ASSUME TypeOK, Applied, [Next]_vars
  PROVE  Applied'
<1> SUFFICES ASSUME step' \in Store!Applying
             PROVE  payload' = Text(config')
  BY DEF Applied
<1> USE DEF Store!Applying
<1>1. CASE PayloadComplete
  <2>1. PICK b \in Bytes :
          /\ Reads(b)
          /\ \/ \E c \in Configs :
                  /\ ChecksumMatches(Append(payload, b)) /\ expected[1] = c
                  /\ Store!Apply(c)
                  /\ payload' = Append(payload, b)
             \/ UNCHANGED storeVars
    BY <1>1 DEF PayloadComplete
  <2>2. step = "run"
    BY <2>1 DEF Reads
  <2>3. PICK c \in Configs :
          /\ ChecksumMatches(Append(payload, b)) /\ expected[1] = c
          /\ Store!Apply(c)
          /\ payload' = Append(payload, b)
    BY <2>1, <2>2 DEF storeVars
  <2>4. PICK d \in Payloads : expected = <<d, d>> /\ payload' = Text(d)
    BY <2>3 DEF ChecksumMatches
  <2>5. d = c /\ config' = c
    BY <2>3, <2>4 DEF Store!Apply
  <2> QED
    BY <2>4, <2>5
<1>2. CASE StoreWorks
  BY <1>2 DEF StoreWorks, Applied, Store!WritePending,
     Store!PendingMatches, Store!ActivatePending, receiver, Text
<1>3. CASE StoreRefuses \/ StoreConfirms \/ Boots \/ PowerLoss
  BY <1>3 DEF StoreRefuses, StoreConfirms, Boots, PowerLoss,
     Store!DiscardPending, Store!ConfirmAndRestart, Store!Begin,
     Store!PowerLoss
<1>4. CASE ReadPayload \/ HandleCommand \/ ReadLine
  BY <1>4 DEF ReadPayload, HandleCommand, ReadLine, Reads, storeVars
<1>5. CASE \/ HostSends \/ HostRetries \/ HostEnds \/ LoseByte \/ Settle
           \/ \E c \in Payloads : HostBegins(c)
  BY <1>5 DEF HostSends, HostRetries, HostEnds, LoseByte, Settle, HostBegins,
     Applied, storeVars, receiver, Text
<1>6. CASE UNCHANGED vars
  BY <1>6 DEF vars, Applied, storeVars, receiver, Text
<1> QED
  BY <1>1, <1>2, <1>3, <1>4, <1>5, <1>6 DEF Next, Device

\* Only an activation leads to a confirmation, and by then the slot that its
\* number names was read back.
LEMMA ConfirmedStored ==
  ASSUME TypeOK, ComparedInv, Applied, Confirmed, [Next]_vars
  PROVE  Confirmed'
<1> SUFFICES ASSUME step' = "confirm" PROVE payload' = Text(Store!Stored')
  BY DEF Confirmed
<1>1. CASE StoreWorks
  <2>1. Store!ActivatePending /\ payload' = payload
    BY <1>1 DEF StoreWorks, Store!WritePending, Store!PendingMatches, receiver
  <2>2. /\ activeKey' = pendingSlot /\ slots' = slots
        /\ slots[pendingSlot] = config /\ config \in Configs
        /\ payload = Text(config) /\ pendingSlot \in Store!Slots
    BY <2>1 DEF Store!ActivatePending, ComparedInv, Applied, Store!Applying,
       TypeOK, Store!TypeOK
  <2>3. Store!Stored' = config
    BY <2>2, ProvisioningAssumption
       DEF Store!Stored, Store!FoundSlot, Store!Decoded, Store!Slots,
           Store!Unset
  <2> QED
    BY <2>1, <2>2, <2>3
<1>2. CASE PayloadComplete
  <2>1. step = "run" /\ step' \in {"run", "write"}
    BY <1>2 DEF PayloadComplete, Reads, Store!Apply, storeVars
  <2> QED
    BY <2>1
<1>3. CASE StoreRefuses \/ StoreConfirms \/ Boots \/ PowerLoss
  BY <1>3 DEF StoreRefuses, StoreConfirms, Boots, PowerLoss,
     Store!DiscardPending, Store!ConfirmAndRestart, Store!Begin,
     Store!PowerLoss
<1>4. CASE ReadPayload \/ HandleCommand \/ ReadLine
  BY <1>4 DEF ReadPayload, HandleCommand, ReadLine, Reads, storeVars
<1>5. CASE \/ HostSends \/ HostRetries \/ HostEnds \/ LoseByte \/ Settle
           \/ \E c \in Payloads : HostBegins(c)
           \/ UNCHANGED vars
  <2>1. UNCHANGED <<slots, activeKey, step, payload>>
    BY <1>5 DEF HostSends, HostRetries, HostEnds, LoseByte, Settle, HostBegins,
       vars, storeVars, receiver
  <2> QED
    BY <2>1 DEF Confirmed, Store!Stored, Store!FoundSlot, Store!Decoded, Text
<1> QED
  BY <1>1, <1>2, <1>3, <1>4, <1>5 DEF Next, Device

\* applyReceivedConfig() (esp32_voice_kit.ino) hands nothing to the store but
\* the bytes that were announced: not a payload put together from two attempts,
\* or one that lost a byte on the way.  And when it is about to confirm, those
\* bytes are in the slot the next start reads, whatever the flash did: written
\* wrongly, not read, or its number in doubt.
THEOREM InstallsOneHostsConfig == Spec => []OneHostsConfig
<1>1. Init => ComparedInv /\ OneHostsConfig
  BY DEF Init, Store!Init, OneHostsConfig, ComparedInv, Store!Applying
<1>2. TypeOK /\ ComparedInv /\ OneHostsConfig /\ [Next]_vars => OneHostsConfig'
  <2> SUFFICES ASSUME TypeOK, ComparedInv, OneHostsConfig, [Next]_vars
               PROVE  Applied' /\ Confirmed'
    BY DEF OneHostsConfig, Applied, Confirmed
  <2> QED
    BY OneHostsParts, AppliedWhole, ConfirmedStored
<1> QED
  BY <1>1, <1>2, ComparedStep, TypeInvariant, PTL DEF Spec
=============================================================================
