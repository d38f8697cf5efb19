---------------------------- MODULE Provisioning ----------------------------
(***************************************************************************)
(* readProvisioningSerial(), handleCommand() and applyReceivedConfig() of  *)
(* esp32_voice_kit.ino over the store of module ConfigStore, with a host   *)
(* on the serial line that may be interrupted and tries again.             *)
(*                                                                         *)
(* The host announces a configuration with one line that carries the       *)
(* payload's size and SHA-256, waits for the device to ask for it, and     *)
(* sends the payload.  What it sends for c is cut into Parts: part 1 and   *)
(* part 2 are the command's line, part 2 ends with the line feed, the      *)
(* others are the payload.  Two attempts at c send the same bytes.         *)
(***************************************************************************)
EXTENDS Naturals, Sequences

CONSTANTS
  Configs, None, Garbage, Faults, \* as in ConfigStore; a payload of Garbage
                                  \* has a good digest and does not decode
  PayloadSize,   \* parts of a payload
  MaximumLine,   \* parts a command line may have (160 bytes)
  WireSize       \* bound: parts on the serial line and in its buffer

ASSUME ProvisioningAssumption ==
  /\ Garbage \notin Configs
  /\ PayloadSize \in Nat \ {0} /\ MaximumLine \in Nat \ {0}
  /\ WireSize \in Nat \ {0}

VARIABLES
  slots, activeKey, activeSlot, pendingSlot, pending, ready, running, step,
  config, answer,        \* of ConfigStore
  line,                  \* command_line
  payload,               \* config_payload
  expected,              \* expected_payload_size and expected_sha256
  wire, reply,           \* to the device, and what it said last
  sending, part,         \* the host: its configuration, the part to send next
  settled                \* nothing is lost or interrupted from here on

Store == INSTANCE ConfigStore

storeVars == <<slots, activeKey, activeSlot, pendingSlot, pending, ready,
               running, step, config, answer>>
receiver  == <<line, payload, expected>>
host      == <<sending, part>>
vars == <<storeVars, receiver, wire, reply, host, settled>>

Payloads  == Configs \union {Garbage}
LastPart  == 2 + PayloadSize
Parts     == 1..LastPart
Bytes     == Payloads \X Parts
Text(c)   == [i \in 1..PayloadSize |-> <<c, 2 + i>>]
Replies   == {"none", "send_payload", "error", "configured"}

\* The receiver collects no more of a line or of a payload than it may.
TypeOK ==
  /\ Store!TypeOK
  /\ line \in Seq(Bytes) /\ Len(line) <= MaximumLine
  /\ payload \in Seq(Bytes) /\ Len(payload) <= PayloadSize
  /\ Len(payload) = PayloadSize =>
       step \in Store!Applying \union {"discard", "confirm"}
  /\ expected \in {<<>>} \union (Payloads \X Payloads)
  /\ wire \in Seq(Bytes) /\ Len(wire) <= WireSize
  /\ reply \in Replies
  /\ sending \in Payloads \union {None} /\ part \in 1..(LastPart + 1)
  /\ settled \in BOOLEAN

Init ==
  /\ Store!Init
  /\ line = <<>> /\ payload = <<>> /\ expected = <<>>
  /\ wire = <<>> /\ reply = "none"
  /\ sending = None /\ part = 1
  /\ settled = FALSE

-----------------------------------------------------------------------------
(* The receiver.                                                           *)

\* Mutant of ResetReceiver: the announced size and digest stay.
KeepExpected == payload' = <<>> /\ UNCHANGED expected

ResetReceiver == payload' = <<>> /\ expected' = <<>>

\* The store is idle, so the main loop reads a byte of the serial line.
Reads(b) ==
  /\ step = "run" /\ wire # <<>> /\ b = Head(wire)
  /\ wire' = Tail(wire)
  /\ UNCHANGED <<host, settled>>

\* A byte of a payload that is not its last.
ReadPayload ==
  \E b \in Bytes :
    /\ Reads(b)
    /\ expected # <<>> /\ Len(payload) + 1 < PayloadSize
    /\ payload' = Append(payload, b)
    /\ UNCHANGED <<storeVars, line, expected, reply>>

\* Mutant of ChecksumMatches: only the size is looked at.
SizeMatches(bytes) == expected[1] = expected[2] /\ Len(bytes) = PayloadSize

\* Two digests are equal if they are of the same bytes.  The announced one was
\* cut from two lines if the line was.
ChecksumMatches(bytes) ==
  \E c \in Payloads : expected = <<c, c>> /\ bytes = Text(c)

\* applyReceivedConfig(), from the last byte: the store begins, or the payload
\* is refused.
PayloadComplete ==
  \E b \in Bytes :
    /\ Reads(b)
    /\ expected # <<>> /\ Len(payload) + 1 = PayloadSize
    /\ \/ \E c \in Configs :
            /\ ChecksumMatches(Append(payload, b)) /\ expected[1] = c
            /\ Store!Apply(c)
            /\ payload' = Append(payload, b)
            /\ UNCHANGED <<expected, reply>>
       \/ /\ ~ChecksumMatches(Append(payload, b)) \/ expected[1] = Garbage
          /\ ResetReceiver
          /\ reply' = "error"
          /\ UNCHANGED storeVars
    /\ UNCHANGED line

\* handleCommand(): only a line that is a command, and a store to write to,
\* make the receiver wait for a payload.
IsCommand == Len(line) = 1 /\ line[1][2] = 1

HandleCommand ==
  \E b \in Bytes :
    /\ Reads(b)
    /\ expected = <<>> /\ b[2] = 2
    /\ line' = <<>>
    /\ IF IsCommand /\ ready
         THEN /\ expected' = <<line[1][1], b[1]>> /\ payload' = <<>>
              /\ reply' = "send_payload"
         ELSE reply' = "error" /\ UNCHANGED <<expected, payload>>
    /\ UNCHANGED storeVars

\* Any other byte outside a payload; a line that grows too long is dropped,
\* and what follows of it is taken for a new one.
ReadLine ==
  \E b \in Bytes :
    /\ Reads(b)
    /\ expected = <<>> /\ b[2] # 2
    /\ IF Len(line) >= MaximumLine
         THEN line' = <<>> /\ reply' = "error"
         ELSE line' = Append(line, b) /\ UNCHANGED reply
    /\ UNCHANGED <<storeVars, payload, expected>>

-----------------------------------------------------------------------------
(* The store, while the receiver waits for it.                             *)

StoreWorks ==
  /\ Store!WritePending \/ Store!PendingMatches \/ Store!ActivatePending
  /\ UNCHANGED <<receiver, wire, reply, host, settled>>

StoreRefuses ==
  /\ Store!DiscardPending
  /\ ResetReceiver
  /\ reply' = "error"
  /\ UNCHANGED <<line, wire, host, settled>>

\* The program ends: what the receiver had and what was not read is gone.
ProgramEnds == line' = <<>> /\ payload' = <<>> /\ expected' = <<>> /\ wire' = <<>>

StoreConfirms ==
  /\ Store!ConfirmAndRestart
  /\ ProgramEnds
  /\ reply' = "configured"
  /\ UNCHANGED <<host, settled>>

Boots ==
  /\ Store!Begin
  /\ UNCHANGED <<receiver, wire, reply, host, settled>>

-----------------------------------------------------------------------------
(* The host and the line.                                                  *)

HostBegins(c) ==
  /\ sending = None \/ ~settled
  /\ sending' = c /\ part' = 1 /\ reply' = "none"
  /\ UNCHANGED <<storeVars, receiver, wire, settled>>

HostSends ==
  /\ sending # None /\ part <= LastPart
  /\ part = 3 => reply = "send_payload"
  /\ Len(wire) < WireSize
  /\ wire' = Append(wire, <<sending, part>>)
  /\ part' = part + 1
  /\ UNCHANGED <<storeVars, receiver, reply, sending, settled>>

\* Refused, or left without an answer.  The host lets the line become quiet
\* first: an answer does not say what it answers, and a host that retries on
\* the first error may take the one of its last attempt for the next one's.
HostRetries ==
  /\ sending # None /\ reply # "configured"
  /\ part > LastPart \/ (part = 3 /\ reply # "send_payload")
  /\ wire = <<>> /\ step = "run"
  /\ part' = 1 /\ reply' = "none"
  /\ UNCHANGED <<storeVars, receiver, wire, sending, settled>>

HostEnds ==
  /\ sending # None /\ reply = "configured"
  /\ sending' = None /\ part' = 1
  /\ UNCHANGED <<storeVars, receiver, wire, reply, settled>>

\* A byte is lost: the UART's buffer overflows while the main loop is busy.
LoseByte ==
  /\ ~settled
  /\ wire # <<>> /\ wire' = Tail(wire)
  /\ UNCHANGED <<storeVars, receiver, reply, host, settled>>

PowerLoss ==
  /\ ~settled
  /\ Store!PowerLoss
  /\ ProgramEnds
  /\ UNCHANGED <<reply, host, settled>>

Settle ==
  /\ ~settled /\ settled' = TRUE
  /\ UNCHANGED <<storeVars, receiver, wire, reply, host>>

-----------------------------------------------------------------------------
Device ==
  \/ ReadPayload \/ PayloadComplete \/ HandleCommand \/ ReadLine
  \/ StoreWorks \/ StoreRefuses \/ StoreConfirms \/ Boots

Next ==
  \/ Device
  \/ HostSends \/ HostRetries \/ HostEnds
  \/ \E c \in Payloads : HostBegins(c)
  \/ LoseByte \/ PowerLoss \/ Settle

Spec == Init /\ [][Next]_vars

\* loop() runs, and the host does not stop in the middle.
FairSpec ==
  Spec /\ WF_vars(Device) /\ WF_vars(HostSends) /\ WF_vars(HostRetries)

-----------------------------------------------------------------------------
\* A host that keeps trying gets its configuration into the device, however
\* earlier attempts were interrupted: the receiver has no timeout, so the
\* first attempts may be swallowed as the rest of a payload that will never be
\* complete, and it has to find back to the beginning of a line by itself.
RetrySucceeds == settled /\ sending \in Configs ~> reply = "configured"

\* The device installs only what one host sent as a whole: no payload put
\* together from two attempts at different configurations.  And what it is
\* about to confirm is what it received and what its next start finds, whatever
\* the flash did meanwhile.
OneHostsConfig ==
  /\ step \in Store!Applying => payload = Text(config)
  /\ step = "confirm" => payload = Text(Store!Stored)
=============================================================================
