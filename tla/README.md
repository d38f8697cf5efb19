# A verification of the QH voice kit

TLA+ models of the firmware in `src/firmware/esp32_voice_kit`, TLC runs that
check them on small instances, and TLAPS proofs for every value of their
constants. Paths below are relative to that directory unless they start with
`src/`; `.ino` is `esp32_voice_kit.ino`.

The kit is a push-to-talk assistant on an ESP32-S3 board: while a button is
held, microphone audio is streamed over a WebSocket to a realtime speech
service; the spoken reply comes back over the same socket and is played through
a speaker. Microphone and speaker share one I2S bus. The configuration comes
over the serial port and is kept in flash.

## 1. Inventory

Two things run: the Arduino **main loop** (`loop()`, `.ino:678-685`), which
calls its service functions in a fixed order for ever, and the **playback task**
on the other core. Everything but seven atomics and one FreeRTOS stream buffer
is touched by the main loop alone.

| Component | State it keeps | Operations | Module |
|---|---|---|---|
| Session state machine (`voice_turn_state.h`) | one of nine states | `apply(event)` | `VoiceTurnState` |
| Main loop (`.ino`) | flags of the turn, bus ownership, starting times of deadlines, the shown view | `serviceNetworkRuntime`, `serviceProvider`, `serviceButton`, `serviceRecording`, `failRuntime` | `VoiceRuntime` |
| Realtime transport (`realtime_voice_transport.h`, `websocket_disconnect_diagnostic.h`) | status, queue of at most 48 parsed events, why the last connection ended | `begin`, `loop`, `popEvent`, `beginInput`, `sendPcm16`, `commitInput`, `muteInput`, `close`, the socket's events | `VoiceRuntime`, `RealtimeLink`, `WebSocketClient` |
| WebSocket client (`src/qh_websockets`, vendored; `diagnostic_websockets_client.h`) | socket object, handshake headers, the frame under way | connect, upgrade, read a frame, send, notice a loss, reconnect | `WebSocketClient`; `link` in `VoiceRuntime` |
| Playback (`buffered_pcm_playback.h`) | `active_ input_done_ playing_ drained_ failed_ busy_`, the stream buffer | `beginTurn`, `enqueue`, `finishInput`, `cancel`, `taskLoop` | `BufferedPlayback`; its flags in `VoiceRuntime` |
| Button debouncer, frame pacer (`button_debouncer.h`, `audio_frame_pacer.h`) | levels and times | `update`, `reset`, `due` | `PushToTalk` |
| Configuration store (`config_transaction.h`, `preferences_config_store.h`) | two slots in flash and the number of the active one | `applyDeviceConfig`: write, read back, activate, or discard | `ConfigStore`, `ConfigRegister` |
| Serial provisioning (`.ino:574-652`, `provisioning_command.h`) | a line, a payload, the announced size and digest | `readProvisioningSerial`, `handleCommand`, `applyReceivedConfig` | `Provisioning` |
| Configuration's wire form (`device_config_wire.h`, `device_config.h`) | none | encode, decode, validate | `ConfigWire`, `Formats` |
| Audio and frame formats (`realtime_voice_protocol.h`, `pcm_audio.h`, `WebSockets.cpp`) | none | base64, PCM conversions, length of a frame | `AudioCodec`, `Formats` |
| Scripts (`src/scripts`) | build directory, releases with their manifests, the board | compile, pack a release, development cycle | `ReleaseCycle` |
| Realtime messages (`json_string.h`, `realtime_voice_protocol.h`) | none | escape and build the device's messages, find members in the server's events | `RealtimeMessages`, `Formats` |
| Wording of diagnostics, drawing on the display, QH synchronisation, unused provider protocols | none or little | conversions, one-off requests | not modelled, see 7 |

How they interact:

- `loop()` → service functions → `apply()`; every failure ends in `failRuntime()`
  (`.ino:141-148`), which stops the bus, closes the transport, enters `kError` and
  shows it. It has more than twenty callers, in sessions and outside.
- The WebSocket client calls back into the transport during
  `realtime_transport.loop()`; the transport queues parsed events, and
  `serviceRealtimeEvents()` drains them in the same pass.
- The first audio of a reply takes the bus from whoever has it
  (`startSpeaker()`), begins a playback turn and enqueues; the playback task
  drains the stream buffer into the bus and reports back through `drained_` and
  `failed_`, which `serviceProvider()` polls.
- The client reports a loss in the middle of a callback the transport is in, and the
  transport may disconnect in the middle of a callback of the client's.
- Provisioning runs the store's transaction inside the main loop and restarts
  the device when it succeeds.
- The scripts share a build directory and directories of releases, and take a
  release's manifest for what is on the board.

What is hard in it, and where the properties are aimed (`PROJECT.json` lists each
hazard at its line):

- *two cores without a lock*: the order in which `cancel()` and the task touch
  `active_` and `busy_`, and the decisions the task takes on a count it read
  earlier;
- *one function for every failure*: what `failRuntime()` leaves behind, wherever
  it is called from;
- *events without a turn number*: late, stray or missing parts of a reply, and
  the three conditions (reply done, audio done, drained) that end a turn in any
  order;
- *timeouts against late answers*: deadlines as differences from starting times
  stored by other functions;
- *power loss between two writes to flash*, and flash that fails;
- *a serial receiver without a timeout*: interrupted hosts and lost bytes;
- *a millisecond counter that wraps*;
- *one client object for all connections*: header lines, a frame broken off, a close
  hint of one connection that reach the next;
- *lengths that come from outside*: a packet cut, repeated or altered, audio that
  ends in the middle of a group, the limits between the forms of a length;
- *free text inside messages*: events are not parsed but searched for the names of
  members, which a text may contain;
- *tools that stop anywhere*: a manifest that stands for a board which nobody reads.

What makes each component correct: one owner of the bus, and nothing left of a
session outside it (main loop); nothing half done between passes (transport);
audio played once, in order, and never to a removed driver (playback); edges
neither bounced nor missed, and recordings within their limits as long as the microphone has the bus (button); the old
configuration or the new one, whole (store); only what one host sent is installed,
and one that keeps trying gets through (provisioning); a status that never promises
more than the connection, and every loss reported with a reason that belongs to it (client); what
is read is what was written, and damage is noticed (formats); a manifest that
describes its release, and an application that fits the board (scripts).

## 2. Modules

**`VoiceTurnState`** is the table of `VoiceTurnMachine::apply()` as an operator.

**`VoiceRuntime`** is the main loop. `phase` says which part of `loop()` runs
next: `network` is `serviceNetworkRuntime()`, `socket`, `events` and `tail` are the
three parts of `serviceProvider()` (the transport's `loop()`; the events; the
checks of connection, status, playback, deadline and completion), `button` and
`recording` are the last two service functions. Each part is one atomic step
(`events` takes one step per event), with one action per outcome, and between
any two of them the environment may act. The part of `loop()` that reads the
serial port is `Provisioning`'s.

- *Deadlines.* `due` is the set of deadlines that have passed. `Started(T)` says
  that the code stores the starting times of `T`; every other deadline belongs to
  a state that is being left and is taken to have passed, which is the worst a
  stale starting time can be. What the code stores is therefore essential:
  a forgotten store is a deadline that has passed already (`FreshDeadlines`).
- *The playback* appears as the four flags the main loop reads. `PlaybackDrains`
  and `PlaybackBreaks` are the task, which sets them at any time.
- *The server* is `srv` (where it is in a reply) and `srvOpen` (unmuted).
  `StrayServer = FALSE` is one that follows the protocol, falls silent or is
  cut off; `TRUE` is one that sends any event at any time. A send fails in one of two
  ways: a write that times out leaves half a frame on an open connection, after which
  the server understands nothing (`jammed`); and a send over a lost connection finds
  the loss itself, in `clientIsConnected()`, so that the transport is disconnected
  before the call returns (`SendFindsLoss`). The mute of a recording that was too short
  is sent after the state has become Idle and nobody looks at its result (`.ino:225`):
  a loss it finds is the one thing that waits for the next `serviceProvider()`
  (`MuteFoundLoss`).
- *The display* is the view that was last shown; `ShowReplyText` is the option that
  covers it with the transcript.
- *Faults*: power, Wi-Fi, connection, sends, audio hardware, refused provider.

**`BufferedPlayback`** is the playback object with one step per load, store or
stream buffer call of either core. The main loop's side is the sequence of calls
`.ino` makes: install the bus, `beginTurn()`, `enqueue()`s, `finishInput()`, and at
any time `cancel()` and removal of the bus. Audio is counted in units that
carry their turn and number; `played` and `sent` are history variables. One
named assumption and one history variable say what the code relies on and does not
check:

- `CancelGivesUp = FALSE`: the I2S write of the task ends within the 300 ms that
  `cancel()` waits (`buffered_pcm_playback.h:98`). With `TRUE`, `NoWriteOffBus` fails.

`settled` is a history variable: the turn began with the task off the last one, as it
has after the 300 ms that a recording lasts at least. The properties about the end
and the start of a turn are stated of settled turns; of others they fail (a task
still inside `finishDrain()` of the last turn marks the new one drained). The rest
holds of all turns.

**`PushToTalk`** has one step per reading of `millis()`, a counter modulo
`ClockSize`. `held`, `age` and `gap` are history variables with the real times; the
properties compare what the code concludes from the counter with them. `mic` is
`microphone_running`: audio nobody waits for may take the bus during a recording
(`SpeakerTakesBus`), and `serviceRecording()` then returns before it looks at the time
(`.ino:245`), so that such a recording has no maximum any more. It ends when the button
is released, or by a failure.

**`ConfigRegister`** is what the store promises: an atomic register that confirms
a configuration only when it is installed and refuses it only when it is not.
**`ConfigStore`** is `applyDeviceConfig()` over the two slots with one step per
access to flash, power that may go between any two, and a list of faults. Two of
them leave the active slot's number in doubt: its write takes effect and is reported
as failed (`ambiguous`), and its read fails, for which `getUChar("active", 0)` gives
slot 0 (`misread`, `preferences_config_store.h:17`). Under either the device may run
with the other slot and overwrite the one in use, so that the register is claimed
without them only; what is confirmed is stored under them too. The
wire form is one to one (`ConfigWire`) and is not spelled out here. Its refinement mapping calls
stored whatever the next start would run with.

**`Provisioning`** composes the serial receiver with `ConfigStore` (`Store ==
INSTANCE ConfigStore`). What the host sends is cut into parts: two for the command
line, `PayloadSize` for the payload. A digest is equal exactly when the bytes are.
Hosts may be replaced in the middle, bytes lost, the power cut, until the line
`settles`. The host is not in the repository; it is modelled as one that waits
for `send_payload` and, when it gets no good answer, waits until the line is quiet
and starts over.

**`RealtimeLink`** is what the main loop takes the transport for: a status and a
link, and which changes of the two may come from where. `VoiceRuntime` takes only
steps of it (`DrivesLink`, proved), and **`WebSocketClient`** implements it
(`ImplementsLink`, checked and proved): the transport, the diagnostic client and the vendored
client as one record `c`, whose fields are theirs. A call of `loop()` is cut where the network may act
(`pc`); a chain of callbacks inside one call is a composition of operators from
records to sets of records, in the order of the code: `HeaderEnds` calls
`OnConnected`, which calls `SendText`, which may find the connection gone and call
`Drop`, which calls `OnDisconnected`. `got` records what really happened on the
connection; nothing in the code reads it. What the firmware switches off or never
reaches is left out: heartbeats, socket.io, extra headers, the `Stream` API. A
fragmented message is a frame the transport ignores, as in the code.

Four places where the code differs from what one would expect are modelled as
they are: `cIsWebsocket` is set by `begin()` although `WebSockets.h` describes it as
a result of the response; a response whose status line cannot be read may still be
reported as `handshake_http`; a header of a frame that does not arrive in time is
reported as `unknown_disconnect`; and the deadline of the upgrade is a sum that may
wrap, so that it may pass early. That it may also pass much later is left to the
runtime's own deadline (`AttemptsEnd`). The main loop begins a connection only when
none is under way (`Live`), which is the only way `serviceNetworkRuntime()` gets
there.

**`ConfigWire`** and **`AudioCodec`** are conversions as pure operators: the
configuration's packet with all its error paths in their order, base64, the two PCM
conversions, the length in front of a WebSocket frame (written by `createHeader()`,
sized by `sendFrame()`, read by `handleWebsocketCb()`). **`RealtimeMessages`** is the
JSON: what the device writes, and how it looks for members in what the server
writes. A text is a sequence of characters, but the name of a member or an event
counts as one (and `transcription.` stands for the longer names of its events),
since it matters whole or not at all; what a search may not find is a set with
one element or none. **`Formats`** puts one item at
a time through them, perhaps damaged once on the way, and states what must come
out; **`MCFormats`** chooses the items. A character of base64 may become one outside the
alphabet, padding, or another letter, which no reader can notice. Texts of a configuration are short: only
their length, and whether one is what is asked for, matters. The service's events are
external: it writes the type first, may precede a member by another free text in the
same object, and may escape what is not ASCII. In another order (a member between
the text and the one that is looked for, or a nested type before the event's own) a
text that ends in a quote and a name would be taken for the member
(`json_string.h:130`); nothing in the repository says that the service writes so.

**`ReleaseCycle`** is `compile.sh`, `candidate_release.py` and `dev_cycle.py` with the
build directory, the releases and the board they share, one step per file. Images are
what they were compiled from. Every tool may stop anywhere; the developer edits at any
time. Writing a whole release to the board is done by a tool outside the repository
and is marked external. `Alone` says that no two tools run at once: with `FALSE`,
`ReleaseDescribed` fails, since a compilation between the digest and the copy of a
file goes unnoticed (`src/scripts/candidate_release.py:66-72`), and nothing prevents
it. Packing is modelled after a compilation that succeeded, as the scripts' users are
told, and the baseline of a cycle is the release that was installed: the script
cannot check it.

## 3. What the runs check

| Run | What it shows |
|---|---|
| `runtime_stray` | For a server that sends anything at any time, and every fault: the bus has one owner and the task runs only under the speaker (`BusOwnership`); outside a session nothing of one is left (`Quiesced`); `serviceProvider()` leaves nothing half done and the states in which the user can talk have a ready session, but for a loss that a mute found since (`ProviderSettled`); the server is muted outside recordings (`MutedOutsideRecording`); a recording runs only while the button is down (`RecordingNeedsPress`); deadlines start afresh (`FreshDeadlines`); a turn ends only after `response.done` and with its audio drained (`NoTruncatedTurn`); the loop takes only steps of `RealtimeLink` (`DrivesLink`). |
| `runtime_session` | For a server that follows the protocol or falls silent, and every fault but a restart: no part of a reply is handled outside a turn and the device is half duplex (`ReplyOnlyWhenAsked`); the screen agrees with the state (`DisplayAgrees`); recordings and replies end by themselves (`EveryTurnEnds`), and so do connection attempts and the error state (`AttemptsEnd`). |
| `runtime_stale_failure` | *Finding*, see 5. |
| `playback_any_schedule` | For every interleaving: no write off the bus (`NoWriteOffBus`); nothing lost, repeated, reordered or left over (`Conserved`); a settled turn is drained only after its input was finished (`DrainedAfterInput`) and starts prebuffered (`StartsPrebuffered`); a finished turn ends if the scheduler runs the task (`TurnDrains`); `enqueue()` returns even if the task is stuck (`EnqueueReturns`). |
| `playback_drained` | *Finding*, see 5. |
| `push_to_talk` | Edges come after the debouncing time and not before, and by the first pass after it (`Debounced`); no recording is sent that is too short, and none goes on past its maximum and one pass while the microphone runs (`RecordingWithinLimits`); frames keep their distance, and nothing left of the last recording holds one back (`FramesSpaced`). All of it wherever the counter wraps. |
| `config_store` | The two slots implement the register under power loss and every fault but `ambiguous` and `misread` (`ImplementsRegister`); the device runs with what is stored (`RunsWhatIsStored`). |
| `provisioning_safe` | What is installed is what one host sent as a whole, and what is confirmed is what the next start finds, with interruptions and a store that may fail, `ambiguous` and `misread` included (`OneHostsConfig`). |
| `provisioning_retry` | A host that keeps trying gets its configuration installed, although the receiver has no timeout (`RetrySucceeds`). |
| `websocket` | Wherever the connection breaks, a write or a read times out or the queue fills: frames are read only after an upgrade that this connection's own lines accepted (`Established`); the status promises no more than the connection (`StatusTruthful`); no socket is leaked or survives `close()` (`ClosedMeansClosed`); frames are read from their beginning, and go on being read (`InSync`); what a reason stands for was so on this connection, where `frame_receive_failed` says that a frame was in hand, broken off or not (`Diagnosis`); attempts end and losses reach the status (`FailureReported`); all of it implements `RealtimeLink` (`ImplementsLink`). |
| `formats` | A valid configuration comes out as it went in, an invalid one does not (`ConfigArrives`); a cut, extended, repeated or incomplete packet is refused and an altered one leaves a configuration that can be stored again (`DamageNoticed`); audio survives base64; text that was cut, or has a character outside the alphabet, yields at most a beginning of it, and a letter taken for another harms only its own group (`AudioArrives`); no sample changes its sign or becomes louder (`SamplesKept`); the three places that know the length of a frame's header agree (`FramesAgree`); whatever the free texts hold, a message holds the strings that were put into it, and of an event the type and the content are found, or the content is missing, never another (`MessagesRead`). |
| `release_cycle` | A manifest describes its release (`ReleaseDescribed`); the baseline describes what lies beside the application on the board, and a whole application fits it (`BoardCoherent`). |

Each property has a mutant in the module it is about: a definition that changes
one action the way a bug would, which makes the run find the property violated.
They stand before the definitions they change and are marked as mutants. The type
invariants of `VoiceRuntime`, `BufferedPlayback`, `PushToTalk`, `ConfigStore`,
`Provisioning` and `WebSocketClient`, and `PlayedInOrder` (which says of all states of a turn what
`Conserved` says of an active one), are in no run because they are proved.

### Bounds

- `MaximumQueuedEvents = 2` for 48: the client reads at most one frame per pass and
  the pass drains the queue, so that its length never exceeds 1
  (`ProviderSettled`, proved for every limit above 1).
- Playback: `Capacity 4, Watermark 3, Chunk 2`, so that a buffer can be full, a
  chunk short, and the watermark is neither the chunk nor the capacity;
  `MaxAttempts 2` for 8; two turns, the least that can mix; six units per
  turn, more than the buffer holds. The proofs cover every other value.
- `PushToTalk`: a stall as long as the debouncing time and the period, a recording
  longer than a period, and a counter only a little larger than the longest
  difference, so that it wraps within most of them. `age` stops at `Aged`, past which
  no property tells two ages apart: a recording without microphone has no end.
- Store: two configurations, the least that can be confused. Provisioning: a
  payload and a line of two parts, so that each can be cut; one or two parts
  on the line; `provisioning_retry` has one configuration and a corrupt one, since
  old and new attempts at the same bytes are the hardest to tell apart, and
  working flash, since a host cannot get through to flash that always fails.
- `WebSocketClient` has no counters to bound: a frame is one of every kind
  that the code tells apart (`MCFrames`), and any number of them may follow.
- `Formats`: packets of up to `MaxHarmed = 80` bytes are damaged at every place, which
  is every packet of short texts; longer ones, at the limit of 255 bytes of a length's
  lower half and of 8192 bytes of a packet, go through undamaged. Audio of up to nine
  bytes, three groups of base64, with the samples at the ends of their range; of a text
  each character may become padding, one outside the alphabet, or one of four letters
  (`SymbolsTried`; the proof covers all). Frame
  lengths at both sides of 126 and 65536 and up to 2^31-1, where TLC's integers end;
  the proof goes up to 2^32. Free texts of messages are all those of up to two of
  thirteen characters: what JSON gives a meaning, a control character with no letter of its
  own, one outside ASCII, one beyond 16 bits, and names of members, so that a text
  that ends in a quote and a name, or in a backslash, occurs; and two longer ones.
- `ReleaseCycle`: two releases, so that one can replace another; two images beside the
  application; three edits, of which one moves the application's partition, so that
  a baseline can be older than the board, the board older than the build, and the
  build older than the sources.

### Fairness

- `VoiceRuntime`: `WF(MainLoop)`, since `loop()` is called for ever and none of its
  parts blocks for ever (sockets and buffers have timeouts); `WF(TimePasses)`. Nothing is
  assumed of the server, the user, Wi-Fi or the playback task: the deadlines
  alone have to end things.
- `BufferedPlayback`: the run's specification assumes `WF(EnqueueNext)` alone, that
  a call of `enqueue()` runs on, so that the task may be stuck. That the scheduler runs
  the task is the premise of `TurnDrains`, the one property that needs it.
- `Provisioning`: `WF` of the device and of the host's sending and retrying, after
  interruptions have stopped.
- `WebSocketClient`: `WF(Loop)`, since the main loop goes on calling it, and
  `WF(TimePasses)`. Nothing is assumed of the server and the network.

## 4. What is proved

Eight modules hold theorems. None of them uses a bound of the runs, with one exception:
`Formats_proofs` needs that packets that are harmed are shorter than 65536 bytes. Every module
proves its invariant in the same way: it holds initially, one lemma per part of the
next-state relation shows that it is kept, and the properties follow from it.

- **`VoiceRuntime_proofs`**, for every queue limit above 1, server and set of faults:
  all properties of `runtime_stray`, and `TypeOK`; and for every server that follows
  the protocol, `ReplyOnlyWhenAsked` and `DisplayAgrees`. The inductive
  invariant has four parts. `SessionInv`: events are queued only
  between the socket and the end of the events part; a talking state has a status that
  is ready or about to be turned into a failure; a session that was opened has a
  link. `HeldAndMuted`: a server that listens outside a recording has been cut off
  in the middle of a message, and its link is still up, which is why the mute that
  `finishRecording()` sends without looking arrives, ends the server's
  understanding, or finds that there is no server any more. `FlowInv`: a drained turn is over, and a device that left the setup is
  configured. `DialogInv` ties the server's script to the device's: while the server
  owes an answer, or a part of one is in the queue, the device waits for it, and the
  mark that `response.done` leaves is cleared before the next question. The main lemma is that `failRuntime()`, called with the playback running
  only under the speaker, leaves nothing behind. `DrivesALink` is a refinement: each
  step is one of `RealtimeLink` or changes neither status nor link.
- **`BufferedPlayback_proofs`**, if `cancel()` does not give up: `TypeOK`,
  `NoWriteOffBus`, `Conserved`, `PlayedInOrder`, `DrainedAfterInput` and
  `StartsPrebuffered` under every schedule. `Control` ties the two program counters to
  the flags: `BusyInv` says that
  past `cancel()`'s wait the task is before its second look at `active_`, which is
  what makes the store-then-look pattern of both sides work; `AudioInv` and
  `CountInv` bound what each holds. `OrderInv` is about sequences. `SettledInv` follows a
  settled turn: until it is active the task does not leave its look, and what
  the task counted is in the buffer still when it starts.
- **`PushToTalk_proofs`**: all properties of the run for every size of the counter
  that exceeds a recording with its stalls. A few lemmas open the unsigned
  difference; the invariant then equates it with the real time in three places
  (recording, unsettled level, last frame). The first of them is kept while the
  microphone runs; of a recording that lost it only the minimum is claimed.
- **`ConfigStore_proofs`**: `TypeOK`; under every fault, that a configuration is
  confirmed only if it is what the next start finds (`ConfirmsOnlyStored`);
  `RunsWhatIsStored` and the refinement of `ConfigRegister`, if the active slot's
  number is never in doubt (`Definite`: neither `ambiguous` nor `misread`). The
  invariant says where an application is, what it has written and read back, and,
  under `Definite`, that before the activation the pending slot is never the active one.
- **`Provisioning_proofs`**, for every size of payload and line and every set of
  configurations and faults: `TypeOK`, the limits of the receiver; `OneHostsConfig`,
  for which it is enough that the store is handed a payload whose digest was
  announced, that the receiver reads nothing while the store works, and that every
  step is one of the store's or leaves it alone, so that `ConfirmsOnlyStored` holds
  behind the serial line.
- **`WebSocketClient_proofs`**, for every set of frames: `TypeOK`, `Established`,
  `StatusTruthful`, `ClosedMeansClosed`, `InSync`, `Diagnosis`. Since a step is a chain of
  operators, there is one lemma per operator, which says what it keeps of a record
  that is `Fine`, and the step cites them in the order of the calls. For `Diagnosis`,
  which relates the reason to what has happened on the connection, `Carries` says that no
  hint is left over and that whatever the next reason may rest on has happened; `Tells`
  composes along the calls. `ImplementsLink`
  goes the same way: another lemma per operator says what it makes of status and link,
  and each step, taken through its chain of calls, is one of `RealtimeLink` or changes
  neither.
- **`Formats_proofs`**: `AudioArrives` for audio of every
  length, wherever it was cut and whichever character became whichever other;
  `SamplesKept` for every
  word, sample and volume; `FramesAgree` for every length below 2^32. The
  lemmas give the place of each byte in its group of four characters, so that a letter
  reaches no byte of another group, and bound what it does to the padding.
  `ConfigArrives` and `DamageNoticed` for every configuration, every place and every
  wrong byte. A packet is `Planned`: each field begins where the one before ends and has its
  id, its length and its text there. An input that agrees with a packet as far as both go is
  read along that plan (`RoundReads`), so that after round `i` the cursor is at the end of
  field `i` and exactly the values of the first `i` fields have been read (`Followed`,
  `Gathered`). Hence a packet that was cut or extended ends elsewhere than its input, one
  with a field twice has a round that refuses it, and one without a field leaves it
  unread. What is read takes at most the room the cursor has passed (`RoundStates`), for a number
  has no fewer digits than `std::to_string()` writes of it: that is why what was accepted
  once fits when it is stored again (`StoredAgain`). That the harmed packets are shorter
  than 65536 bytes (`InputsAssumption`) is no bound of the code's input: `appendConfigField()`
  keeps 16 bits of a length, so that in a longer packet a field may hold others, and no reader
  would notice that it was cut. All packets the decoder does not refuse for their size are
  shorter; packets that arrive whole are of any length.
  `MessagesRead` for free texts of any length and any characters. What a character is escaped
  as has one of four forms (`ChunkIs`), and each is read as that character wherever it stands,
  except for two halves, which are not read at all (`ChunkRead`); so a text between its
  quotation marks is found wherever it stands, with the place behind it (`SpelledRead`).
  Within such a text no name can end, for every quotation mark in it has a backslash before it
  (`NoNameInText`); but a name may end with the mark that closes the text, and is then
  found before the member that is meant. What follows is what makes that harmless in these
  events: behind such a name the next colon is the one of the member that is looked for, or
  there is none (`PlaceIs`, `PlaceWithin`). The events are taken apart by their fragments
  (`OneLaid`, `TwoLaid`, `StatusLaid`), the names that stand in each are counted, and the content
  is found by its own name and not by another (`FoundAlone`, `FoundInTwo`, `StatusFound`).
  For the device's messages, `ReadsOn(s, w, a, b)` says that a fragment `s` has the strings of `w`
  from `a` to `b`, wherever it stands; it composes along members and objects. Assumed are, in
  `UnicodeAssumption`, that `appendUtf8()` refuses the halves of a surrogate pair
  and that every control character without a letter has its digits, which is what
  `snprintf("\\u%04x")` writes; and in `InputsAssumption`, that a character beyond 16 bits
  is escaped as two such halves, the first of them `d8` to `db`, and that digits are a number of JSON,
  with no zero before others. The order of members is the service's, as in the model.
- **`ReleaseCycle_proofs`**, if the tools are run one after the other (`Alone`), for every
  set of images and releases and any number of edits: `ReleaseDescribed` and
  `BoardCoherent`. `Built` says that a build directory without a mark of an
  unfinished compilation holds images of one version; `Packed` what a packer under
  way has read and copied of them, so that its manifest can only describe the copies;
  `OnBoard` that the board's baseline was installed or flashed as a whole, and that
  whatever a cycle flashes has been planned against that baseline.

The library's induction theorems take an operator that the provers here cannot
instantiate. `Formats_proofs` states each claim as a set of numbers instead: lemma `UpTo`, from
`WellFoundedInduction`'s theorem that every set over a well-founded relation has a least element, finds
that a set which has 0 and with each number the next has them all, and `RecursionExists` that a
recursive function over `0 .. n` is what its definition says. The two recursions of the
messages go on at any later place; `RestExists` and `ListingExists` build their functions from the end.

Only model-checked: liveness under fairness, which is out of the prover's reach
(`EveryTurnEnds`, `AttemptsEnd`, `TurnDrains`, `EnqueueReturns`, `RetrySucceeds`,
`FailureReported`). Every other property of the runs that pass is proved.

## 5. Findings

1. **A playback failure fails the next turn too** (`runtime_stale_failure`).
   `failed_` is reset by `beginTurn()` only. The next reply's
   `response.output_audio.started` makes the state `kPlaying` before its first
   audio begins a playback turn, and `serviceProvider()` (`.ino:470`) sees the old
   `failed_` in the same pass. That turn never begins its playback, so the one
   after it fails as well.
2. **A reply may be dropped as drained** (`playback_drained`). `taskLoop()` counts the
   buffer at line 155 and loads `input_done_` at 157 and 160. If the last audio and
   `finishInput()` come in between, the stale zero and the new flag make
   `finishDrain()` end the turn with the audio still in the buffer.

Three more limits are stated as hazards without a finding, for they depend on what
flash and drivers do: an activation that fails and takes effect loses the
configuration at the next start; a failed read of the active slot's number is taken
for slot 0, whose application may then overwrite the slot in use; and an I2S write of more than 300 ms outlives
`cancel()`.

## 6. Plan

Order: what a user would notice first. Done: session and main loop, playback,
button and times, store, provisioning, transport and client, formats, messages,
scripts. Left:

1. A separate abstract specification of a turn (asked, answered, played, or failed)
   that `VoiceRuntime` implements; its four playback flags shown to be an
   abstraction of `BufferedPlayback`.
2. The event-stream parser (`doubao_tts_sse.h`) and the recognition transport
   (`doubao_asr_transport.h`), which the firmware no longer includes.

## 7. What is not modelled

Text and layout on the display, logging and the wording of diagnostics; what an
event's text says (in `VoiceRuntime` an event is what the main loop does with it); the
parsing of endpoints and the headers of requests; TLS and HTTP; the statistics of the
playback (`peak`, `underruns`, `total`, `failure_stage_`); `QH_VOICE_STATUS`, which
changes no state; how long calls block, since any deadline may pass between two
steps. The QH synchronisation is one blocking request after a turn whose result
is only logged. `PlaybackBufferPolicy` is used by its test alone; the code's own decisions
are modelled instead. Of the vendored client: heartbeats, socket.io, the masking of
bytes, SHA-1, and everything the firmware does not switch on. Of the scripts: the
checks of the hardware profile and of the form of files. Weak memory is not modelled,
and need not be: the atomics are used with their default, sequentially consistent order.
