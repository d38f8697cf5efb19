---------------------------- MODULE VoiceRuntime ----------------------------
(***************************************************************************)
(* The main loop of esp32_voice_kit.ino with the objects it drives:        *)
(*                                                                         *)
(*   - the session state machine (voice_turn_state.h, VoiceTurnState);     *)
(*   - the realtime transport and its queue of parsed server events        *)
(*     (realtime_voice_transport.h) over a WebSocket client that           *)
(*     reconnects by itself;                                               *)
(*   - the one I2S bus that microphone and speaker share;                  *)
(*   - the playback object as the main loop sees it: four flags, two of    *)
(*     which the playback task on the other core also writes (the task     *)
(*     itself is module BufferedPlayback);                                 *)
(*   - the debounced push-to-talk button and the display.                  *)
(*                                                                         *)
(* loop() calls its service functions in a fixed order; `phase' says which *)
(* one runs next, and each of them is atomic: everything the main loop     *)
(* owns is touched by the main loop alone.  Between two of them anything   *)
(* of the environment may happen: a deadline passes, the Wi-Fi or the TCP  *)
(* link goes, the button moves, the playback task drains or fails, the     *)
(* board loses power.                                                      *)
(*                                                                         *)
(* Deadlines.  The code compares millis() - started with a constant.  Here *)
(* `due' is the set of deadlines that have passed since the code last      *)
(* stored their starting time.  Started(T) stores those of T; the others   *)
(* belong to states that are being left and count as passed, which is the  *)
(* worst a stale starting time can do to the state that would trust it.    *)
(***************************************************************************)
EXTENDS VoiceTurnState, Naturals, Sequences

CONSTANTS
  MaximumQueuedEvents, \* kMaximumQueuedEvents of the transport (48)
  StrayServer,         \* TRUE: the server may send any event at any time
  ShowReplyText,       \* assistant.show_reply_text of the configuration
  Faults               \* what may go wrong, a subset of FaultKinds

FaultKinds == {"reboot", "wifi", "link", "send", "audio", "provider"}

ASSUME ConstantsAssumption ==
  /\ MaximumQueuedEvents \in Nat \ {0, 1}
  /\ StrayServer \in BOOLEAN
  /\ ShowReplyText \in BOOLEAN
  /\ Faults \subseteq FaultKinds

VARIABLES
  phase,                             \* which part of loop() runs next
  configured,                        \* active_config holds a value
  state,                             \* voice_turn
  responseDone, audioDone, streamed, \* response_done_received,
                                     \* output_audio_done_received,
                                     \* streamed_frames > 0
  mic, spk,                          \* microphone_running, speaker_running
  pb,                                \* flags of BufferedPcmPlayback
  status, events,                    \* of RealtimeVoiceTransport
  link,                              \* its socket
  srv, srvOpen,                      \* the server: where it is in its reply,
                                     \* and whether it listens (unmuted)
  due,                               \* deadlines that have passed
  display, successShown,             \* the screen, success_display_active
  pressed,                           \* the button's debounced level
  wifi, clockOk                      \* WL_CONNECTED, the clock is set

turn      == <<state, responseDone, audioDone, streamed>>
bus       == <<mic, spk, pb>>
transport == <<status, events, link>>
server    == <<srv, srvOpen>>
ui        == <<display, successShown>>
radio     == <<wifi, clockOk>>

allButPhase == <<configured, turn, bus, transport, server, due, ui, pressed,
                 radio>>

vars == <<phase, allButPhase>>

Phases   == {"network", "socket", "events", "tail", "button", "recording"}
Timers   == {"wifi", "clock", "connect", "response", "minrec", "maxrec",
             "error", "success"}
\* The deadlines T start now.
Started(T) == Timers \ T

Statuses == {"Idle", "Connecting", "AwaitingSession", "Ready",
             "ProviderError", "ProtocolError", "Disconnected"}
Links    == {"closed", "opening", "up", "lost"}
Replies  == {"off", "hello", "ready", "asked", "started", "speaking",
             "spoken", "jammed"}
Displays == {"SetupRequired", "Connecting", "Idle", "Recording", "Thinking",
             "Playing", "Success", "Conversation", "Error"}

\* Server events by what the main loop does with them: BadDelta is audio that
\* does not decode, Canceled stands for response.canceled and for a failed
\* transcription, Transcript for the completed texts, Other for the rest.
ServerEvents == {"SessionCreated", "Transcript", "AudioStarted", "AudioDelta",
                 "BadDelta", "AudioDone", "ResponseDone", "Canceled",
                 "Error", "ProtocolError", "Other"}

PlaybackFlags == [active : BOOLEAN, inputDone : BOOLEAN,
                  drained : BOOLEAN, failed : BOOLEAN]

TypeOK ==
  /\ phase \in Phases
  /\ configured \in BOOLEAN
  /\ state \in States
  /\ responseDone \in BOOLEAN /\ audioDone \in BOOLEAN /\ streamed \in BOOLEAN
  /\ mic \in BOOLEAN /\ spk \in BOOLEAN
  /\ pb \in PlaybackFlags
  /\ status \in Statuses
  /\ events \in Seq(ServerEvents)
  /\ link \in Links
  /\ srv \in Replies /\ srvOpen \in BOOLEAN
  /\ due \subseteq Timers
  /\ display \in Displays /\ successShown \in BOOLEAN
  /\ pressed \in BOOLEAN
  /\ wifi \in BOOLEAN /\ clockOk \in BOOLEAN

-----------------------------------------------------------------------------
(* Start of the program: globals, setup().  A board whose playback buffer  *)
(* or store could not be set up shows an error and stays unconfigured.     *)

Init ==
  /\ phase = "network"
  /\ configured \in BOOLEAN
  /\ state = IF configured THEN Apply("Unconfigured", "ConfigLoaded")
                           ELSE "Unconfigured"
  /\ display \in IF configured THEN {"Connecting"}
                               ELSE {"SetupRequired", "Error"}
  /\ responseDone = FALSE /\ audioDone = FALSE /\ streamed = FALSE
  /\ mic = FALSE /\ spk = FALSE
  /\ pb = [active |-> FALSE, inputDone |-> FALSE,
           drained |-> FALSE, failed |-> FALSE]
  /\ status = "Idle" /\ events = <<>> /\ link = "closed"
  /\ srv = "off" /\ srvOpen = FALSE
  /\ due = Started(IF configured THEN {"wifi"} ELSE {})
  /\ successShown = FALSE
  /\ pressed \in BOOLEAN
  /\ wifi = FALSE /\ clockOk \in BOOLEAN

\* ESP.restart() after a configuration was applied, or power lost and back:
\* setup() again, with whatever configuration is active by then.
Reboot ==
  /\ "reboot" \in Faults
  /\ phase' = "network"
  /\ configured' \in BOOLEAN
  /\ state' = IF configured' THEN Apply("Unconfigured", "ConfigLoaded")
                             ELSE "Unconfigured"
  /\ display' \in IF configured' THEN {"Connecting"}
                                 ELSE {"SetupRequired", "Error"}
  /\ responseDone' = FALSE /\ audioDone' = FALSE /\ streamed' = FALSE
  /\ mic' = FALSE /\ spk' = FALSE
  /\ pb' = [active |-> FALSE, inputDone |-> FALSE,
            drained |-> FALSE, failed |-> FALSE]
  /\ status' = "Idle" /\ events' = <<>> /\ link' = "closed"
  /\ srv' = "off" /\ srvOpen' = FALSE
  /\ due' = Started(IF configured' THEN {"wifi"} ELSE {})
  /\ successShown' = FALSE
  /\ pressed' \in BOOLEAN
  /\ wifi' = FALSE /\ clockOk' \in BOOLEAN

-----------------------------------------------------------------------------
(* What the service functions share.                                       *)

\* BufferedPcmPlayback::cancel() as its caller finds it on return.
Cancelled(p) ==
  [p EXCEPT !.active = FALSE, !.inputDone = TRUE, !.drained = FALSE]

\* BufferedPcmPlayback::beginTurn() when it succeeds.
NewTurn == [active |-> TRUE, inputDone |-> FALSE,
            drained |-> FALSE, failed |-> FALSE]

\* BufferedPcmPlayback::reportFailure().
Failed(p) == [p EXCEPT !.failed = TRUE]

\* Mutant of StopAudioBus: the bus is stopped under a running playback task.
StopAudioBusWithoutCancel(p) == mic' = FALSE /\ spk' = FALSE /\ pb' = p

\* stopAudioBus(): the playback is cancelled only if the speaker runs.
StopAudioBus(p) ==
  /\ mic' = FALSE /\ spk' = FALSE
  /\ pb' = IF spk THEN Cancelled(p) ELSE p

\* Mutant of CloseTransport: only an established session is closed.
CloseReadyTransport ==
  IF status = "Ready"
    THEN /\ status' = "Idle" /\ events' = <<>> /\ link' = "closed"
         /\ srv' = "off" /\ srvOpen' = FALSE
    ELSE UNCHANGED <<transport, server>>

\* RealtimeVoiceTransport::close(): the session ends for the server too.
CloseTransport ==
  /\ status' = "Idle" /\ events' = <<>> /\ link' = "closed"
  /\ srv' = "off" /\ srvOpen' = FALSE

\* failRuntime(), with the playback flags p its caller left behind.
FailRuntimeFrom(p) ==
  /\ StopAudioBus(p)
  /\ CloseTransport
  /\ state' = Apply(state, "Failure")
  /\ due' = Started({"error"})
  /\ display' = "Error"

FailRuntime ==
  /\ FailRuntimeFrom(pb)
  /\ UNCHANGED <<responseDone, audioDone, streamed, successShown>>

\* sendText(): a message leaves over an open link, or the write times out or
\* finds the connection gone.
SendCanSucceed == link = "up"
SendCanFail    == link = "lost" \/ "send" \in Faults

\* beginInput(), sendPcm16(), commitInput() and muteInput() return false
\* before sending anything unless the session is ready.
InputCanBeSent == status = "Ready" /\ SendCanSucceed
InputCanFail   == status # "Ready" \/ SendCanFail

\* sendTXT() looks whether the connection is still there; clientIsConnected()
\* clears a lost one away, and WStype_DISCONNECTED changes the status before
\* the send has returned.
SendFindsLoss ==
  /\ status = "Ready" /\ link = "lost"
  /\ status' = "Disconnected" /\ link' = "closed"
  /\ UNCHANGED <<events, server>>

\* A write that times out leaves part of a frame on an open connection: the
\* server understands nothing that follows.
WriteTimesOut ==
  /\ status = "Ready" /\ link = "up" /\ "send" \in Faults
  /\ srv' = "jammed"
  /\ UNCHANGED <<transport, srvOpen>>

\* muteInput() fails, and its caller goes on.
InputFails ==
  \/ status # "Ready" /\ UNCHANGED <<transport, server>>
  \/ SendFindsLoss
  \/ WriteTimesOut

\* What a mute (FALSE) or unmute (TRUE) that was sent does to the server.
Heard(open) == IF srv = "jammed" THEN srvOpen ELSE open

\* queueEvent(): a full queue is dropped for one protocol error, and the
\* connection with it.  s and r: the status and the server after event e.
QueueEvent(e, s, r) ==
  IF Len(events) >= MaximumQueuedEvents
    THEN /\ events' = <<"ProtocolError">> /\ status' = "ProtocolError"
         /\ link' = "closed" /\ srv' = "off"
    ELSE /\ events' = Append(events, e) /\ status' = s
         /\ srv' = r /\ UNCHANGED link

-----------------------------------------------------------------------------
(* serviceNetworkRuntime()                                                 *)

NetworkStep == phase = "network" /\ phase' = "socket"

WifiConnected ==
  /\ NetworkStep
  /\ state = "ConnectingWifi" /\ wifi
  /\ state' = Apply(state, "WifiConnected")
  /\ due' = Started({"clock"})
  /\ UNCHANGED <<configured, responseDone, audioDone, streamed, bus, transport,
                 server, ui, pressed, radio>>

WifiTimeout ==
  /\ NetworkStep
  /\ state = "ConnectingWifi" /\ ~wifi /\ "wifi" \in due
  /\ FailRuntime
  /\ UNCHANGED <<configured, pressed, radio>>

WifiLost ==
  /\ NetworkStep
  /\ state \in {"SyncingClock", "ConnectingProvider", "Idle",
                "RecordingAndStreaming", "WaitingResponse", "Playing"}
  /\ ~wifi
  /\ FailRuntime
  /\ UNCHANGED <<configured, pressed, radio>>

\* startProviderConnection(): begin() closes whatever was open before it
\* starts; it refuses a configuration without key or voice.
ClockSynchronized ==
  /\ NetworkStep
  /\ state = "SyncingClock" /\ wifi /\ clockOk
  /\ \/ /\ state' = Apply(state, "ClockSynchronized")
        /\ status' = "Connecting" /\ events' = <<>> /\ link' = "closed"
        /\ srv' = "off" /\ srvOpen' = FALSE
        /\ due' = Started({"connect"})
        /\ display' = "Connecting"
        /\ UNCHANGED <<bus, responseDone, audioDone, streamed, successShown>>
     \/ "provider" \in Faults /\ FailRuntime
  /\ UNCHANGED <<configured, pressed, radio>>

ClockTimeout ==
  /\ NetworkStep
  /\ state = "SyncingClock" /\ wifi /\ ~clockOk /\ "clock" \in due
  /\ FailRuntime
  /\ UNCHANGED <<configured, pressed, radio>>

\* Mutant of RecoverFromError: no new attempt is started.
RecoverWithoutConnecting ==
  /\ NetworkStep
  /\ state = "Error" /\ "error" \in due
  /\ state' = Apply(state, "Recover")
  /\ UNCHANGED <<configured, responseDone, audioDone, streamed, bus,
                 transport, server, due, ui, pressed, radio>>

\* kRecover, then connectWifi(), which needs a configuration.
RecoverFromError ==
  /\ NetworkStep
  /\ state = "Error" /\ "error" \in due
  /\ state' = Apply(state, "Recover")
  /\ IF configured THEN due' = Started({"wifi"}) /\ display' = "Connecting"
                   ELSE UNCHANGED <<due, display>>
  /\ UNCHANGED <<configured, responseDone, audioDone, streamed, bus, transport,
                 server, successShown, pressed, radio>>

SuccessDisplayEnds ==
  /\ NetworkStep
  /\ state = "Idle" /\ wifi /\ successShown /\ "success" \in due
  /\ successShown' = FALSE /\ display' = "Idle"
  /\ UNCHANGED <<configured, turn, bus, transport, server, due, pressed,
                 radio>>

NetworkIdle ==
  /\ NetworkStep
  /\ \/ state = "Unconfigured"
     \/ state = "ConnectingWifi" /\ ~wifi /\ "wifi" \notin due
     \/ state = "SyncingClock" /\ wifi /\ ~clockOk /\ "clock" \notin due
     \/ state = "Error" /\ "error" \notin due
     \/ state = "Idle" /\ wifi /\ (successShown => "success" \notin due)
     \/ /\ wifi
        /\ state \in {"ConnectingProvider", "RecordingAndStreaming",
                      "WaitingResponse", "Playing"}
  /\ UNCHANGED allButPhase

-----------------------------------------------------------------------------
(* serviceProvider(), first part: realtime_transport.loop().  One call of  *)
(* the WebSocket client's loop() connects, or reads at most one frame.     *)

SocketStep == phase = "socket" /\ phase' = "events"

SocketSkipped ==
  /\ SocketStep
  /\ status = "Idle"
  /\ UNCHANGED allButPhase

\* No connection yet: one attempt, and no back-off between attempts
\* (setReconnectInterval(0)).  A failed attempt leaves a dead socket behind.
SocketConnects ==
  /\ SocketStep
  /\ status # "Idle" /\ link = "closed"
  /\ link' \in {"opening", "lost"}
  /\ UNCHANGED <<configured, turn, bus, status, events, server, due, ui,
                 pressed, radio>>

\* Mutant of SocketFindsLoss: the next attempt hides the loss.
SocketReconnects ==
  /\ SocketStep
  /\ status # "Idle" /\ link = "lost"
  /\ link' \in {"opening", "lost"}
  /\ UNCHANGED <<configured, turn, bus, status, events, server, due, ui,
                 pressed, radio>>

\* A dead socket is noticed: WStype_DISCONNECTED, then another attempt in the
\* same call.
SocketFindsLoss ==
  /\ SocketStep
  /\ status # "Idle" /\ link = "lost"
  /\ status' = IF status \in {"ProviderError", "ProtocolError"}
                 THEN status ELSE "Disconnected"
  /\ link' \in {"opening", "lost"}
  /\ UNCHANGED <<configured, turn, bus, events, server, due, ui, pressed,
                 radio>>

\* The upgrade is answered: WStype_CONNECTED sends session.create.
SocketOpens ==
  /\ SocketStep
  /\ status # "Idle" /\ link = "opening"
  /\ \/ /\ status' = "AwaitingSession" /\ link' = "up" /\ srv' = "hello"
     \/ /\ "send" \in Faults
        /\ status' = "Disconnected" /\ link' = "closed" /\ UNCHANGED srv
  /\ UNCHANGED <<configured, turn, bus, events, srvOpen, due, ui, pressed,
                 radio>>

\* The upgrade is refused or times out, the server sends a close frame, or
\* the client breaks off at a frame it cannot read (1002, 1009, 1011).
SocketCloses ==
  /\ SocketStep
  /\ "link" \in Faults
  /\ status # "Idle" /\ link \in {"opening", "up"}
  /\ status' = "Disconnected" /\ link' = "closed"
  /\ srv' = "off" /\ srvOpen' = FALSE
  /\ UNCHANGED <<configured, turn, bus, events, due, ui, pressed, radio>>

SocketQuiet ==
  /\ SocketStep
  /\ status # "Idle" /\ link \in {"opening", "up"}
  /\ UNCHANGED allButPhase

\* What a server that follows the protocol may send from r, with where it is
\* afterwards: the session's answer, then for each committed input one reply,
\* its parts in order, or a refusal.
Script(r) ==
  CASE r = "hello"    -> {<<"SessionCreated", "ready">>, <<"Error", "off">>}
    [] r = "ready"    -> {<<"Other", "ready">>}
    [] r = "asked"    -> {<<"Transcript", "asked">>, <<"Other", "asked">>,
                          <<"AudioStarted", "started">>,
                          <<"ResponseDone", "ready">>, <<"Canceled", "ready">>,
                          <<"Error", "off">>}
    [] r = "started"  -> {<<"AudioDelta", "speaking">>, <<"AudioDone", "spoken">>,
                          <<"Transcript", "started">>, <<"Canceled", "ready">>}
    [] r = "speaking" -> {<<"AudioDelta", "speaking">>, <<"AudioDone", "spoken">>,
                          <<"Canceled", "ready">>, <<"Error", "off">>}
    [] r = "spoken"   -> {<<"Transcript", "spoken">>, <<"ResponseDone", "ready">>}
    [] OTHER          -> {}

ServerSends(r) ==
  IF StrayServer THEN {<<e, IF r = "hello" THEN "ready" ELSE r>> :
                         e \in ServerEvents}
                 ELSE Script(r)

\* WStype_TEXT: parsed, the status follows, the event is queued.  A created
\* session is answered with a mute.
SocketReceives ==
  /\ SocketStep
  /\ status # "Idle" /\ link = "up"
  /\ \E m \in ServerSends(srv) :
       \/ /\ m[1] = "SessionCreated"
          /\ \/ /\ SendCanSucceed
                /\ QueueEvent(m[1], "Ready", m[2]) /\ srvOpen' = Heard(FALSE)
             \/ /\ SendCanFail
                /\ status' = "Disconnected" /\ link' = "closed"
                /\ srv' = "off" /\ srvOpen' = FALSE
                /\ UNCHANGED events
       \/ /\ m[1] = "Error"
          /\ QueueEvent(m[1], "ProviderError", m[2]) /\ UNCHANGED srvOpen
       \/ /\ m[1] = "ProtocolError"
          /\ QueueEvent(m[1], "ProtocolError", m[2]) /\ UNCHANGED srvOpen
       \/ /\ m[1] \notin {"SessionCreated", "Error", "ProtocolError"}
          /\ QueueEvent(m[1], status, m[2]) /\ UNCHANGED srvOpen
  /\ UNCHANGED <<configured, turn, bus, due, ui, pressed, radio>>

-----------------------------------------------------------------------------
(* serviceProvider(), second part: serviceRealtimeEvents() pops until the  *)
(* queue is empty or an event fails the runtime.                           *)

EventStep(e) ==
  /\ phase = "events" /\ events # <<>> /\ Head(events) = e

\* What popEvent() leaves, for an event that does not fail the runtime.
Popped == events' = Tail(events) /\ UNCHANGED <<phase, status, link, server>>

EventsDone ==
  /\ phase = "events" /\ events = <<>> /\ phase' = "tail"
  /\ UNCHANGED allButPhase

PopOther ==
  /\ EventStep("Other") \/ EventStep("SessionCreated")
  /\ Popped
  /\ UNCHANGED <<configured, turn, bus, due, ui, pressed, radio>>

PopTranscript ==
  /\ EventStep("Transcript")
  /\ Popped
  /\ display' = IF ShowReplyText THEN "Conversation" ELSE display
  /\ UNCHANGED <<configured, turn, bus, due, successShown, pressed, radio>>

PopAudioStarted ==
  /\ EventStep("AudioStarted")
  /\ Popped
  /\ state' = IF state = "WaitingResponse"
                THEN Apply(state, "OutputAudioStarted") ELSE state
  /\ display' = "Playing"
  /\ UNCHANGED <<configured, responseDone, audioDone, streamed, bus, due,
                 successShown, pressed, radio>>

\* A popped event that fails the runtime ends the loop.
EventFails(p) ==
  /\ phase' = "tail"
  /\ FailRuntimeFrom(p)
  /\ UNCHANGED <<configured, responseDone, audioDone, streamed, successShown,
                 pressed, radio>>

\* writeOutputAudio(): audio that does not decode is a playback failure even
\* when nothing plays.
PopBadDelta ==
  /\ EventStep("BadDelta")
  /\ EventFails(Failed(pb))

\* The speaker is started and a new playback turn begun unless it runs.
SpeakerStarts ==
  /\ EventStep("AudioDelta") /\ ~spk /\ ~pb.active
  /\ Popped
  /\ mic' = FALSE /\ spk' = TRUE /\ pb' = NewTurn
  /\ state' = IF state = "WaitingResponse"
                THEN Apply(state, "OutputAudioStarted") ELSE state
  /\ display' = "Playing"
  /\ UNCHANGED <<configured, responseDone, audioDone, streamed, due,
                 successShown, pressed, radio>>

\* audio_bus.begin() fails; or beginTurn() refuses since the last turn is
\* active; or the new turn's first enqueue() fails.  failRuntime() cancels
\* what had begun.
SpeakerFails ==
  /\ EventStep("AudioDelta") /\ ~spk
  /\ pb.active \/ "audio" \in Faults
  /\ \E p \in IF pb.active THEN {Cancelled(pb)}
                           ELSE {Failed(pb), Cancelled(Failed(NewTurn))} :
       EventFails(p)

\* enqueue() accepts audio until finishInput().
SpeakerContinues ==
  /\ EventStep("AudioDelta") /\ spk /\ pb.active /\ ~pb.inputDone
  /\ Popped
  /\ state' = IF state = "WaitingResponse"
                THEN Apply(state, "OutputAudioStarted") ELSE state
  /\ display' = "Playing"
  /\ UNCHANGED <<configured, responseDone, audioDone, streamed, bus, due,
                 successShown, pressed, radio>>

\* enqueue() makes no progress for two seconds, or the task fails meanwhile.
EnqueueFails ==
  /\ EventStep("AudioDelta") /\ spk /\ pb.active /\ ~pb.inputDone
  /\ "audio" \in Faults
  /\ EventFails(Failed(pb))

\* enqueue() after finishInput(), or after the task gave the turn up.
EnqueueRefused ==
  /\ EventStep("AudioDelta") /\ spk /\ (~pb.active \/ pb.inputDone)
  /\ EventFails(pb)

\* BufferedPcmPlayback::finishInput() has no effect on an inactive turn.
PopAudioDone ==
  /\ EventStep("AudioDone")
  /\ Popped
  /\ audioDone' = TRUE
  /\ pb' = IF pb.active THEN [pb EXCEPT !.inputDone = TRUE] ELSE pb
  /\ UNCHANGED <<configured, state, responseDone, streamed, mic, spk, due, ui,
                 pressed, radio>>

\* Mutant of CompleteTurn: the flag that takes the view down is not set.
CompleteTurnWithoutFlag ==
  /\ Accepts(state, "ResponseDone")
  /\ StopAudioBus(pb)
  /\ state' = Apply(state, "ResponseDone")
  /\ display' = "Success" /\ UNCHANGED successShown
  /\ due' = Started({"success"})

\* completeTurn() where a reply is expected; elsewhere it fails the runtime
\* (CompletionOutOfOrder).
CompleteTurn ==
  /\ Accepts(state, "ResponseDone")
  /\ StopAudioBus(pb)
  /\ state' = Apply(state, "ResponseDone")
  /\ display' = "Success" /\ successShown' = TRUE
  /\ due' = Started({"success"})

CompletionOutOfOrder ==
  /\ ~Accepts(state, "ResponseDone")
  /\ FailRuntimeFrom(pb)
  /\ UNCHANGED successShown

PopResponseDone ==
  /\ EventStep("ResponseDone")
  /\ responseDone' = TRUE
  /\ \/ /\ spk /\ Popped
        /\ UNCHANGED <<state, bus, due, ui>>
     \/ ~spk /\ Popped /\ CompleteTurn
     \/ ~spk /\ CompletionOutOfOrder /\ UNCHANGED phase
  /\ UNCHANGED <<configured, audioDone, streamed, pressed, radio>>

PopFatal ==
  /\ EventStep("Canceled") \/ EventStep("Error") \/ EventStep("ProtocolError")
  /\ EventFails(pb)

-----------------------------------------------------------------------------
(* serviceProvider(), third part: the connection, the transport's status,  *)
(* playback failures, the response deadline, the end of the turn.  Each    *)
(* check returns, so each guard excludes the ones before it.               *)

TailStep == phase = "tail" /\ phase' = "button"

TailFails ==
  /\ TailStep
  /\ FailRuntime
  /\ UNCHANGED <<configured, pressed, radio>>

ProviderConnected ==
  /\ TailStep
  /\ state = "ConnectingProvider" /\ status = "Ready"
  /\ state' = Apply(state, "ProviderConnected")
  /\ display' = "Idle"
  /\ UNCHANGED <<configured, responseDone, audioDone, streamed, bus, transport,
                 server, due, successShown, pressed, radio>>

\* Mutant of ProviderConnectTimesOut: only the socket's connection is timed.
SocketConnectTimesOut ==
  state = "ConnectingProvider" /\ status = "Connecting" /\ "connect" \in due

ProviderConnectTimesOut ==
  state = "ConnectingProvider" /\ status # "Ready" /\ "connect" \in due

ConnectTimeout == ProviderConnectTimesOut /\ TailFails

\* Mutant of StatusIsFailure: a lost connection is left to the reconnection.
StatusIsError == status \in {"ProviderError", "ProtocolError"}

StatusIsFailure ==
  \/ status \in {"ProviderError", "ProtocolError"}
  \/ status = "Disconnected" /\ state # "Error"

PastConnection ==
  /\ ~(state = "ConnectingProvider" /\ status = "Ready")
  /\ ~ProviderConnectTimesOut

TransportFailed == PastConnection /\ StatusIsFailure /\ TailFails

PastTransport == PastConnection /\ ~StatusIsFailure

PlaybackFailed ==
  /\ PastTransport
  /\ state = "Playing" /\ pb.failed
  /\ TailFails

PastPlayback == PastTransport /\ ~(state = "Playing" /\ pb.failed)

\* Mutant of ResponseTimesOut: only the first audio is awaited.
FirstAudioTimesOut == state = "WaitingResponse" /\ "response" \in due

ResponseTimesOut ==
  state \in {"WaitingResponse", "Playing"} /\ "response" \in due

ResponseTimeout == PastPlayback /\ ResponseTimesOut /\ TailFails

\* Mutants of PlaybackComplete: what was not played yet is dropped; the turn
\* ends with its audio, before response.done.
PlaybackCompleteUndrained == spk /\ responseDone /\ audioDone
PlaybackCompleteEarly == spk /\ audioDone /\ pb.drained

PlaybackComplete == spk /\ responseDone /\ audioDone /\ pb.drained

TurnComplete ==
  /\ TailStep
  /\ PastPlayback /\ ~ResponseTimesOut /\ PlaybackComplete
  /\ \/ CompleteTurn /\ UNCHANGED <<transport, server>>
     \/ CompletionOutOfOrder
  /\ UNCHANGED <<configured, responseDone, audioDone, streamed, pressed,
                 radio>>

TailIdle ==
  /\ TailStep
  /\ PastPlayback /\ ~ResponseTimesOut /\ ~PlaybackComplete
  /\ UNCHANGED allButPhase

-----------------------------------------------------------------------------
(* serviceButton(): the debouncer (ButtonDebouncer, a module of its own)   *)
(* reports that its stable level changed, or nothing.                      *)

ButtonStep == phase = "button" /\ phase' = "recording"

ButtonQuiet ==
  /\ ButtonStep
  /\ UNCHANGED allButPhase

Press   == ButtonStep /\ ~pressed /\ pressed' = TRUE
Release == ButtonStep /\ pressed /\ pressed' = FALSE

\* An edge nothing waits for: a press outside Idle or without a session, a
\* release outside a recording.
EdgeIgnored ==
  /\ \/ Press /\ (state # "Idle" \/ status # "Ready" \/ ~configured)
     \/ Release /\ state # "RecordingAndStreaming"
  /\ UNCHANGED <<configured, turn, bus, transport, server, due, ui, radio>>

\* beginRecording()
BeginRecording ==
  /\ Press
  /\ state = "Idle" /\ status = "Ready" /\ configured
  /\ responseDone' = FALSE /\ audioDone' = FALSE /\ streamed' = FALSE
  /\ \/ /\ InputCanBeSent /\ srvOpen' = Heard(TRUE)
        /\ mic' = TRUE /\ spk' = FALSE
        /\ pb' = IF spk THEN Cancelled(pb) ELSE pb
        /\ state' = Apply(state, "ButtonPressed")
        /\ due' = Started({"minrec", "maxrec"})
        /\ display' = "Recording" /\ successShown' = FALSE
        /\ UNCHANGED <<transport, srv>>
     \/ /\ InputCanFail \/ "audio" \in Faults
        /\ FailRuntimeFrom(pb) /\ UNCHANGED successShown
  /\ UNCHANGED <<configured, radio>>

MuteSent ==
  /\ InputCanBeSent
  /\ srvOpen' = Heard(FALSE)
  /\ UNCHANGED <<transport, srv>>

\* Mutant of CancelRecording: the turn machine is not told.
CancelRecordingSilently ==
  /\ StopAudioBus(pb)
  /\ MuteSent \/ InputFails
  /\ display' = "Idle"
  /\ UNCHANGED <<state, due>>

\* finishRecording(), less than 300 ms or no frame streamed: the server is
\* muted, and nobody looks at whether that worked.
CancelRecording ==
  /\ StopAudioBus(pb)
  /\ MuteSent \/ InputFails
  /\ state' = Apply(state, "RecordingCancelled")
  /\ display' = "Idle"
  /\ UNCHANGED due

\* Mutant of CommitRecording: the input is committed and not muted.
CommitRecordingUnmuted ==
  \/ /\ InputCanBeSent
     /\ srv' = IF srv = "jammed" THEN srv ELSE "asked"
     /\ StopAudioBus(pb)
     /\ state' = Apply(state, "ButtonReleased")
     /\ due' = Started({"response"})
     /\ display' = "Thinking"
     /\ UNCHANGED <<transport, srvOpen>>
  \/ InputCanFail /\ FailRuntimeFrom(pb)

\* finishRecording(), otherwise: commit and mute are sent, and a reply is
\* expected; or the runtime fails.
CommitRecording ==
  \/ /\ InputCanBeSent
     /\ srvOpen' = Heard(FALSE)
     /\ srv' = IF srv = "jammed" THEN srv ELSE "asked"
     /\ StopAudioBus(pb)
     /\ state' = Apply(state, "ButtonReleased")
     /\ due' = Started({"response"})
     /\ display' = "Thinking"
     /\ UNCHANGED transport
  \/ InputCanFail /\ FailRuntimeFrom(pb)

FinishRecording ==
  IF "minrec" \notin due \/ ~streamed THEN CancelRecording ELSE CommitRecording

ButtonReleased ==
  /\ Release
  /\ state = "RecordingAndStreaming"
  /\ FinishRecording
  /\ UNCHANGED <<configured, responseDone, audioDone, streamed, successShown,
                 radio>>

-----------------------------------------------------------------------------
(* serviceRecording()                                                      *)

RecordingStep == phase = "recording" /\ phase' = "network"

NotRecording ==
  /\ RecordingStep
  /\ state # "RecordingAndStreaming" \/ ~mic
  /\ UNCHANGED allButPhase

Recording == RecordingStep /\ state = "RecordingAndStreaming" /\ mic

RecordingTooLong ==
  /\ Recording
  /\ "maxrec" \in due
  /\ FinishRecording
  /\ UNCHANGED <<configured, responseDone, audioDone, streamed, successShown,
                 pressed, radio>>

\* Part of a frame read, or a whole one that is not due yet.
FrameNotReady ==
  /\ Recording
  /\ "maxrec" \notin due
  /\ UNCHANGED allButPhase

FrameStreamed ==
  /\ Recording
  /\ "maxrec" \notin due
  /\ InputCanBeSent
  /\ streamed' = TRUE
  /\ UNCHANGED <<configured, state, responseDone, audioDone, bus, transport,
                 server, due, ui, pressed, radio>>

\* The microphone read fails, or the frame cannot be sent.
StreamingFails ==
  /\ Recording
  /\ "maxrec" \notin due
  /\ InputCanFail \/ "audio" \in Faults
  /\ FailRuntime
  /\ UNCHANGED <<configured, pressed, radio>>

-----------------------------------------------------------------------------
(* The environment.                                                        *)

\* Time reaches a deadline; the two of a recording have one start.
DeadlinePasses(t) ==
  /\ t \notin due
  /\ t = "maxrec" => "minrec" \in due
  /\ due' = due \union {t}
  /\ UNCHANGED <<phase, configured, turn, bus, transport, server, ui, pressed,
                 radio>>

WifiComes ==
  /\ ~wifi /\ wifi' = TRUE
  /\ UNCHANGED <<phase, configured, turn, bus, transport, server, due, ui,
                 pressed, clockOk>>

WifiGoes ==
  /\ "wifi" \in Faults
  /\ wifi /\ wifi' = FALSE
  /\ UNCHANGED <<phase, configured, turn, bus, transport, server, due, ui,
                 pressed, clockOk>>

\* SNTP sets the clock, once Wi-Fi is there.
ClockIsSet ==
  /\ wifi /\ ~clockOk /\ clockOk' = TRUE
  /\ UNCHANGED <<phase, configured, turn, bus, transport, server, due, ui,
                 pressed, wifi>>

\* The TCP connection dies; the client finds out when it uses it.
LinkGoes ==
  /\ "link" \in Faults
  /\ link \in {"opening", "up"} /\ link' = "lost"
  /\ srv' = "off" /\ srvOpen' = FALSE
  /\ UNCHANGED <<phase, configured, turn, bus, status, events, due, ui,
                 pressed, radio>>

\* The playback task writes the last chunk after finishInput().
PlaybackDrains ==
  /\ pb.active /\ pb.inputDone
  /\ pb' = [pb EXCEPT !.active = FALSE, !.drained = TRUE]
  /\ UNCHANGED <<phase, configured, turn, mic, spk, transport, server, due, ui,
                 pressed, radio>>

\* The playback task meets an I2S write error.
PlaybackBreaks ==
  /\ "audio" \in Faults
  /\ pb.active
  /\ pb' = [pb EXCEPT !.active = FALSE, !.failed = TRUE]
  /\ UNCHANGED <<phase, configured, turn, mic, spk, transport, server, due, ui,
                 pressed, radio>>

-----------------------------------------------------------------------------
ServiceNetworkRuntime ==
  \/ WifiConnected \/ WifiTimeout \/ WifiLost \/ ClockSynchronized
  \/ ClockTimeout \/ RecoverFromError \/ SuccessDisplayEnds \/ NetworkIdle

SocketLoop ==
  \/ SocketSkipped \/ SocketConnects \/ SocketFindsLoss \/ SocketOpens
  \/ SocketCloses \/ SocketQuiet \/ SocketReceives

ServiceRealtimeEvents ==
  \/ EventsDone \/ PopOther \/ PopTranscript \/ PopAudioStarted
  \/ PopBadDelta \/ SpeakerStarts \/ SpeakerFails \/ SpeakerContinues
  \/ EnqueueFails \/ EnqueueRefused \/ PopAudioDone \/ PopResponseDone
  \/ PopFatal

ServiceProviderTail ==
  \/ ProviderConnected \/ ConnectTimeout \/ TransportFailed \/ PlaybackFailed
  \/ ResponseTimeout \/ TurnComplete \/ TailIdle

ServiceButton ==
  \/ ButtonQuiet \/ EdgeIgnored \/ BeginRecording
  \/ ButtonReleased

ServiceRecording ==
  \/ NotRecording \/ RecordingTooLong \/ FrameNotReady \/ FrameStreamed
  \/ StreamingFails

MainLoop ==
  \/ ServiceNetworkRuntime \/ SocketLoop \/ ServiceRealtimeEvents
  \/ ServiceProviderTail \/ ServiceButton \/ ServiceRecording

TimePasses == \E t \in Timers : DeadlinePasses(t)

Environment ==
  \/ TimePasses
  \/ WifiComes \/ WifiGoes \/ ClockIsSet \/ LinkGoes
  \/ PlaybackDrains \/ PlaybackBreaks \/ Reboot

Next == MainLoop \/ Environment

Spec == Init /\ [][Next]_vars

\* loop() runs forever, each part of it in turn, and time passes.
Fairness == WF_vars(MainLoop) /\ WF_vars(TimePasses)

FairSpec == Spec /\ Fairness

-----------------------------------------------------------------------------
(* Safety, whatever the server sends.                                      *)

Replying == state \in {"WaitingResponse", "Playing"}
InSession == Replying \/ state \in {"Idle", "RecordingAndStreaming"}

\* The one I2S bus has one owner.  The microphone owns it only while a
\* recording streams, and the playback task is let loose on it only while the
\* speaker owns it: stopAudioBus() cancels the playback only if the speaker
\* runs, so any other order would leave the task writing to a dead bus.
BusOwnership ==
  /\ ~(mic /\ spk)
  /\ mic => state = "RecordingAndStreaming"
  /\ pb.active => spk

\* Without a session nothing of the last one is left: no event that could
\* still be applied, no open transport, no running audio.  failRuntime() has
\* to undo all of it from wherever it is called.
Quiesced ==
  state \in {"Unconfigured", "ConnectingWifi", "SyncingClock", "Error"} =>
    /\ status = "Idle" /\ events = <<>> /\ link = "closed"
    /\ ~mic /\ ~spk /\ ~pb.active

\* finishRecording() looks neither at what its mute returned nor at the status
\* the mute may have changed: a lost connection it found is dealt with by the
\* next serviceProvider(), and until then the device is Idle without a session.
MuteFoundLoss ==
  /\ phase \in {"recording", "network", "socket"}
  /\ state = "Idle" /\ status = "Disconnected" /\ link = "closed"

\* serviceProvider() leaves nothing half done: no parsed event waits in the
\* queue, a failed status has been turned into the error state, and the
\* states that let the user talk have a ready session under them.  The one
\* thing that comes in between, a loss found by the mute of a cancelled
\* recording, is settled before the button is looked at again: a press never
\* starts a recording, and no turn goes on, over a session that is gone.  The
\* queue never fills, since one frame is read per pass.
ProviderSettled ==
  /\ Len(events) <= 1
  /\ phase \in {"network", "socket", "button", "recording"} =>
       /\ events = <<>>
       /\ \/ /\ status \in {"Idle", "Connecting", "AwaitingSession", "Ready"}
             /\ InSession => status = "Ready"
          \/ MuteFoundLoss

\* The server does not listen to a user who is not talking: outside a
\* recording a live session is muted, whichever way the recording ended.  The
\* exception is a mute that was cut off half way, after which the server
\* understands nothing (finishRecording() ignores that muteInput() failed).
MutedOutsideRecording ==
  srvOpen => state = "RecordingAndStreaming" \/ srv = "jammed"

\* A recording runs only while the button is held down: every press that
\* starts one is followed by a release that ends it, before any other press.
RecordingNeedsPress == state = "RecordingAndStreaming" => pressed

\* A deadline starts afresh whenever a state that has one is entered: no
\* stale starting time of an earlier visit cuts a new one short.
FreshDeadlines ==
  [][state' # state =>
       /\ state' = "ConnectingWifi" => "wifi" \notin due'
       /\ state' = "SyncingClock" => "clock" \notin due'
       /\ state' = "ConnectingProvider" => "connect" \notin due'
       /\ state' = "RecordingAndStreaming" => {"minrec", "maxrec"} \cap due' = {}
       /\ state' = "WaitingResponse" => "response" \notin due'
       /\ state' = "Error" => "error" \notin due']_vars

\* A turn completes only after response.done, and never over audio that is
\* still to be played: the turn's playback was drained, or never begun.
NoTruncatedTurn ==
  [][Replying /\ state' = "Idle" =>
       /\ responseDone'
       /\ spk => pb.drained /\ audioDone
       /\ ~pb.active]_vars

\* What the main loop takes the transport for is what RealtimeLink promises,
\* and what WebSocketClient, the transport itself, is shown to keep.
TransportLink == INSTANCE RealtimeLink
DrivesLink == TransportLink!Spec

-----------------------------------------------------------------------------
(* Safety, with a server that follows the protocol.                        *)

\* Half duplex: the speaker runs only while a reply plays, so never while the
\* user talks, and no part of a reply is handled anywhere else (which would
\* make the turn fail with provider_event_order_invalid).
ReplyOnlyWhenAsked ==
  /\ spk => state = "Playing"
  /\ events # <<>> /\ Head(events) \in {"AudioStarted", "AudioDelta",
                                        "AudioDone", "ResponseDone"}
       => Replying

\* The screen tells the user what the device does.  A transcript or reply
\* text may cover the waiting and playing views; the success view after a turn
\* is shown only while the flag that will take it down again is up.
DisplayAgrees ==
  CASE state = "RecordingAndStreaming" -> display = "Recording"
    [] state = "WaitingResponse" -> display \in {"Thinking", "Conversation"}
    [] state = "Playing" -> display \in {"Playing", "Conversation"}
    [] state = "Idle" -> \/ display = "Idle"
                         \/ display = "Success" /\ successShown
    [] state = "Error" -> display = "Error"
    [] state = "Unconfigured" -> display \in {"SetupRequired", "Error"}
    [] OTHER -> display = "Connecting"

\* A playback failure belongs to the turn it happened in: a reply that is
\* announced, and whose playback has not begun, is not marked failed.
FailureBelongsToTurn == state = "Playing" /\ ~spk => ~pb.failed

-----------------------------------------------------------------------------
(* Liveness, under FairSpec.                                               *)

\* Waiting for a reply and playing it end, with the turn complete or failed,
\* even if the server never answers (45 s).
ReplyEnds == Replying ~> ~Replying

\* A recording ends even if the button is never released (10 s).
RecordingEnds ==
  state = "RecordingAndStreaming" ~> state # "RecordingAndStreaming"

\* Every attempt to get a session ends, with one or in the error state.
ConnectingEnds ==
  state \in {"ConnectingWifi", "SyncingClock", "ConnectingProvider"}
    ~> state \in {"Idle", "Error", "Unconfigured"}

\* The error state is left for a new attempt by itself (5 s).
ErrorEnds == state = "Error" ~> state = "ConnectingWifi" \/ ~configured

\* Whatever the server, the user and the hardware do or fail to do, a turn is
\* over at some time; and so is every attempt to get a session and every stay
\* in the error state, so that the device is never lost for good.
EveryTurnEnds == ReplyEnds /\ RecordingEnds
AttemptsEnd   == ConnectingEnds /\ ErrorEnds
=============================================================================
