------------------------ MODULE VoiceRuntime_proofs ------------------------
(***************************************************************************)
(* What holds of the main loop for every queue length, every set of faults *)
(* and every server, stray or not.                                         *)
(***************************************************************************)
EXTENDS VoiceRuntime, SequenceTheorems, TLAPS

\* Where the session stands, phase by phase: the strengthening of
\* ProviderSettled and Quiesced that one pass of the loop preserves.
SettledPhases == {"network", "socket", "button", "recording"}

Calm == status \in {"Idle", "Connecting", "AwaitingSession", "Ready"}

SessionInv ==
  /\ events = <<>> \/ phase = "events"
  /\ Len(events) <= 1
  /\ phase \in SettledPhases => Calm \/ MuteFoundLoss
  /\ status \in {"AwaitingSession", "Ready"} => link \in {"up", "lost"}
  /\ InSession => status \in {"Ready", "Disconnected", "ProviderError",
                              "ProtocolError"}

Inv == TypeOK /\ BusOwnership /\ Quiesced /\ SessionInv

-----------------------------------------------------------------------------
\* failRuntime(), called with no playback running unless the speaker runs,
\* leaves nothing of a session behind (esp32_voice_kit.ino:141-148).
LEMMA FailRuntimeQuiesces ==
  ASSUME TypeOK, NEW p \in PlaybackFlags, p.active => spk, FailRuntimeFrom(p)
  PROVE  /\ state' \in {"Unconfigured", "Error"}
         /\ ~mic' /\ ~spk' /\ pb' \in PlaybackFlags /\ ~pb'.active
         /\ status' = "Idle" /\ events' = <<>> /\ link' = "closed"
         /\ srv' = "off" /\ srvOpen' = FALSE
         /\ due' \subseteq Timers /\ display' = "Error"
<1>1. /\ ~mic' /\ ~spk' /\ pb' = IF spk THEN Cancelled(p) ELSE p
      /\ status' = "Idle" /\ events' = <<>> /\ link' = "closed"
      /\ srv' = "off" /\ srvOpen' = FALSE
      /\ due' \subseteq Timers /\ display' = "Error"
  BY DEF FailRuntimeFrom, StopAudioBus, CloseTransport, Started
<1>2. state' \in {"Unconfigured", "Error"}
  BY DEF FailRuntimeFrom, Apply, TypeOK, States
<1>3. pb' \in PlaybackFlags /\ ~pb'.active
  BY <1>1 DEF TypeOK, PlaybackFlags, Cancelled
<1> QED
  BY <1>1, <1>2, <1>3

\* Failing the runtime re-establishes the invariant from any phase but one
\* that leaves the other variables ill-typed.
LEMMA FailRuntimeInv ==
  ASSUME Inv, NEW p \in PlaybackFlags, p.active => spk, FailRuntimeFrom(p),
         phase' \in Phases, configured' \in BOOLEAN,
         responseDone' \in BOOLEAN, audioDone' \in BOOLEAN,
         streamed' \in BOOLEAN, successShown' \in BOOLEAN,
         pressed' \in BOOLEAN, wifi' \in BOOLEAN, clockOk' \in BOOLEAN
  PROVE  Inv'
<1>1. /\ state' \in {"Unconfigured", "Error"}
      /\ ~mic' /\ ~spk' /\ pb' \in PlaybackFlags /\ ~pb'.active
      /\ status' = "Idle" /\ events' = <<>> /\ link' = "closed"
      /\ srv' = "off" /\ srvOpen' = FALSE
      /\ due' \subseteq Timers /\ display' = "Error"
  BY FailRuntimeQuiesces DEF Inv
<1>2. mic' \in BOOLEAN /\ spk' \in BOOLEAN
  BY DEF FailRuntimeFrom, StopAudioBus
<1>3. events' \in Seq(ServerEvents)
  BY <1>1
<1>4. TypeOK'
  BY <1>1, <1>2, <1>3 DEF TypeOK, States, Statuses, Links, Replies, Displays
<1>5. BusOwnership' /\ Quiesced' /\ SessionInv'
  BY <1>1 DEF BusOwnership, Quiesced, SessionInv, InSession, Replying, Calm
<1> QED
  BY <1>4, <1>5 DEF Inv

-----------------------------------------------------------------------------
LEMMA InitInv == Init => Inv
<1> SUFFICES ASSUME Init PROVE Inv
  OBVIOUS
<1>1. events \in Seq(ServerEvents)
  BY DEF Init
<1>2. state \in {"Unconfigured", "ConnectingWifi"}
  BY DEF Init, Apply
<1>3. due \subseteq Timers
  BY DEF Init, Started
<1>4. TypeOK
  BY <1>1, <1>2, <1>3
     DEF Init, TypeOK, Phases, States, PlaybackFlags, Statuses, Links, Replies,
         Displays
<1>5. BusOwnership /\ Quiesced /\ SessionInv
  BY <1>2 DEF Init, BusOwnership, Quiesced, SessionInv, InSession, Replying,
     Calm
<1> QED
  BY <1>4, <1>5 DEF Inv

\* A step that moves on to the next part of the loop and does nothing else:
\* only what the invariant says of the phase has to be shown again.
LEMMA PhaseOnlyInv ==
  ASSUME Inv, UNCHANGED allButPhase, phase' \in Phases,
         events = <<>>,
         phase' \in SettledPhases => (Calm \/ MuteFoundLoss)'
  PROVE  Inv'
<1>1. TypeOK' /\ BusOwnership' /\ Quiesced'
  BY DEF Inv, TypeOK, BusOwnership, Quiesced, allButPhase, turn, bus,
         transport, server, ui, radio
<1>2. SessionInv'
  BY DEF Inv, SessionInv, InSession, Replying, allButPhase, turn, bus,
         transport, server, ui, radio
<1> QED
  BY <1>1, <1>2 DEF Inv

-----------------------------------------------------------------------------
LEMMA NetworkInv == Inv /\ ServiceNetworkRuntime => Inv'
<1> SUFFICES ASSUME Inv, ServiceNetworkRuntime PROVE Inv'
  OBVIOUS
<1>0. /\ phase = "network" /\ phase' = "socket" /\ phase' \in Phases
      /\ events = <<>>
      /\ Calm \/ (state = "Idle" /\ status = "Disconnected" /\ link = "closed")
  BY DEF ServiceNetworkRuntime, NetworkStep, WifiConnected, WifiTimeout,
         WifiLost, ClockSynchronized, ClockTimeout, RecoverFromError,
         SuccessDisplayEnds, NetworkIdle, Phases, Inv, SessionInv,
         SettledPhases, MuteFoundLoss
<1>1. CASE WifiTimeout \/ WifiLost \/ ClockTimeout
  <2>1. /\ FailRuntimeFrom(pb)
        /\ UNCHANGED <<configured, responseDone, audioDone, streamed,
                       successShown, pressed, radio>>
    BY <1>1 DEF WifiTimeout, WifiLost, ClockTimeout, FailRuntime
  <2>2. pb \in PlaybackFlags /\ (pb.active => spk)
    BY DEF Inv, TypeOK, BusOwnership
  <2> QED
    BY <1>0, <2>1, <2>2, FailRuntimeInv DEF Inv, TypeOK, radio
<1>2. CASE WifiConnected
  <2>1. state' = "SyncingClock" /\ due' \subseteq Timers
    BY <1>2 DEF WifiConnected, Apply, Started
  <2>2. TypeOK'
    BY <1>0, <1>2, <2>1 DEF WifiConnected, Inv, TypeOK, States, bus,
       transport, server, ui, radio
  <2>3. BusOwnership' /\ Quiesced' /\ SessionInv'
    BY <1>0, <1>2, <2>1 DEF WifiConnected, Inv, BusOwnership, Quiesced,
       SessionInv, InSession, Replying, SettledPhases, Calm, MuteFoundLoss,
       bus, transport
  <2> QED
    BY <2>2, <2>3 DEF Inv
<1>3. CASE ClockSynchronized
  <2>1. CASE FailRuntime
    <3>1. /\ FailRuntimeFrom(pb)
          /\ UNCHANGED <<configured, responseDone, audioDone, streamed,
                         successShown, pressed, radio>>
      BY <1>3, <2>1 DEF ClockSynchronized, FailRuntime
    <3>2. pb \in PlaybackFlags /\ (pb.active => spk)
      BY DEF Inv, TypeOK, BusOwnership
    <3> QED
      BY <1>0, <3>1, <3>2, FailRuntimeInv DEF Inv, TypeOK, radio
  <2>2. CASE ~FailRuntime
    <3>1. /\ state = "SyncingClock"
          /\ state' = Apply(state, "ClockSynchronized")
          /\ status' = "Connecting" /\ events' = <<>> /\ link' = "closed"
          /\ srv' = "off" /\ srvOpen' = FALSE
          /\ due' = Started({"connect"}) /\ display' = "Connecting"
          /\ UNCHANGED <<bus, responseDone, audioDone, streamed, successShown,
                         configured, pressed, radio>>
      BY <1>3, <2>2 DEF ClockSynchronized
    <3>2. state' = "ConnectingProvider" /\ due' \subseteq Timers
      BY <3>1 DEF Apply, Started
    <3>3. events' \in Seq(ServerEvents)
      BY <3>1
    <3>4. TypeOK'
      BY <1>0, <3>1, <3>2, <3>3 DEF Inv, TypeOK, States, Statuses, Links,
         Replies, Displays, bus, radio
    <3>5. BusOwnership' /\ Quiesced' /\ SessionInv'
      BY <1>0, <3>1, <3>2 DEF Inv, BusOwnership, Quiesced, SessionInv,
         InSession, Replying, SettledPhases, Calm, MuteFoundLoss, bus
    <3> QED
      BY <3>4, <3>5 DEF Inv
  <2> QED
    BY <2>1, <2>2
<1>4. CASE RecoverFromError
  <2>1. state' = "ConnectingWifi" /\ due' \subseteq Timers /\ display' \in Displays
    BY <1>4 DEF RecoverFromError, Apply, Started, Inv, TypeOK, Displays
  <2>2. TypeOK'
    BY <1>0, <1>4, <2>1 DEF RecoverFromError, Inv, TypeOK, States, bus,
       transport, server, radio
  <2>3. BusOwnership' /\ Quiesced' /\ SessionInv'
    BY <1>0, <1>4, <2>1 DEF RecoverFromError, Inv, BusOwnership, Quiesced,
       SessionInv, InSession, Replying, SettledPhases, Calm, MuteFoundLoss,
       bus, transport
  <2> QED
    BY <2>2, <2>3 DEF Inv
<1>5. CASE SuccessDisplayEnds
  <2>1. TypeOK'
    BY <1>0, <1>5 DEF SuccessDisplayEnds, Inv, TypeOK, Displays, turn, bus,
       transport, server, radio
  <2>2. BusOwnership' /\ Quiesced' /\ SessionInv'
    BY <1>0, <1>5 DEF SuccessDisplayEnds, Inv, BusOwnership, Quiesced,
       SessionInv, InSession, Replying, SettledPhases, Calm, MuteFoundLoss,
       turn, bus, transport
  <2> QED
    BY <2>1, <2>2 DEF Inv
<1>6. CASE NetworkIdle
  BY <1>0, <1>6, PhaseOnlyInv DEF NetworkIdle, allButPhase, turn, transport,
     Calm, MuteFoundLoss
<1> QED
  BY <1>1, <1>2, <1>3, <1>4, <1>5, <1>6 DEF ServiceNetworkRuntime

-----------------------------------------------------------------------------
\* queueEvent() into an empty queue: the overflow branch is out of reach.
LEMMA QueueEventFits ==
  ASSUME events = <<>>, NEW e \in ServerEvents, NEW s, NEW r, QueueEvent(e, s,
  r)
  PROVE  /\ events' = <<e>> /\ status' = s /\ srv' = r /\ link' = link
         /\ events' \in Seq(ServerEvents) /\ Len(events') = 1
<1>1. ~(Len(events) >= MaximumQueuedEvents)
  BY ConstantsAssumption
<1>2. /\ events' = Append(events, e) /\ status' = s /\ srv' = r
      /\ UNCHANGED link
  BY <1>1 DEF QueueEvent
<1> QED
  BY <1>2

\* Whatever the server sends, stray or scripted, is an event the parser knows.
LEMMA ServerSendsType ==
  ASSUME NEW r \in Replies, NEW m \in ServerSends(r)
  PROVE  m[1] \in ServerEvents /\ m[2] \in Replies
<1>1. CASE StrayServer
  BY <1>1 DEF ServerSends, Replies
<1>2. CASE ~StrayServer
  BY <1>2 DEF ServerSends, Script, Replies, ServerEvents
<1> QED
  BY <1>1, <1>2

LEMMA SocketInv == Inv /\ SocketLoop => Inv'
<1> SUFFICES ASSUME Inv, SocketLoop PROVE Inv'
  OBVIOUS
<1>a. phase = "socket" /\ phase' = "events" /\ phase' \in Phases
  BY DEF SocketLoop, SocketStep, SocketSkipped, SocketConnects,
         SocketFindsLoss, SocketOpens, SocketCloses, SocketQuiet,
         SocketReceives, Phases
<1>b. /\ events = <<>>
      /\ \/ status \in {"Idle", "Connecting", "AwaitingSession", "Ready"}
         \/ state = "Idle" /\ status = "Disconnected" /\ link = "closed"
  BY <1>a DEF Inv, SessionInv, SettledPhases, Calm, MuteFoundLoss
<1>c. status # "Idle" =>
        state \notin {"Unconfigured", "ConnectingWifi", "SyncingClock",
                      "Error"}
  BY DEF Inv, Quiesced
<1>0. /\ phase = "socket" /\ phase' = "events" /\ phase' \in Phases
      /\ events = <<>>
      /\ \/ status \in {"Idle", "Connecting", "AwaitingSession", "Ready"}
         \/ state = "Idle" /\ status = "Disconnected" /\ link = "closed"
      /\ status # "Idle" =>
           state \notin {"Unconfigured", "ConnectingWifi", "SyncingClock",
                         "Error"}
  BY <1>a, <1>b, <1>c
<1>1. CASE SocketSkipped \/ SocketQuiet
  BY <1>0, <1>1, PhaseOnlyInv DEF SocketSkipped, SocketQuiet, SettledPhases
<1>2. CASE SocketConnects
  <2>1. TypeOK'
    BY <1>0, <1>2 DEF SocketConnects, Inv, TypeOK, Links, turn, bus, server,
       ui, radio
  <2>2. BusOwnership' /\ Quiesced' /\ SessionInv'
    BY <1>0, <1>2 DEF SocketConnects, Inv, BusOwnership, Quiesced, SessionInv,
       InSession, Replying, SettledPhases, turn, bus
  <2> QED
    BY <2>1, <2>2 DEF Inv
<1>3. CASE SocketFindsLoss
  <2>1. TypeOK'
    BY <1>0, <1>3 DEF SocketFindsLoss, Inv, TypeOK, Links, Statuses, turn,
       bus, server, ui, radio
  <2>2. BusOwnership' /\ Quiesced' /\ SessionInv'
    BY <1>0, <1>3 DEF SocketFindsLoss, Inv, BusOwnership, Quiesced,
       SessionInv, InSession, Replying, SettledPhases, turn, bus
  <2> QED
    BY <2>1, <2>2 DEF Inv
<1>4. CASE SocketOpens
  <2>1. /\ status' \in {"AwaitingSession", "Disconnected"}
        /\ link' \in Links /\ srv' \in Replies
        /\ status' = "AwaitingSession" => link' = "up"
    BY <1>4 DEF SocketOpens, Links, Replies, Inv, TypeOK
  <2>2. TypeOK'
    BY <1>0, <1>4, <2>1 DEF SocketOpens, Inv, TypeOK, Statuses, turn, bus, ui,
       radio
  <2>3. BusOwnership' /\ Quiesced' /\ SessionInv'
    BY <1>0, <1>4, <2>1 DEF SocketOpens, Inv, BusOwnership, Quiesced,
       SessionInv, InSession, Replying, SettledPhases, turn, bus
  <2> QED
    BY <2>2, <2>3 DEF Inv
<1>5. CASE SocketCloses
  <2>1. TypeOK'
    BY <1>0, <1>5 DEF SocketCloses, Inv, TypeOK, Links, Statuses, Replies,
       turn, bus, ui, radio
  <2>2. BusOwnership' /\ Quiesced' /\ SessionInv'
    BY <1>0, <1>5 DEF SocketCloses, Inv, BusOwnership, Quiesced, SessionInv,
       InSession, Replying, SettledPhases, turn, bus
  <2> QED
    BY <2>1, <2>2 DEF Inv
<1>6. CASE SocketReceives
  <2>1. PICK m \in ServerSends(srv) :
          \/ /\ m[1] = "SessionCreated"
             /\ \/ /\ SendCanSucceed
                   /\ QueueEvent(m[1], "Ready", m[2]) /\ srvOpen' = Heard(FALSE)
                \/ /\ SendCanFail
                   /\ status' = "Disconnected" /\ link' = "closed"
                   /\ srv' = "off" /\ srvOpen' = FALSE
                   /\ UNCHANGED events
          \/ /\ m[1] = "Error"
             /\ QueueEvent(m[1], "ProviderError", m[2]) /\ UNCHANGED srvOpen
          \/ /\ m[1] = "ProtocolError"
             /\ QueueEvent(m[1], "ProtocolError", m[2]) /\ UNCHANGED srvOpen
          \/ /\ m[1] \notin {"SessionCreated", "Error", "ProtocolError"}
             /\ QueueEvent(m[1], status, m[2]) /\ UNCHANGED srvOpen
    BY <1>6 DEF SocketReceives
  <2>2. m[1] \in ServerEvents /\ m[2] \in Replies
    BY ServerSendsType DEF Inv, TypeOK
  <2>3. srvOpen' \in BOOLEAN
    BY <2>1 DEF Heard, Inv, TypeOK
  <2>4. /\ status # "Idle" /\ link = "up"
        /\ UNCHANGED <<configured, turn, bus, due, ui, pressed, radio>>
    BY <1>6 DEF SocketReceives
  <2>5. \/ /\ status' = "Disconnected" /\ link' = "closed" /\ srv' = "off"
           /\ events' = <<>>
        \/ /\ status' \in {"Ready", "ProviderError", "ProtocolError", status}
           /\ link' = "up" /\ srv' = m[2]
           /\ events' \in Seq(ServerEvents) /\ Len(events') = 1
    BY <1>0, <2>1, <2>2, <2>4, QueueEventFits
  <2>6. events' \in Seq(ServerEvents) /\ Len(events') <= 1
    <3>1. CASE events' = <<>>
      BY <3>1
    <3>2. CASE events' \in Seq(ServerEvents) /\ Len(events') = 1
      BY <3>2
    <3> QED
      BY <2>5, <3>1, <3>2
  <2>7. TypeOK'
    BY <1>0, <2>2, <2>3, <2>4, <2>5, <2>6 DEF Inv, TypeOK, Statuses, Links,
       Replies, turn, bus, ui, radio
  <2>8. BusOwnership' /\ Quiesced' /\ SessionInv'
    BY <1>0, <2>4, <2>5, <2>6 DEF Inv, BusOwnership, Quiesced, SessionInv,
       InSession, Replying, SettledPhases, turn, bus
  <2> QED
    BY <2>7, <2>8 DEF Inv
<1> QED
  BY <1>1, <1>2, <1>3, <1>4, <1>5, <1>6 DEF SocketLoop

-----------------------------------------------------------------------------
\* A popped event was the only one.
LEMMA PopEmpties ==
  ASSUME Inv, events # <<>>, events' = Tail(events)
  PROVE  events' = <<>> /\ events' \in Seq(ServerEvents)
<1>1. events \in Seq(ServerEvents) /\ Len(events) <= 1
  BY DEF Inv, TypeOK, SessionInv
<1>2. Len(events) \in Nat \ {0}
  BY <1>1, EmptySeq, Zenon
<1>3. \A n \in Nat \ {0} : n <= 1 => n = 1
  OBVIOUS
<1>4. Len(events) = 1
  BY <1>1, <1>2, <1>3, Zenon
<1> QED
  BY <1>1, <1>4

\* What a popped event may do without failing the runtime.
LEMMA PoppedInv ==
  ASSUME Inv, phase = "events", events # <<>>, Popped,
         state' = state \/ (state = "WaitingResponse" /\ state' = "Playing"),
         <<mic', spk', pb'>> \in BOOLEAN \X BOOLEAN \X PlaybackFlags,
         mic' => mic /\ spk' = spk,
         pb'.active => spk',
         state # "Unconfigured", state # "ConnectingWifi",
         state # "SyncingClock", state # "Error",
         responseDone' \in BOOLEAN, audioDone' \in BOOLEAN,
         display' \in Displays, successShown' \in BOOLEAN,
         UNCHANGED <<configured, streamed, due, pressed, radio>>
  PROVE  Inv'
<1>1. /\ events' = <<>> /\ events' \in Seq(ServerEvents)
      /\ UNCHANGED <<phase, status, link, srv, srvOpen>>
  BY PopEmpties DEF Popped, server
<1>2. TypeOK'
  BY <1>1 DEF Inv, TypeOK, States, radio
<1>3. BusOwnership' /\ Quiesced' /\ SessionInv'
  BY <1>1 DEF Inv, TypeOK, BusOwnership, Quiesced, SessionInv, InSession,
     Replying, SettledPhases
<1> QED
  BY <1>2, <1>3 DEF Inv

\* completeTurn() ends an accepted turn with the bus free.
LEMMA CompleteTurnEffect ==
  ASSUME Inv, CompleteTurn
  PROVE  /\ Replying /\ state' = "Idle"
         /\ ~mic' /\ ~spk' /\ pb' \in PlaybackFlags /\ ~pb'.active
         /\ mic' \in BOOLEAN /\ spk' \in BOOLEAN
         /\ due' \subseteq Timers /\ display' \in Displays
         /\ successShown' \in BOOLEAN
<1>1. state \in States
  BY DEF Inv, TypeOK
<1>2. Apply(state, "ResponseDone") # state
  BY DEF CompleteTurn, Accepts
<1>3. Replying /\ state' = "Idle"
  BY <1>1, <1>2 DEF CompleteTurn, Apply, Replying, States
<1>4. /\ ~mic' /\ ~spk' /\ pb' = IF spk THEN Cancelled(pb) ELSE pb
      /\ mic' \in BOOLEAN /\ spk' \in BOOLEAN
  BY DEF CompleteTurn, StopAudioBus
<1>5. pb' \in PlaybackFlags /\ ~pb'.active
  BY <1>4 DEF Inv, TypeOK, BusOwnership, PlaybackFlags, Cancelled
<1>6. /\ due' \subseteq Timers /\ display' \in Displays
      /\ successShown' \in BOOLEAN
  BY DEF CompleteTurn, Started, Displays
<1> QED
  BY <1>3, <1>4, <1>5, <1>6

LEMMA EventsInv == Inv /\ ServiceRealtimeEvents => Inv'
<1> SUFFICES ASSUME Inv, ServiceRealtimeEvents PROVE Inv'
  OBVIOUS
<1>a. /\ phase = "events"
      /\ pb \in PlaybackFlags /\ (pb.active => spk)
      /\ mic \in BOOLEAN /\ spk \in BOOLEAN
      /\ responseDone \in BOOLEAN /\ audioDone \in BOOLEAN
      /\ streamed \in BOOLEAN /\ successShown \in BOOLEAN
      /\ display \in Displays
  BY DEF ServiceRealtimeEvents, EventStep, EventsDone, PopOther,
         PopTranscript, PopAudioStarted, PopBadDelta, SpeakerStarts,
         SpeakerFails, SpeakerContinues, EnqueueFails, EnqueueRefused,
         PopAudioDone, PopResponseDone, PopFatal, Inv, TypeOK, BusOwnership
<1>b. events # <<>> => state \notin {"Unconfigured", "ConnectingWifi",
                                     "SyncingClock", "Error"}
  BY DEF Inv, Quiesced
<1>c. ASSUME NEW p \in PlaybackFlags, p.active => spk, EventFails(p)
      PROVE  Inv'
  <2>1. /\ phase' \in Phases /\ FailRuntimeFrom(p)
        /\ UNCHANGED <<configured, responseDone, audioDone, streamed,
                       successShown, pressed, radio>>
    BY <1>c DEF EventFails, Phases
  <2> QED
    BY <1>c, <2>1, FailRuntimeInv DEF Inv, TypeOK, radio
<1>1. CASE EventsDone
  BY <1>1, PhaseOnlyInv DEF EventsDone, Phases, SettledPhases
<1>2. CASE PopOther \/ PopTranscript \/ PopAudioStarted
  <2>1. /\ events # <<>> /\ Popped
        /\ state' = state \/ (state = "WaitingResponse" /\ state' = "Playing")
        /\ display' \in Displays
        /\ UNCHANGED <<bus, responseDone, audioDone, successShown>>
        /\ UNCHANGED <<configured, streamed, due, pressed, radio>>
    BY <1>2, <1>a DEF PopOther, PopTranscript, PopAudioStarted, EventStep,
       Apply, Displays, turn, ui
  <2>2. mic' = mic /\ spk' = spk /\ pb' = pb
    BY <2>1 DEF bus
  <2> QED
    BY <1>a, <1>b, <2>1, <2>2, PoppedInv
<1>3. CASE PopBadDelta
  <2>1. Failed(pb) \in PlaybackFlags /\ (Failed(pb).active => spk)
    BY <1>a DEF Failed, PlaybackFlags
  <2> QED
    BY <1>3, <1>c, <2>1 DEF PopBadDelta
<1>4. CASE SpeakerStarts
  <2>1. /\ events # <<>> /\ Popped
        /\ state' = state \/ (state = "WaitingResponse" /\ state' = "Playing")
        /\ display' \in Displays
        /\ mic' = FALSE /\ spk' = TRUE /\ pb' = NewTurn
        /\ UNCHANGED <<responseDone, audioDone, successShown>>
        /\ UNCHANGED <<configured, streamed, due, pressed, radio>>
    BY <1>4 DEF SpeakerStarts, EventStep, Apply, Displays
  <2>2. pb' \in PlaybackFlags
    BY <2>1 DEF NewTurn, PlaybackFlags
  <2> QED
    BY <1>a, <1>b, <2>1, <2>2, PoppedInv
<1>5. CASE SpeakerFails
  <2>1. PICK p \in IF pb.active THEN {Cancelled(pb)}
                   ELSE {Failed(pb), Cancelled(Failed(NewTurn))} :
          EventFails(p)
    BY <1>5 DEF SpeakerFails
  <2>2. ~spk
    BY <1>5 DEF SpeakerFails
  <2>3. p \in PlaybackFlags /\ ~p.active
    BY <1>a, <2>2 DEF Cancelled, Failed, NewTurn, PlaybackFlags
  <2> QED
    BY <1>c, <2>1, <2>3
<1>6. CASE SpeakerContinues
  <2>1. /\ events # <<>> /\ Popped
        /\ state' = state \/ (state = "WaitingResponse" /\ state' = "Playing")
        /\ display' \in Displays
        /\ mic' = mic /\ spk' = spk /\ pb' = pb
        /\ UNCHANGED <<responseDone, audioDone, successShown>>
        /\ UNCHANGED <<configured, streamed, due, pressed, radio>>
    BY <1>6 DEF SpeakerContinues, EventStep, Apply, Displays, bus
  <2> QED
    BY <1>a, <1>b, <2>1, PoppedInv
<1>7. CASE EnqueueFails \/ EnqueueRefused
  <2>1. Failed(pb) \in PlaybackFlags /\ (Failed(pb).active => spk)
    BY <1>a DEF Failed, PlaybackFlags
  <2> QED
    BY <1>7, <1>a, <1>c, <2>1 DEF EnqueueFails, EnqueueRefused
<1>8. CASE PopAudioDone
  <2>1. /\ events # <<>> /\ Popped
        /\ state' = state /\ display' = display /\ successShown' = successShown
        /\ audioDone' = TRUE /\ mic' = mic /\ spk' = spk
        /\ pb' = IF pb.active THEN [pb EXCEPT !.inputDone = TRUE] ELSE pb
        /\ UNCHANGED responseDone
        /\ UNCHANGED <<configured, streamed, due, pressed, radio>>
    BY <1>8 DEF PopAudioDone, EventStep, ui
  <2>2. pb' \in PlaybackFlags /\ (pb'.active => spk')
    BY <1>a, <2>1 DEF PlaybackFlags
  <2> QED
    BY <1>a, <1>b, <2>1, <2>2, PoppedInv
<1>9. CASE PopResponseDone
  <2>0. /\ events # <<>> /\ responseDone' = TRUE
        /\ UNCHANGED <<configured, audioDone, streamed, pressed, radio>>
    BY <1>9 DEF PopResponseDone, EventStep
  <2>1. CASE spk /\ Popped /\ UNCHANGED <<state, bus, due, ui>>
    <3>1. /\ mic' = mic /\ spk' = spk /\ pb' = pb /\ state' = state
          /\ display' = display /\ successShown' = successShown
      BY <2>1 DEF bus, ui
    <3> QED
      BY <1>a, <1>b, <2>0, <2>1, <3>1, PoppedInv
  <2>2. CASE ~spk /\ Popped /\ CompleteTurn
    <3>1. /\ events' = <<>> /\ events' \in Seq(ServerEvents)
          /\ UNCHANGED <<phase, status, link, srv, srvOpen>>
      BY <2>0, <2>2, PopEmpties DEF Popped, server
    <3>2. /\ Replying /\ state' = "Idle"
          /\ ~mic' /\ ~spk' /\ pb' \in PlaybackFlags /\ ~pb'.active
          /\ mic' \in BOOLEAN /\ spk' \in BOOLEAN
          /\ due' \subseteq Timers /\ display' \in Displays
          /\ successShown' \in BOOLEAN
      BY <2>2, CompleteTurnEffect
    <3>3. TypeOK'
      BY <2>0, <3>1, <3>2 DEF Inv, TypeOK, States, radio
    <3>4. BusOwnership' /\ Quiesced' /\ SessionInv'
      BY <1>a, <2>0, <3>1, <3>2 DEF Inv, BusOwnership, Quiesced, SessionInv,
         InSession, Replying, SettledPhases
    <3> QED
      BY <3>3, <3>4 DEF Inv
  <2>3. CASE ~spk /\ CompletionOutOfOrder /\ UNCHANGED phase
    <3>1. FailRuntimeFrom(pb) /\ successShown' = successShown
          /\ phase' \in Phases
      BY <2>3, <1>a DEF CompletionOutOfOrder, Phases
    <3> QED
      BY <1>a, <2>0, <3>1, FailRuntimeInv DEF Inv, TypeOK, radio
  <2> QED
    BY <1>9, <2>1, <2>2, <2>3 DEF PopResponseDone
<1>10. CASE PopFatal
  BY <1>10, <1>a, <1>c DEF PopFatal
<1> QED
  BY <1>1, <1>2, <1>3, <1>4, <1>5, <1>6, <1>7, <1>8, <1>9, <1>10
     DEF ServiceRealtimeEvents

-----------------------------------------------------------------------------
LEMMA TailInv == Inv /\ ServiceProviderTail => Inv'
<1> SUFFICES ASSUME Inv, ServiceProviderTail PROVE Inv'
  OBVIOUS
<1>a. /\ phase = "tail" /\ phase' = "button" /\ phase' \in Phases
      /\ events = <<>> /\ status \in Statuses /\ state \in States
      /\ pb \in PlaybackFlags /\ (pb.active => spk)
      /\ responseDone \in BOOLEAN /\ audioDone \in BOOLEAN
      /\ streamed \in BOOLEAN /\ successShown \in BOOLEAN
  BY DEF ServiceProviderTail, ProviderConnected, ConnectTimeout,
         TransportFailed, PlaybackFailed, ResponseTimeout, TurnComplete,
         TailIdle, TailFails, TailStep, Phases, Inv, TypeOK, BusOwnership,
         SessionInv
\* Past the checks of the transport, its status is one a loop may end with:
\* the error state has no transport left to be disconnected.
<1>b. PastTransport =>
        status \in {"Idle", "Connecting", "AwaitingSession", "Ready"} /\ Calm
  BY <1>a DEF PastTransport, StatusIsFailure, Statuses, Inv, Quiesced, Calm
<1>1. CASE TailFails
  <2>1. /\ FailRuntimeFrom(pb)
        /\ UNCHANGED <<configured, responseDone, audioDone, streamed,
                       successShown, pressed, radio>>
    BY <1>1 DEF TailFails, FailRuntime
  <2> QED
    BY <1>a, <2>1, FailRuntimeInv DEF Inv, TypeOK, radio
<1>2. CASE ProviderConnected
  <2>1. state' = "Idle" /\ status = "Ready" /\ display' = "Idle"
    BY <1>2 DEF ProviderConnected, Apply
  <2>2. TypeOK'
    BY <1>a, <1>2, <2>1 DEF ProviderConnected, Inv, TypeOK, States, Displays,
       bus, transport, server, radio
  <2>3. BusOwnership' /\ Quiesced' /\ SessionInv'
    BY <1>a, <1>2, <2>1 DEF ProviderConnected, Inv, BusOwnership, Quiesced,
       SessionInv, InSession, Replying, SettledPhases, Calm, MuteFoundLoss,
       bus, transport
  <2> QED
    BY <2>2, <2>3 DEF Inv
<1>3. CASE TurnComplete
  <2>0. /\ PastTransport
        /\ UNCHANGED <<configured, responseDone, audioDone, streamed, pressed,
                       radio>>
    BY <1>3 DEF TurnComplete, PastPlayback
  <2>1. CASE CompleteTurn /\ UNCHANGED <<transport, server>>
    <3>1. UNCHANGED <<status, events, link, srv, srvOpen>>
      BY <2>1 DEF transport, server
    <3>2. /\ Replying /\ state' = "Idle"
          /\ ~mic' /\ ~spk' /\ pb' \in PlaybackFlags /\ ~pb'.active
          /\ mic' \in BOOLEAN /\ spk' \in BOOLEAN
          /\ due' \subseteq Timers /\ display' \in Displays
          /\ successShown' \in BOOLEAN
      BY <2>1, CompleteTurnEffect
    <3>3. TypeOK'
      BY <1>a, <2>0, <3>1, <3>2 DEF Inv, TypeOK, States, radio
    <3>4. BusOwnership' /\ Quiesced' /\ SessionInv'
      BY <1>a, <1>b, <2>0, <3>1, <3>2 DEF Inv, BusOwnership, Quiesced,
         SessionInv, InSession, Replying, SettledPhases, Calm
    <3> QED
      BY <3>3, <3>4 DEF Inv
  <2>2. CASE CompletionOutOfOrder
    <3>1. FailRuntimeFrom(pb) /\ successShown' = successShown
      BY <2>2 DEF CompletionOutOfOrder
    <3> QED
      BY <1>a, <2>0, <3>1, FailRuntimeInv DEF Inv, TypeOK, radio
  <2> QED
    BY <1>3, <2>1, <2>2 DEF TurnComplete
<1>4. CASE TailIdle
  BY <1>a, <1>b, <1>4, PhaseOnlyInv DEF TailIdle, PastPlayback, allButPhase,
     transport, Calm, MuteFoundLoss
<1> QED
  BY <1>1, <1>2, <1>3, <1>4 DEF ServiceProviderTail, ConnectTimeout,
     TransportFailed, PlaybackFailed, ResponseTimeout

-----------------------------------------------------------------------------
\* Both callers of finishRecording(): it ends the recording one way or
\* another.  Unless it fails the runtime the transport stays as it was, or the
\* mute found the connection gone and the device is Idle.
LEMMA FinishRecordingInv ==
  ASSUME Inv, FinishRecording, state = "RecordingAndStreaming",
         phase \in {"button", "recording"}, phase' \in {"recording",
         "network"},
         UNCHANGED <<configured, responseDone, audioDone, streamed,
                     successShown, radio>>, pressed' \in BOOLEAN
  PROVE  Inv'
<1>a. /\ events = <<>> /\ status = "Ready" /\ phase' \in Phases
      /\ pb \in PlaybackFlags /\ (pb.active => spk)
      /\ link \in Links
  BY DEF Inv, TypeOK, BusOwnership, SessionInv, InSession, SettledPhases,
         Phases, Calm, MuteFoundLoss
<1>1. CASE FailRuntimeFrom(pb)
  BY <1>1, <1>a, FailRuntimeInv DEF Inv, TypeOK, radio
<1>2. CASE ~FailRuntimeFrom(pb)
  <2>1. /\ StopAudioBus(pb) /\ UNCHANGED events
        /\ srvOpen' \in BOOLEAN /\ srv' \in Replies
        /\ state' \in {"Idle", "WaitingResponse"}
        /\ \/ UNCHANGED <<status, link>>
           \/ state' = "Idle" /\ status' = "Disconnected" /\ link' = "closed"
        /\ display' \in Displays /\ due' \subseteq Timers
    <3>1. CASE CancelRecording
      <4>1. /\ StopAudioBus(pb) /\ display' \in Displays
            /\ state' = "Idle" /\ due' \subseteq Timers
        BY <3>1 DEF CancelRecording, Apply, Displays, Inv, TypeOK
      <4>2. /\ UNCHANGED events /\ srvOpen' \in BOOLEAN /\ srv' \in Replies
            /\ \/ UNCHANGED <<status, link>>
               \/ status' = "Disconnected" /\ link' = "closed"
        BY <3>1 DEF CancelRecording, MuteSent, InputFails, SendFindsLoss,
           WriteTimesOut, Heard, Replies, transport, server, Inv, TypeOK
      <4> QED
        BY <4>1, <4>2
    <3>2. CASE CommitRecording
      BY <3>2, <1>2 DEF CommitRecording, Heard, Apply, Displays, Replies,
         Started, transport, Inv, TypeOK
    <3> QED
      BY <3>1, <3>2 DEF FinishRecording
  <2>2. /\ ~mic' /\ ~spk' /\ mic' \in BOOLEAN /\ spk' \in BOOLEAN
        /\ pb' = IF spk THEN Cancelled(pb) ELSE pb
        /\ UNCHANGED events
        /\ status' \in Statuses /\ link' \in Links
    BY <1>a, <2>1 DEF StopAudioBus, Statuses, Links
  <2>3. pb' \in PlaybackFlags /\ ~pb'.active
    BY <1>a, <2>2 DEF Cancelled, PlaybackFlags
  <2>4. TypeOK'
    BY <1>a, <2>1, <2>2, <2>3 DEF Inv, TypeOK, States, radio
  <2>5. BusOwnership' /\ Quiesced' /\ SessionInv'
    BY <1>a, <2>1, <2>2, <2>3 DEF Inv, BusOwnership, Quiesced, SessionInv,
       InSession, Replying, Calm, MuteFoundLoss
  <2> QED
    BY <2>4, <2>5 DEF Inv
<1> QED
  BY <1>1, <1>2

LEMMA ButtonInv == Inv /\ ServiceButton => Inv'
<1> SUFFICES ASSUME Inv, ServiceButton PROVE Inv'
  OBVIOUS
<1>p. phase = "button" /\ phase' = "recording" /\ pressed' \in BOOLEAN
  BY DEF ServiceButton, ButtonQuiet, EdgeIgnored, BeginRecording,
         ButtonReleased, Press, Release, ButtonStep, allButPhase, Inv, TypeOK
<1>q. events = <<>> /\ Calm
  BY <1>p DEF Inv, SessionInv, SettledPhases, MuteFoundLoss
<1>a. /\ phase = "button" /\ phase' = "recording"
      /\ phase' \in Phases /\ phase' \in SettledPhases
      /\ pressed' \in BOOLEAN /\ events = <<>> /\ Calm
      /\ pb \in PlaybackFlags /\ (pb.active => spk)
  BY <1>p, <1>q DEF Phases, SettledPhases, Inv, TypeOK, BusOwnership
<1>1. CASE ButtonQuiet
  <2>1. Calm'
    BY <1>1, <1>a DEF ButtonQuiet, allButPhase, transport, Calm
  <2> QED
    BY <1>1, <1>a, <2>1, PhaseOnlyInv DEF ButtonQuiet
<1>2. CASE EdgeIgnored
  <2>1. TypeOK'
    BY <1>2, <1>a DEF EdgeIgnored, Inv, TypeOK, turn, bus, transport, server,
       ui, radio
  <2>2. BusOwnership' /\ Quiesced' /\ SessionInv'
    BY <1>2, <1>a DEF EdgeIgnored, Inv, BusOwnership, Quiesced, SessionInv,
       InSession, Replying, SettledPhases, Calm, MuteFoundLoss, turn, bus,
       transport
  <2> QED
    BY <2>1, <2>2 DEF Inv
<1>3. CASE BeginRecording
  <2>0. /\ state = "Idle" /\ status = "Ready"
        /\ responseDone' = FALSE /\ audioDone' = FALSE /\ streamed' = FALSE
        /\ UNCHANGED <<configured, radio>>
    BY <1>3 DEF BeginRecording
  <2>1. CASE FailRuntimeFrom(pb) /\ UNCHANGED successShown
    BY <1>a, <2>0, <2>1, FailRuntimeInv DEF Inv, TypeOK, radio
  <2>2. CASE ~(FailRuntimeFrom(pb) /\ UNCHANGED successShown)
    <3>1. /\ srvOpen' = Heard(TRUE)
          /\ mic' = TRUE /\ spk' = FALSE
          /\ pb' = IF spk THEN Cancelled(pb) ELSE pb
          /\ state' = Apply(state, "ButtonPressed")
          /\ due' = Started({"minrec", "maxrec"})
          /\ display' = "Recording" /\ successShown' = FALSE
          /\ UNCHANGED <<transport, srv>>
      BY <1>3, <2>2 DEF BeginRecording
    <3>2. /\ state' = "RecordingAndStreaming" /\ due' \subseteq Timers
          /\ srvOpen' \in BOOLEAN /\ UNCHANGED <<status, events, link>>
      BY <2>0, <3>1 DEF Apply, Started, Heard, Inv, TypeOK, transport
    <3>3. pb' \in PlaybackFlags /\ ~pb'.active
      BY <1>a, <3>1 DEF Cancelled, PlaybackFlags
    <3>4. TypeOK'
      BY <1>a, <2>0, <3>1, <3>2, <3>3 DEF Inv, TypeOK, States, Displays, radio
    <3>5. BusOwnership' /\ Quiesced' /\ SessionInv'
      BY <1>a, <2>0, <3>1, <3>2, <3>3 DEF Inv, BusOwnership, Quiesced,
         SessionInv, InSession, Replying, Calm
    <3> QED
      BY <3>4, <3>5 DEF Inv
  <2> QED
    BY <2>1, <2>2
<1>4. CASE ButtonReleased
  BY <1>4, <1>a, FinishRecordingInv DEF ButtonReleased
<1> QED
  BY <1>1, <1>2, <1>3, <1>4 DEF ServiceButton

LEMMA RecordingInv == Inv /\ ServiceRecording => Inv'
<1> SUFFICES ASSUME Inv, ServiceRecording PROVE Inv'
  OBVIOUS
<1>a. /\ phase = "recording" /\ phase' = "network"
      /\ phase' \in Phases /\ phase' \in SettledPhases
      /\ events = <<>>
      /\ Calm \/ (state = "Idle" /\ status = "Disconnected" /\ link = "closed")
      /\ pb \in PlaybackFlags /\ (pb.active => spk)
  <2>1. phase = "recording" /\ phase' = "network"
    BY DEF ServiceRecording, NotRecording, RecordingTooLong, FrameNotReady,
           FrameStreamed, StreamingFails, Recording, RecordingStep
  <2> QED
    BY <2>1 DEF Phases, SettledPhases, Inv, TypeOK, BusOwnership, SessionInv,
       MuteFoundLoss
<1>1. CASE NotRecording \/ FrameNotReady
  <2>1. (Calm \/ MuteFoundLoss)'
    BY <1>1, <1>a DEF NotRecording, FrameNotReady, allButPhase, turn,
       transport, Calm, MuteFoundLoss
  <2> QED
    BY <1>1, <1>a, <2>1, PhaseOnlyInv DEF NotRecording, FrameNotReady
<1>2. CASE RecordingTooLong
  <2>1. /\ FinishRecording /\ state = "RecordingAndStreaming"
        /\ UNCHANGED <<configured, responseDone, audioDone, streamed,
                       successShown, radio>>
        /\ pressed' = pressed
    BY <1>2 DEF RecordingTooLong, Recording
  <2> QED
    BY <1>a, <2>1, FinishRecordingInv DEF Inv, TypeOK
<1>3. CASE FrameStreamed
  <2>1. TypeOK'
    BY <1>3, <1>a DEF FrameStreamed, Inv, TypeOK, bus, transport, server, ui,
       radio
  <2>2. BusOwnership' /\ Quiesced' /\ SessionInv'
    BY <1>3, <1>a DEF FrameStreamed, Inv, BusOwnership, Quiesced, SessionInv,
       InSession, Replying, SettledPhases, Calm, MuteFoundLoss, bus, transport
  <2> QED
    BY <2>1, <2>2 DEF Inv
<1>4. CASE StreamingFails
  <2>1. /\ FailRuntimeFrom(pb)
        /\ UNCHANGED <<configured, responseDone, audioDone, streamed,
                       successShown, pressed, radio>>
    BY <1>4 DEF StreamingFails, FailRuntime
  <2> QED
    BY <1>a, <2>1, FailRuntimeInv DEF Inv, TypeOK, radio
<1> QED
  BY <1>1, <1>2, <1>3, <1>4 DEF ServiceRecording
-----------------------------------------------------------------------------
LEMMA EnvironmentInv == Inv /\ Environment => Inv'
<1> SUFFICES ASSUME Inv, Environment PROVE Inv'
  OBVIOUS
<1>1. CASE TimePasses
  <2>1. /\ due' \subseteq Timers
        /\ UNCHANGED <<phase, configured, turn, bus, transport, server, ui,
                       pressed, radio>>
    BY <1>1 DEF TimePasses, DeadlinePasses, Inv, TypeOK
  <2>2. TypeOK'
    BY <2>1 DEF Inv, TypeOK, turn, bus, transport, server, ui, radio
  <2>3. BusOwnership' /\ Quiesced' /\ SessionInv'
    BY <2>1 DEF Inv, BusOwnership, Quiesced, SessionInv, Calm, MuteFoundLoss,
       InSession, Replying,
       turn, bus, transport
  <2> QED
    BY <2>2, <2>3 DEF Inv
<1>2. CASE WifiComes \/ WifiGoes \/ ClockIsSet
  <2>1. /\ wifi' \in BOOLEAN /\ clockOk' \in BOOLEAN
        /\ UNCHANGED <<phase, configured, turn, bus, transport, server, due,
                       ui, pressed>>
    BY <1>2 DEF WifiComes, WifiGoes, ClockIsSet, Inv, TypeOK
  <2>2. TypeOK'
    BY <2>1 DEF Inv, TypeOK, turn, bus, transport, server, ui
  <2>3. BusOwnership' /\ Quiesced' /\ SessionInv'
    BY <2>1 DEF Inv, BusOwnership, Quiesced, SessionInv, Calm, MuteFoundLoss,
       InSession, Replying,
       turn, bus, transport
  <2> QED
    BY <2>2, <2>3 DEF Inv
<1>3. CASE LinkGoes
  <2>1. TypeOK'
    BY <1>3 DEF LinkGoes, Inv, TypeOK, Links, Replies, turn, bus, ui, radio
  <2>2. BusOwnership' /\ Quiesced' /\ SessionInv'
    BY <1>3 DEF LinkGoes, Inv, BusOwnership, Quiesced, SessionInv, Calm,
       MuteFoundLoss,
       InSession, Replying, turn, bus
  <2> QED
    BY <2>1, <2>2 DEF Inv
<1>4. CASE PlaybackDrains \/ PlaybackBreaks
  <2>1. /\ pb' \in PlaybackFlags /\ ~pb'.active
        /\ UNCHANGED <<phase, configured, turn, mic, spk, transport, server,
                       due, ui, pressed, radio>>
    BY <1>4 DEF PlaybackDrains, PlaybackBreaks, PlaybackFlags, Inv, TypeOK
  <2>2. TypeOK'
    BY <2>1 DEF Inv, TypeOK, turn, transport, server, ui, radio
  <2>3. BusOwnership' /\ Quiesced' /\ SessionInv'
    BY <2>1 DEF Inv, BusOwnership, Quiesced, SessionInv, Calm, MuteFoundLoss,
       InSession, Replying,
       turn, transport
  <2> QED
    BY <2>2, <2>3 DEF Inv
<1>5. CASE Reboot
  <2>1. /\ state' \in {"Unconfigured", "ConnectingWifi"}
        /\ due' \subseteq Timers /\ events' = <<>>
        /\ display' \in Displays /\ pb' \in PlaybackFlags /\ ~pb'.active
    BY <1>5 DEF Reboot, Apply, Started, Displays, PlaybackFlags
  <2>2. events' \in Seq(ServerEvents)
    BY <2>1
  <2>3. TypeOK'
    BY <1>5, <2>1, <2>2 DEF Reboot, TypeOK, Phases, States, Statuses, Links,
       Replies
  <2>4. BusOwnership' /\ Quiesced' /\ SessionInv'
    BY <1>5, <2>1 DEF Reboot, BusOwnership, Quiesced, SessionInv, Calm,
       MuteFoundLoss,
       InSession, Replying
  <2> QED
    BY <2>3, <2>4 DEF Inv
<1> QED
  BY <1>1, <1>2, <1>3, <1>4, <1>5 DEF Environment

LEMMA NextInv == Inv /\ [Next]_vars => Inv'
<1> SUFFICES ASSUME Inv, [Next]_vars PROVE Inv'
  OBVIOUS
<1>1. CASE MainLoop
  BY <1>1, NetworkInv, SocketInv, EventsInv, TailInv, ButtonInv, RecordingInv
     DEF MainLoop
<1>2. CASE Environment
  BY <1>2, EnvironmentInv
<1>3. CASE UNCHANGED vars
  BY <1>3 DEF vars, allButPhase, turn, bus, transport, server, ui, radio, Inv,
     TypeOK, BusOwnership, Quiesced, SessionInv, Calm, MuteFoundLoss,
     InSession,
     Replying
<1> QED
  BY <1>1, <1>2, <1>3 DEF Next

LEMMA Invariance == Spec => []Inv
BY InitInv, NextInv, PTL DEF Spec

-----------------------------------------------------------------------------
\* Every variable keeps its type, whatever order the parts of the loop, the
\* playback task, the server and the faults come in.
THEOREM TypeCorrect == Spec => []TypeOK
<1>1. Inv => TypeOK
  BY DEF Inv
<1> QED
  BY <1>1, Invariance, PTL

\* stopAudioBus() cancels the playback only when the speaker runs
\* (esp32_voice_kit.ino:123-129); that is enough, because the playback task is
\* never active without it, and microphone and speaker never own the bus
\* together.
THEOREM BusOwned == Spec => []BusOwnership
<1>1. Inv => BusOwnership
  BY DEF Inv
<1> QED
  BY <1>1, Invariance, PTL

\* failRuntime() leaves nothing of a session behind, wherever it is called
\* from, and nothing of it comes back before the next connection attempt.
THEOREM SessionQuiesced == Spec => []Quiesced
<1>1. Inv => Quiesced
  BY DEF Inv
<1> QED
  BY <1>1, Invariance, PTL

\* serviceProvider() leaves no parsed event and no failed status to the rest
\* of the loop, and whoever may talk has a ready session; a loss that the mute
\* of a cancelled recording finds afterwards (esp32_voice_kit.ino:225) leaves
\* the device Idle, and not beyond the next serviceProvider().
THEOREM ProviderIsSettled == Spec => []ProviderSettled
<1>1. Inv => ProviderSettled
  BY DEF Inv, SessionInv, ProviderSettled, SettledPhases, Calm, MuteFoundLoss,
         InSession, Replying
<1> QED
  BY <1>1, Invariance, PTL
-----------------------------------------------------------------------------
\* The button is down in a recording, and the server listens outside one only
\* if it understands nothing any more; while it listens its link is up, so
\* that the failed mute of a live session is one that was cut off.
HeldAndMuted ==
  /\ RecordingNeedsPress
  /\ srvOpen => link = "up" /\ (state = "RecordingAndStreaming" \/ srv = "jammed")

\* failRuntime() ends any recording and the session with it.
LEMMA FailRuntimeHeld ==
  ASSUME Inv, NEW p, FailRuntimeFrom(p)
  PROVE  HeldAndMuted'
<1>1. srvOpen' = FALSE
  BY DEF FailRuntimeFrom, CloseTransport
<1>2. state' \in {"Unconfigured", "Error"}
  BY DEF FailRuntimeFrom, Apply, Inv, TypeOK, States
<1> QED
  BY <1>1, <1>2 DEF HeldAndMuted, RecordingNeedsPress

\* A step between two states without a recording, over the same session.
LEMMA NoRecordingHeld ==
  ASSUME HeldAndMuted, state # "RecordingAndStreaming",
         state' # "RecordingAndStreaming", UNCHANGED <<link, srv, srvOpen>>
  PROVE  HeldAndMuted'
BY DEF HeldAndMuted, RecordingNeedsPress

\* A step that changes neither the recording, the button nor the session.
LEMMA SameHeld ==
  ASSUME HeldAndMuted, UNCHANGED <<state, link, srv, srvOpen, pressed>>
  PROVE  HeldAndMuted'
BY DEF HeldAndMuted, RecordingNeedsPress

LEMMA NetworkHeld ==
  ASSUME Inv, HeldAndMuted, ServiceNetworkRuntime
  PROVE  HeldAndMuted'
<1>1. CASE WifiTimeout \/ WifiLost \/ ClockTimeout
  BY <1>1, FailRuntimeHeld DEF WifiTimeout, WifiLost, ClockTimeout, FailRuntime
<1>2. CASE WifiConnected \/ RecoverFromError
  BY <1>2, NoRecordingHeld DEF WifiConnected, RecoverFromError, Apply,
     transport, server
<1>3. CASE ClockSynchronized
  <2>1. CASE FailRuntime
    BY <2>1, FailRuntimeHeld DEF FailRuntime
  <2>2. CASE ~FailRuntime
    BY <1>3, <2>2 DEF ClockSynchronized, Apply, HeldAndMuted,
       RecordingNeedsPress
  <2> QED
    BY <2>1, <2>2
<1>4. CASE SuccessDisplayEnds \/ NetworkIdle
  BY <1>4, SameHeld DEF SuccessDisplayEnds, NetworkIdle, allButPhase, turn,
     transport, server
<1> QED
  BY <1>1, <1>2, <1>3, <1>4 DEF ServiceNetworkRuntime

\* No stray message makes a server understand again that was cut off.
LEMMA JammedStays ==
  ASSUME srv = "jammed", NEW m \in ServerSends(srv)
  PROVE  m[2] = "jammed"
BY DEF ServerSends, Script

LEMMA SocketHeld ==
  ASSUME Inv, HeldAndMuted, SocketLoop
  PROVE  HeldAndMuted'
<1>1. CASE SocketSkipped \/ SocketQuiet
  BY <1>1, SameHeld DEF SocketSkipped, SocketQuiet, allButPhase, turn,
     transport, server
<1>2. CASE SocketConnects \/ SocketFindsLoss \/ SocketOpens
  BY <1>2 DEF SocketConnects, SocketFindsLoss, SocketOpens, HeldAndMuted,
     RecordingNeedsPress, turn, server
<1>3. CASE SocketCloses
  BY <1>3 DEF SocketCloses, HeldAndMuted, RecordingNeedsPress, turn
<1>4. CASE SocketReceives
  <2>0. /\ link = "up" /\ events = <<>>
        /\ UNCHANGED <<state, pressed>>
    BY <1>4 DEF SocketReceives, SocketStep, turn, Inv, SessionInv
  <2>1. PICK m \in ServerSends(srv) :
          \/ /\ m[1] = "SessionCreated"
             /\ \/ /\ SendCanSucceed
                   /\ QueueEvent(m[1], "Ready", m[2]) /\ srvOpen' = Heard(FALSE)
                \/ /\ SendCanFail
                   /\ status' = "Disconnected" /\ link' = "closed"
                   /\ srv' = "off" /\ srvOpen' = FALSE
                   /\ UNCHANGED events
          \/ /\ m[1] = "Error"
             /\ QueueEvent(m[1], "ProviderError", m[2]) /\ UNCHANGED srvOpen
          \/ /\ m[1] = "ProtocolError"
             /\ QueueEvent(m[1], "ProtocolError", m[2]) /\ UNCHANGED srvOpen
          \/ /\ m[1] \notin {"SessionCreated", "Error", "ProtocolError"}
             /\ QueueEvent(m[1], status, m[2]) /\ UNCHANGED srvOpen
    BY <1>4 DEF SocketReceives
  <2>2. m[1] \in ServerEvents
    BY ServerSendsType DEF Inv, TypeOK
  <2>3. \/ srvOpen' = FALSE
        \/ link' = "up" /\ srv' = m[2] /\ (srvOpen' => srvOpen)
    BY <2>0, <2>1, <2>2, QueueEventFits DEF Heard
  <2>4. srv = "jammed" => m[2] = "jammed"
    BY JammedStays
  <2> QED
    BY <2>0, <2>3, <2>4 DEF HeldAndMuted, RecordingNeedsPress
<1> QED
  BY <1>1, <1>2, <1>3, <1>4 DEF SocketLoop

LEMMA EventsHeld ==
  ASSUME Inv, HeldAndMuted, ServiceRealtimeEvents
  PROVE  HeldAndMuted'
<1>1. CASE EventsDone \/ PopOther \/ PopTranscript \/ PopAudioDone
  BY <1>1, SameHeld DEF EventsDone, PopOther, PopTranscript, PopAudioDone,
     Popped, allButPhase, turn, transport, server
<1>2. CASE PopAudioStarted \/ SpeakerStarts \/ SpeakerContinues
  <2>1. /\ \/ UNCHANGED state
           \/ state = "WaitingResponse" /\ state' = "Playing"
        /\ UNCHANGED <<link, srv, srvOpen, pressed>>
    BY <1>2 DEF PopAudioStarted, SpeakerStarts, SpeakerContinues, Popped,
       Apply, server
  <2> QED
    BY <2>1, SameHeld, NoRecordingHeld
<1>3. CASE \E p : EventFails(p)
  BY <1>3, FailRuntimeHeld DEF EventFails
<1>4. CASE PopBadDelta \/ SpeakerFails \/ EnqueueFails \/ EnqueueRefused
           \/ PopFatal
  BY <1>3, <1>4 DEF PopBadDelta, SpeakerFails, EnqueueFails, EnqueueRefused,
     PopFatal
<1>5. CASE PopResponseDone
  <2>1. CASE Popped /\ UNCHANGED <<state, bus, due, ui>>
    BY <1>5, <2>1, SameHeld DEF PopResponseDone, Popped, server
  <2>2. CASE Popped /\ CompleteTurn
    <3>1. Replying /\ state' = "Idle"
      BY <2>2, CompleteTurnEffect
    <3> QED
      BY <2>2, <3>1, NoRecordingHeld DEF Popped, server, Replying
  <2>3. CASE CompletionOutOfOrder
    BY <2>3, FailRuntimeHeld DEF CompletionOutOfOrder
  <2> QED
    BY <1>5, <2>1, <2>2, <2>3 DEF PopResponseDone
<1> QED
  BY <1>1, <1>2, <1>4, <1>5 DEF ServiceRealtimeEvents

LEMMA TailHeld ==
  ASSUME Inv, HeldAndMuted, ServiceProviderTail
  PROVE  HeldAndMuted'
<1>1. CASE TailFails
  BY <1>1, FailRuntimeHeld DEF TailFails, FailRuntime
<1>2. CASE ProviderConnected
  BY <1>2, NoRecordingHeld DEF ProviderConnected, Apply, transport, server
<1>3. CASE TurnComplete
  <2>1. CASE CompleteTurn /\ UNCHANGED <<transport, server>>
    <3>1. Replying /\ state' = "Idle"
      BY <2>1, CompleteTurnEffect
    <3> QED
      BY <2>1, <3>1, NoRecordingHeld DEF transport, server, Replying
  <2>2. CASE CompletionOutOfOrder
    BY <2>2, FailRuntimeHeld DEF CompletionOutOfOrder
  <2> QED
    BY <1>3, <2>1, <2>2 DEF TurnComplete
<1>4. CASE TailIdle
  BY <1>4, SameHeld DEF TailIdle, allButPhase, turn, transport, server
<1> QED
  BY <1>1, <1>2, <1>3, <1>4 DEF ServiceProviderTail, ConnectTimeout,
     TransportFailed, PlaybackFailed, ResponseTimeout

\* However a recording ends, the server is muted, cut off or gone.
LEMMA FinishRecordingHeld ==
  ASSUME Inv, HeldAndMuted, FinishRecording,
         state = "RecordingAndStreaming", phase \in {"button", "recording"}
  PROVE  HeldAndMuted'
<1>1. status = "Ready"
  BY DEF Inv, SessionInv, InSession, SettledPhases, Calm, MuteFoundLoss
<1>2. CASE FailRuntimeFrom(pb)
  BY <1>2, FailRuntimeHeld
<1>3. CASE ~FailRuntimeFrom(pb)
  <2>1. CASE CancelRecording
    <3>1. state' = "Idle" /\ (MuteSent \/ InputFails)
      BY <2>1 DEF CancelRecording, Apply
    <3>2. CASE MuteSent
      BY <3>1, <3>2 DEF MuteSent, HeldAndMuted, RecordingNeedsPress, Heard,
         transport
    <3>3. CASE InputFails
      <4>1. CASE SendFindsLoss
        <5>1. ~srvOpen'
          BY <4>1 DEF SendFindsLoss, HeldAndMuted, server
        <5> QED
          BY <3>1, <5>1 DEF HeldAndMuted, RecordingNeedsPress
      <4>2. CASE WriteTimesOut
        BY <3>1, <4>2 DEF WriteTimesOut, HeldAndMuted, RecordingNeedsPress,
           transport
      <4> QED
        BY <1>1, <3>3, <4>1, <4>2 DEF InputFails
    <3> QED
      BY <3>1, <3>2, <3>3
  <2>2. CASE CommitRecording
    <3>1. /\ state' = "WaitingResponse" /\ UNCHANGED link
          /\ srvOpen' = Heard(FALSE) /\ (srv = "jammed" => srv' = srv)
      BY <1>3, <2>2 DEF CommitRecording, Apply, transport
    <3> QED
      BY <3>1 DEF HeldAndMuted, RecordingNeedsPress, Heard
  <2> QED
    BY <2>1, <2>2 DEF FinishRecording
<1> QED
  BY <1>2, <1>3

LEMMA ButtonHeld ==
  ASSUME Inv, HeldAndMuted, ServiceButton
  PROVE  HeldAndMuted'
<1>1. CASE ButtonQuiet
  BY <1>1, SameHeld DEF ButtonQuiet, allButPhase, turn, transport, server
<1>2. CASE EdgeIgnored
  BY <1>2 DEF EdgeIgnored, Press, Release, HeldAndMuted, RecordingNeedsPress,
     turn, transport, server
<1>3. CASE BeginRecording
  <2>1. CASE FailRuntimeFrom(pb)
    BY <2>1, FailRuntimeHeld
  <2>2. CASE ~FailRuntimeFrom(pb)
    BY <1>3, <2>2 DEF BeginRecording, Press, InputCanBeSent, SendCanSucceed,
       Apply, HeldAndMuted, RecordingNeedsPress, transport
  <2> QED
    BY <2>1, <2>2
<1>4. CASE ButtonReleased
  BY <1>4, FinishRecordingHeld DEF ButtonReleased, Release, ButtonStep
<1> QED
  BY <1>1, <1>2, <1>3, <1>4 DEF ServiceButton

LEMMA RecordingHeld ==
  ASSUME Inv, HeldAndMuted, ServiceRecording
  PROVE  HeldAndMuted'
<1>1. CASE NotRecording \/ FrameNotReady \/ FrameStreamed
  BY <1>1, SameHeld DEF NotRecording, FrameNotReady, FrameStreamed,
     allButPhase, turn, transport, server
<1>2. CASE RecordingTooLong
  BY <1>2, FinishRecordingHeld DEF RecordingTooLong, Recording, RecordingStep
<1>3. CASE StreamingFails
  BY <1>3, FailRuntimeHeld DEF StreamingFails, FailRuntime
<1> QED
  BY <1>1, <1>2, <1>3 DEF ServiceRecording

LEMMA EnvironmentHeld ==
  ASSUME Inv, HeldAndMuted, Environment
  PROVE  HeldAndMuted'
<1>1. CASE TimePasses \/ WifiComes \/ WifiGoes \/ ClockIsSet
           \/ PlaybackDrains \/ PlaybackBreaks
  BY <1>1, SameHeld DEF TimePasses, DeadlinePasses, WifiComes, WifiGoes,
     ClockIsSet, PlaybackDrains, PlaybackBreaks, turn, transport, server
<1>2. CASE LinkGoes
  BY <1>2 DEF LinkGoes, HeldAndMuted, RecordingNeedsPress, turn
<1>3. CASE Reboot
  BY <1>3 DEF Reboot, Apply, HeldAndMuted, RecordingNeedsPress
<1> QED
  BY <1>1, <1>2, <1>3 DEF Environment

LEMMA HeldInvariance == Spec => []HeldAndMuted
<1>1. Init => HeldAndMuted
  BY DEF Init, Apply, HeldAndMuted, RecordingNeedsPress
<1>2. Inv /\ HeldAndMuted /\ [Next]_vars => HeldAndMuted'
  <2> SUFFICES ASSUME Inv, HeldAndMuted, [Next]_vars PROVE HeldAndMuted'
    OBVIOUS
  <2>1. CASE MainLoop
    BY <2>1, NetworkHeld, SocketHeld, EventsHeld, TailHeld, ButtonHeld,
       RecordingHeld DEF MainLoop
  <2>2. CASE Environment
    BY <2>2, EnvironmentHeld
  <2>3. CASE UNCHANGED vars
    BY <2>3, SameHeld DEF vars, allButPhase, turn, transport, server
  <2> QED
    BY <2>1, <2>2, <2>3 DEF Next
<1> QED
  BY <1>1, <1>2, Invariance, PTL DEF Spec

\* Every recording began with the press that is still held: serviceButton()
\* begins one only at a press, and the release ends it in the same pass
\* (esp32_voice_kit.ino:490-509), whatever the server sends meanwhile.
THEOREM RecordingIsHeld == Spec => []RecordingNeedsPress
<1>1. HeldAndMuted => RecordingNeedsPress
  BY DEF HeldAndMuted
<1> QED
  BY <1>1, HeldInvariance, PTL

\* Outside a recording the server does not listen, unless a message to it was
\* cut off, although finishRecording() ignores whether the mute was sent
\* (esp32_voice_kit.ino:225).
THEOREM MutedWhenNotRecording == Spec => []MutedOutsideRecording
<1>1. HeldAndMuted => MutedOutsideRecording
  BY DEF HeldAndMuted, MutedOutsideRecording
<1> QED
  BY <1>1, HeldInvariance, PTL
-----------------------------------------------------------------------------
\* A drained turn is over for the playback, and a device that has left the
\* setup has a configuration.
FlowInv ==
  /\ pb.drained => ~pb.active
  /\ state # "Unconfigured" => configured

\* What a step may do to a deadline, to the end of a turn, and to the link.
FreshStep ==
  state' # state =>
    /\ state' = "ConnectingWifi" => "wifi" \notin due'
    /\ state' = "SyncingClock" => "clock" \notin due'
    /\ state' = "ConnectingProvider" => "connect" \notin due'
    /\ state' = "RecordingAndStreaming" => {"minrec", "maxrec"} \cap due' = {}
    /\ state' = "WaitingResponse" => "response" \notin due'
    /\ state' = "Error" => "error" \notin due'

WholeStep ==
  Replying /\ state' = "Idle" =>
    /\ responseDone'
    /\ spk => pb.drained /\ audioDone
    /\ ~pb.active

LinkStep == [TransportLink!Next]_<<status, link>>

Flows == FlowInv' /\ FreshStep /\ WholeStep /\ LinkStep

LEMMA FailRuntimeFlows ==
  ASSUME Inv, FlowInv, NEW p \in PlaybackFlags, p.drained => ~p.active,
         FailRuntimeFrom(p), UNCHANGED configured
  PROVE  Flows
<1>1. /\ state' = Apply(state, "Failure") /\ due' = Started({"error"})
      /\ pb' = IF spk THEN Cancelled(p) ELSE p
      /\ status' = "Idle" /\ link' = "closed"
  BY DEF FailRuntimeFrom, StopAudioBus, CloseTransport
<1>2. \/ state' = "Unconfigured" /\ state = "Unconfigured"
      \/ state' = "Error" /\ state # "Unconfigured"
  BY <1>1 DEF Apply, Inv, TypeOK, States
<1>3. FlowInv'
  BY <1>1, <1>2 DEF FlowInv, Cancelled, PlaybackFlags
<1>4. FreshStep /\ WholeStep
  BY <1>1, <1>2 DEF FreshStep, WholeStep, Started
<1>5. LinkStep
  BY <1>1 DEF LinkStep, TransportLink!Next, TransportLink!Close
<1> QED
  BY <1>3, <1>4, <1>5 DEF Flows

\* A step that changes neither the turn's state nor the link's.
LEMMA SteadyFlows ==
  ASSUME FlowInv, UNCHANGED <<state, configured, status, link>>,
         pb'.drained => ~pb'.active
  PROVE  Flows
BY DEF Flows, FlowInv, FreshStep, WholeStep, LinkStep, Replying

LEMMA NetworkFlows ==
  ASSUME Inv, FlowInv, ServiceNetworkRuntime
  PROVE  Flows
<1>a. pb \in PlaybackFlags /\ (pb.drained => ~pb.active)
  BY DEF Inv, TypeOK, FlowInv
<1>1. CASE WifiTimeout \/ WifiLost \/ ClockTimeout
  BY <1>1, <1>a, FailRuntimeFlows
     DEF WifiTimeout, WifiLost, ClockTimeout, FailRuntime
<1>2. CASE WifiConnected
  <2>1. /\ state' = "SyncingClock" /\ due' = Started({"clock"})
        /\ UNCHANGED <<configured, pb, status, link>>
        /\ state = "ConnectingWifi"
    BY <1>2 DEF WifiConnected, Apply, bus, transport
  <2> QED
    BY <2>1 DEF Flows, FlowInv, FreshStep, WholeStep, LinkStep, Started
<1>3. CASE ClockSynchronized
  <2>1. CASE FailRuntime
    BY <1>a, <1>3, <2>1, FailRuntimeFlows DEF ClockSynchronized, FailRuntime
  <2>2. CASE ~FailRuntime
    <3>1. /\ state = "SyncingClock" /\ state' = "ConnectingProvider"
          /\ status' = "Connecting" /\ link' = "closed"
          /\ due' = Started({"connect"})
          /\ UNCHANGED <<configured, pb>>
      BY <1>3, <2>2 DEF ClockSynchronized, Apply, bus
    <3>2. LinkStep
      BY <3>1 DEF LinkStep, TransportLink!Next, TransportLink!Begin
    <3> QED
      BY <3>1, <3>2 DEF Flows, FlowInv, FreshStep, WholeStep, Started
  <2> QED
    BY <2>1, <2>2
<1>4. CASE RecoverFromError
  <2>1. /\ state = "Error" /\ state' = "ConnectingWifi"
        /\ configured => due' = Started({"wifi"})
        /\ UNCHANGED <<configured, pb, status, link>>
    BY <1>4 DEF RecoverFromError, Apply, bus, transport
  <2> QED
    BY <2>1 DEF Flows, FlowInv, FreshStep, WholeStep, LinkStep, Started
<1>5. CASE SuccessDisplayEnds \/ NetworkIdle
  BY <1>5, <1>a, SteadyFlows DEF SuccessDisplayEnds, NetworkIdle, allButPhase,
     turn, bus, transport
<1> QED
  BY <1>1, <1>2, <1>3, <1>4, <1>5 DEF ServiceNetworkRuntime

LEMMA SocketFlows ==
  ASSUME Inv, FlowInv, SocketLoop
  PROVE  Flows
<1>a. /\ pb.drained => ~pb.active
      /\ UNCHANGED <<state, configured, pb>>
      /\ events = <<>>
      /\ status \notin {"ProviderError", "ProtocolError"}
  <2>1. phase = "socket" /\ UNCHANGED <<state, configured, pb>>
    BY DEF SocketLoop, SocketSkipped, SocketConnects, SocketFindsLoss,
           SocketOpens, SocketCloses, SocketQuiet, SocketReceives, SocketStep,
           allButPhase, turn, bus
  <2> QED
    BY <2>1 DEF FlowInv, Inv, SessionInv, SettledPhases, Calm, MuteFoundLoss
<1>b. LinkStep => Flows
  BY <1>a DEF Flows, FlowInv, FreshStep, WholeStep, Replying
<1>1. CASE SocketSkipped \/ SocketQuiet
  BY <1>1, <1>b DEF SocketSkipped, SocketQuiet, allButPhase, transport,
     LinkStep
<1>2. CASE SocketConnects
  BY <1>2, <1>b DEF SocketConnects, LinkStep, TransportLink!Next,
     TransportLink!Connects
<1>3. CASE SocketFindsLoss
  BY <1>3, <1>b DEF SocketFindsLoss, LinkStep, TransportLink!Next,
     TransportLink!FindsLoss, TransportLink!AfterLoss
<1>4. CASE SocketOpens
  BY <1>4, <1>b DEF SocketOpens, LinkStep, TransportLink!Next,
     TransportLink!Opens, TransportLink!OpensInVain
<1>5. CASE SocketCloses
  <2>1. TransportLink!Ends
    BY <1>5, <1>a DEF SocketCloses, TransportLink!Ends, TransportLink!AfterLoss
  <2> QED
    BY <1>b, <2>1 DEF LinkStep, TransportLink!Next
<1>6. CASE SocketReceives
  <2>1. PICK m \in ServerSends(srv) :
          \/ /\ m[1] = "SessionCreated"
             /\ \/ /\ SendCanSucceed
                   /\ QueueEvent(m[1], "Ready", m[2]) /\ srvOpen' = Heard(FALSE)
                \/ /\ SendCanFail
                   /\ status' = "Disconnected" /\ link' = "closed"
                   /\ srv' = "off" /\ srvOpen' = FALSE
                   /\ UNCHANGED events
          \/ /\ m[1] = "Error"
             /\ QueueEvent(m[1], "ProviderError", m[2]) /\ UNCHANGED srvOpen
          \/ /\ m[1] = "ProtocolError"
             /\ QueueEvent(m[1], "ProtocolError", m[2]) /\ UNCHANGED srvOpen
          \/ /\ m[1] \notin {"SessionCreated", "Error", "ProtocolError"}
             /\ QueueEvent(m[1], status, m[2]) /\ UNCHANGED srvOpen
    BY <1>6 DEF SocketReceives
  <2>2. m[1] \in ServerEvents
    BY ServerSendsType DEF Inv, TypeOK
  <2>3. link = "up"
    BY <1>6 DEF SocketReceives
  <2>4. \/ UNCHANGED <<status, link>>
        \/ /\ status' \in {"Ready", "ProviderError", "ProtocolError"}
           /\ link' = "up"
        \/ status' = "Disconnected" /\ link' = "closed"
    BY <1>a, <2>1, <2>2, <2>3, QueueEventFits
  <2> QED
    BY <1>b, <2>3, <2>4 DEF LinkStep, TransportLink!Next,
       TransportLink!Receives, TransportLink!ReceivesInVain
<1> QED
  BY <1>1, <1>2, <1>3, <1>4, <1>5, <1>6 DEF SocketLoop

\* completeTurn() over a playback that has ended or was never begun.
LEMMA CompleteTurnFlows ==
  ASSUME Inv, FlowInv, CompleteTurn, responseDone',
         spk => pb.drained /\ audioDone, UNCHANGED <<configured, status, link>>
  PROVE  Flows
<1>1. Replying /\ state' = "Idle" /\ ~pb'.active
  BY CompleteTurnEffect
<1>2. ~pb.active
  BY DEF FlowInv, Inv, BusOwnership
<1> QED
  BY <1>1, <1>2 DEF Flows, FlowInv, FreshStep, WholeStep, LinkStep, Replying

LEMMA EventsFlow ==
  ASSUME Inv, FlowInv, ServiceRealtimeEvents
  PROVE  Flows
<1>a. pb \in PlaybackFlags /\ (pb.drained => ~pb.active)
  BY DEF Inv, TypeOK, FlowInv
<1>c. ASSUME NEW p \in PlaybackFlags, p.drained => ~p.active, EventFails(p),
             UNCHANGED configured
      PROVE  Flows
  BY <1>c, FailRuntimeFlows DEF EventFails
<1>1. CASE EventsDone \/ PopOther \/ PopTranscript
  BY <1>1, <1>a, SteadyFlows DEF EventsDone, PopOther, PopTranscript, Popped,
     allButPhase, turn, bus, transport
<1>2. CASE PopAudioStarted \/ SpeakerStarts \/ SpeakerContinues
  <2>1. /\ \/ UNCHANGED state
           \/ state = "WaitingResponse" /\ state' = "Playing"
        /\ UNCHANGED <<configured, status, link>>
        /\ pb' = pb \/ pb' = NewTurn
    BY <1>2 DEF PopAudioStarted, SpeakerStarts, SpeakerContinues, Popped,
       Apply, bus
  <2>2. pb'.drained => ~pb'.active
    BY <1>a, <2>1 DEF NewTurn
  <2> QED
    BY <2>1, <2>2 DEF Flows, FlowInv, FreshStep, WholeStep, LinkStep, Replying
<1>3. CASE PopBadDelta \/ EnqueueFails
  <2>1. Failed(pb) \in PlaybackFlags /\ (Failed(pb).drained => ~Failed(pb).active)
    BY <1>a DEF Failed, PlaybackFlags
  <2> QED
    BY <1>3, <1>c, <2>1 DEF PopBadDelta, EnqueueFails, EventFails,
       FailRuntimeFrom
<1>4. CASE SpeakerFails
  <2>1. PICK p \in IF pb.active THEN {Cancelled(pb)}
                   ELSE {Failed(pb), Cancelled(Failed(NewTurn))} :
          EventFails(p)
    BY <1>4 DEF SpeakerFails
  <2>2. p \in PlaybackFlags /\ (p.drained => ~p.active)
    BY <1>a, <2>1 DEF Cancelled, Failed, NewTurn, PlaybackFlags
  <2> QED
    BY <1>c, <2>1, <2>2 DEF EventFails
<1>5. CASE EnqueueRefused \/ PopFatal
  BY <1>5, <1>a, <1>c DEF EnqueueRefused, PopFatal, EventFails
<1>6. CASE PopAudioDone
  <2>1. /\ UNCHANGED <<state, configured, status, link>>
        /\ pb' = IF pb.active THEN [pb EXCEPT !.inputDone = TRUE] ELSE pb
    BY <1>6 DEF PopAudioDone, Popped
  <2>2. pb'.drained => ~pb'.active
    BY <1>a, <2>1 DEF PlaybackFlags
  <2> QED
    BY <2>1, <2>2, SteadyFlows
<1>7. CASE PopResponseDone
  <2>1. CASE Popped /\ UNCHANGED <<state, bus, due, ui>>
    BY <1>7, <1>a, <2>1, SteadyFlows DEF PopResponseDone, Popped, bus
  <2>2. CASE ~spk /\ Popped /\ CompleteTurn
    BY <1>7, <2>2, CompleteTurnFlows DEF PopResponseDone, Popped
  <2>3. CASE CompletionOutOfOrder
    BY <1>7, <1>a, <2>3, FailRuntimeFlows
       DEF PopResponseDone, CompletionOutOfOrder
  <2> QED
    BY <1>7, <2>1, <2>2, <2>3 DEF PopResponseDone
<1> QED
  BY <1>1, <1>2, <1>3, <1>4, <1>5, <1>6, <1>7 DEF ServiceRealtimeEvents

LEMMA TailFlows ==
  ASSUME Inv, FlowInv, ServiceProviderTail
  PROVE  Flows
<1>a. pb \in PlaybackFlags /\ (pb.drained => ~pb.active)
  BY DEF Inv, TypeOK, FlowInv
<1>1. CASE TailFails
  BY <1>1, <1>a, FailRuntimeFlows DEF TailFails, FailRuntime
<1>2. CASE ProviderConnected
  <2>1. /\ state = "ConnectingProvider" /\ state' = "Idle"
        /\ UNCHANGED <<configured, pb, status, link>>
    BY <1>2 DEF ProviderConnected, Apply, bus, transport
  <2> QED
    BY <2>1 DEF Flows, FlowInv, FreshStep, WholeStep, LinkStep, Replying
<1>3. CASE TurnComplete
  <2>1. CASE CompleteTurn /\ UNCHANGED <<transport, server>>
    <3>1. /\ responseDone' /\ pb.drained /\ audioDone
          /\ UNCHANGED <<configured, status, link>>
      BY <1>3, <2>1 DEF TurnComplete, PlaybackComplete, transport
    <3> QED
      BY <2>1, <3>1, CompleteTurnFlows
  <2>2. CASE CompletionOutOfOrder
    BY <1>3, <1>a, <2>2, FailRuntimeFlows DEF TurnComplete,
       CompletionOutOfOrder
  <2> QED
    BY <1>3, <2>1, <2>2 DEF TurnComplete
<1>4. CASE TailIdle
  BY <1>4, <1>a, SteadyFlows DEF TailIdle, allButPhase, turn, bus, transport
<1> QED
  BY <1>1, <1>2, <1>3, <1>4 DEF ServiceProviderTail, ConnectTimeout,
     TransportFailed, PlaybackFailed, ResponseTimeout

LEMMA FinishRecordingFlows ==
  ASSUME Inv, FlowInv, FinishRecording, state = "RecordingAndStreaming",
         UNCHANGED configured
  PROVE  Flows
<1>a. pb \in PlaybackFlags /\ (pb.drained => ~pb.active)
  BY DEF Inv, TypeOK, FlowInv
<1>1. CASE FailRuntimeFrom(pb)
  BY <1>1, <1>a, FailRuntimeFlows
<1>2. CASE ~FailRuntimeFrom(pb)
  <2>1. /\ StopAudioBus(pb)
        /\ \/ state' = "Idle"
           \/ state' = "WaitingResponse" /\ due' = Started({"response"})
    BY <1>2 DEF FinishRecording, CancelRecording, CommitRecording, Apply
  <2>2. pb'.drained => ~pb'.active
    BY <1>a, <2>1 DEF StopAudioBus, Cancelled, PlaybackFlags
  <2>3. LinkStep
    <3>1. CASE UNCHANGED <<status, link>>
      BY <3>1 DEF LinkStep
    <3>2. CASE SendFindsLoss
      BY <3>2 DEF SendFindsLoss, LinkStep, TransportLink!Next,
         TransportLink!FindsLoss, TransportLink!AfterLoss
    <3> QED
      BY <1>2, <3>1, <3>2 DEF FinishRecording, CancelRecording,
         CommitRecording, MuteSent, InputFails, WriteTimesOut, transport
  <2> QED
    BY <2>1, <2>2, <2>3 DEF Flows, FlowInv, FreshStep, WholeStep, Started,
       Replying
<1> QED
  BY <1>1, <1>2

LEMMA ButtonFlows ==
  ASSUME Inv, FlowInv, ServiceButton
  PROVE  Flows
<1>a. pb \in PlaybackFlags /\ (pb.drained => ~pb.active)
  BY DEF Inv, TypeOK, FlowInv
<1>1. CASE ButtonQuiet \/ EdgeIgnored
  BY <1>1, <1>a, SteadyFlows DEF ButtonQuiet, EdgeIgnored, allButPhase, turn,
     bus, transport
<1>2. CASE BeginRecording
  <2>1. CASE FailRuntimeFrom(pb)
    BY <1>2, <1>a, <2>1, FailRuntimeFlows DEF BeginRecording
  <2>2. CASE ~FailRuntimeFrom(pb)
    <3>1. /\ state = "Idle" /\ state' = "RecordingAndStreaming"
          /\ due' = Started({"minrec", "maxrec"})
          /\ pb' = IF spk THEN Cancelled(pb) ELSE pb
          /\ UNCHANGED <<configured, status, link>>
      BY <1>2, <2>2 DEF BeginRecording, Apply, transport
    <3>2. pb'.drained => ~pb'.active
      BY <1>a, <3>1 DEF Cancelled, PlaybackFlags
    <3> QED
      BY <3>1, <3>2 DEF Flows, FlowInv, FreshStep, WholeStep, LinkStep,
         Started, Replying
  <2> QED
    BY <2>1, <2>2
<1>3. CASE ButtonReleased
  BY <1>3, FinishRecordingFlows DEF ButtonReleased
<1> QED
  BY <1>1, <1>2, <1>3 DEF ServiceButton

LEMMA RecordingFlows ==
  ASSUME Inv, FlowInv, ServiceRecording
  PROVE  Flows
<1>a. pb \in PlaybackFlags /\ (pb.drained => ~pb.active)
  BY DEF Inv, TypeOK, FlowInv
<1>1. CASE NotRecording \/ FrameNotReady \/ FrameStreamed
  BY <1>1, <1>a, SteadyFlows DEF NotRecording, FrameNotReady, FrameStreamed,
     allButPhase, turn, bus, transport
<1>2. CASE RecordingTooLong
  BY <1>2, FinishRecordingFlows DEF RecordingTooLong, Recording
<1>3. CASE StreamingFails
  BY <1>3, <1>a, FailRuntimeFlows DEF StreamingFails, FailRuntime
<1> QED
  BY <1>1, <1>2, <1>3 DEF ServiceRecording

LEMMA EnvironmentFlows ==
  ASSUME Inv, FlowInv, Environment
  PROVE  Flows
<1>a. pb \in PlaybackFlags /\ (pb.drained => ~pb.active)
  BY DEF Inv, TypeOK, FlowInv
<1>1. CASE TimePasses \/ WifiComes \/ WifiGoes \/ ClockIsSet
  BY <1>1, <1>a, SteadyFlows DEF TimePasses, DeadlinePasses, WifiComes,
     WifiGoes, ClockIsSet, turn, bus, transport
<1>2. CASE PlaybackDrains \/ PlaybackBreaks
  <2>1. ~pb'.active /\ UNCHANGED <<state, configured, status, link>>
    BY <1>2, <1>a DEF PlaybackDrains, PlaybackBreaks, PlaybackFlags, turn,
       transport
  <2> QED
    BY <2>1, SteadyFlows
<1>3. CASE LinkGoes
  <2>1. LinkStep
    BY <1>3 DEF LinkGoes, LinkStep, TransportLink!Next, TransportLink!Loses
  <2> QED
    BY <1>3, <1>a, <2>1 DEF LinkGoes, Flows, FlowInv, FreshStep, WholeStep,
       Replying, turn, bus
<1>4. CASE Reboot
  <2>1. /\ state' = IF configured' THEN "ConnectingWifi" ELSE "Unconfigured"
        /\ due' = Started(IF configured' THEN {"wifi"} ELSE {})
        /\ ~pb'.active /\ status' = "Idle" /\ link' = "closed"
    BY <1>4 DEF Reboot, Apply
  <2>2. LinkStep
    BY <2>1 DEF LinkStep, TransportLink!Next, TransportLink!Close
  <2> QED
    BY <2>1, <2>2 DEF Flows, FlowInv, FreshStep, WholeStep, Started
<1> QED
  BY <1>1, <1>2, <1>3, <1>4 DEF Environment

LEMMA NextFlows == Inv /\ FlowInv /\ [Next]_vars => Flows
<1> SUFFICES ASSUME Inv, FlowInv, [Next]_vars PROVE Flows
  OBVIOUS
<1>1. CASE MainLoop
  BY <1>1, NetworkFlows, SocketFlows, EventsFlow, TailFlows, ButtonFlows,
     RecordingFlows DEF MainLoop
<1>2. CASE Environment
  BY <1>2, EnvironmentFlows
<1>3. CASE UNCHANGED vars
  BY <1>3, SteadyFlows DEF vars, allButPhase, turn, bus, transport, FlowInv
<1> QED
  BY <1>1, <1>2, <1>3 DEF Next

LEMMA FlowInvariance == Spec => [](Inv /\ FlowInv)
<1>1. Init => FlowInv
  BY DEF Init, Apply, FlowInv
<1>2. Inv /\ FlowInv /\ [Next]_vars => FlowInv'
  BY NextFlows DEF Flows
<1> QED
  BY <1>1, <1>2, Invariance, PTL DEF Spec

\* Whatever leads to a state that has a deadline stores its starting time in
\* the same pass: the five millis() stores of esp32_voice_kit.ino suffice.
THEOREM DeadlinesAreFresh == Spec => FreshDeadlines
<1>1. Inv /\ FlowInv /\ [Next]_vars => [FreshStep]_vars
  BY NextFlows DEF Flows
<1> QED
  BY <1>1, FlowInvariance, PTL DEF Spec, FreshDeadlines, FreshStep

\* completeTurn() is reached only after response.done, and only with nothing
\* left to play (esp32_voice_kit.ino:393-401, 482-487).
THEOREM TurnsAreWhole == Spec => NoTruncatedTurn
<1>1. Inv /\ FlowInv /\ [Next]_vars => [WholeStep]_vars
  BY NextFlows DEF Flows
<1> QED
  BY <1>1, FlowInvariance, PTL DEF Spec, NoTruncatedTurn, WholeStep

\* What the main loop and the network do to the transport are steps of
\* RealtimeLink, the promise WebSocketClient is checked against.
THEOREM DrivesALink == Spec => DrivesLink
<1>1. Init => TransportLink!Init
  BY DEF Init, TransportLink!Init
<1>2. Inv /\ FlowInv /\ [Next]_vars => [TransportLink!Next]_<<status, link>>
  BY NextFlows DEF Flows, LinkStep
<1> QED
  BY <1>1, <1>2, FlowInvariance, PTL DEF Spec, DrivesLink, TransportLink!Spec

-----------------------------------------------------------------------------
(* With a server that follows the protocol.                                *)

\* The server owes an answer to an input that was committed.
Answering == {"asked", "started", "speaking", "spoken"}

ReplyParts == {"AudioStarted", "AudioDelta", "AudioDone", "ResponseDone"}

\* While the server owes an answer the device waits for it, and so it does
\* while a part of one is in its queue: the answer's end, response.done, is
\* the last of it, and the mark it leaves is cleared before the next question.
DialogInv ==
  /\ srv \in Answering => Replying /\ ~responseDone
  /\ events # <<>> /\ Head(events) \in ReplyParts \union {"Transcript"} => Replying
  /\ events # <<>> /\ Head(events) = "ResponseDone" => srv \notin Answering
  /\ state = "RecordingAndStreaming" => ~responseDone
  /\ spk => state = "Playing"
  /\ DisplayAgrees

Dialog == Inv /\ FlowInv /\ DialogInv

\* failRuntime() ends the dialog wherever it is called.
LEMMA FailRuntimeDialog ==
  ASSUME Inv, NEW p, FailRuntimeFrom(p)
  PROVE  DialogInv'
<1>1. /\ ~spk' /\ events' = <<>> /\ srv' = "off" /\ display' = "Error"
      /\ state' \in {"Unconfigured", "Error"}
  BY DEF FailRuntimeFrom, StopAudioBus, CloseTransport, Apply, Inv, TypeOK,
     States
<1> QED
  BY <1>1 DEF DialogInv, DisplayAgrees, Answering

\* A step that changes nothing the dialog is about.
LEMMA SteadyDialog ==
  ASSUME DialogInv,
         UNCHANGED <<state, responseDone, spk, events, srv, display,
         successShown>>
  PROVE  DialogInv'
BY DEF DialogInv, DisplayAgrees, Replying

LEMMA NetworkDialog ==
  ASSUME Dialog, ServiceNetworkRuntime
  PROVE  DialogInv'
<1> USE DEF Dialog
<1>a. events = <<>> /\ state \in States
  BY DEF ServiceNetworkRuntime, NetworkStep, WifiConnected, WifiTimeout,
     WifiLost, ClockSynchronized, ClockTimeout, RecoverFromError,
     SuccessDisplayEnds, NetworkIdle, Inv, SessionInv, TypeOK
<1>1. CASE WifiTimeout \/ WifiLost \/ ClockTimeout
  BY <1>1, FailRuntimeDialog
     DEF WifiTimeout, WifiLost, ClockTimeout, FailRuntime
<1>2. CASE WifiConnected
  <2>1. /\ state = "ConnectingWifi" /\ state' = "SyncingClock"
        /\ UNCHANGED <<responseDone, spk, events, srv, display>>
    BY <1>2 DEF WifiConnected, Apply, bus, transport, server, ui
  <2> QED
    BY <1>a, <2>1 DEF DialogInv, DisplayAgrees, Replying
<1>3. CASE ClockSynchronized
  <2>1. CASE FailRuntime
    BY <2>1, FailRuntimeDialog DEF FailRuntime
  <2>2. CASE ~FailRuntime
    <3>1. /\ state = "SyncingClock" /\ state' = "ConnectingProvider"
          /\ events' = <<>> /\ srv' = "off" /\ display' = "Connecting"
          /\ UNCHANGED spk
      BY <1>3, <2>2 DEF ClockSynchronized, Apply, bus
    <3> QED
      BY <3>1 DEF DialogInv, DisplayAgrees, Answering
  <2> QED
    BY <2>1, <2>2
<1>4. CASE RecoverFromError
  <2>1. /\ state = "Error" /\ state' = "ConnectingWifi"
        /\ display' = "Connecting"
        /\ UNCHANGED <<responseDone, spk, events, srv>>
    BY <1>4 DEF RecoverFromError, Apply, FlowInv, bus, transport, server
  <2> QED
    BY <1>a, <2>1 DEF DialogInv, DisplayAgrees, Replying
<1>5. CASE SuccessDisplayEnds
  <2>1. /\ state = "Idle" /\ display' = "Idle"
        /\ UNCHANGED <<state, responseDone, spk, events, srv>>
    BY <1>5 DEF SuccessDisplayEnds, turn, bus, transport, server
  <2> QED
    BY <1>a, <2>1 DEF DialogInv, DisplayAgrees, Replying
<1>6. CASE NetworkIdle
  BY <1>6, SteadyDialog DEF NetworkIdle, allButPhase, turn, bus, transport,
     server, ui
<1> QED
  BY <1>1, <1>2, <1>3, <1>4, <1>5, <1>6 DEF ServiceNetworkRuntime

\* What a server that follows the protocol sends: a part of an answer only
\* while it owes one, and response.done as the last.
LEMMA ServerFollows ==
  ASSUME ~StrayServer, NEW r \in Replies, NEW m \in ServerSends(r)
  PROVE  /\ m[2] \in Answering => r \in Answering
         /\ m[1] \in ReplyParts \union {"Transcript"} => r \in Answering
         /\ m[1] = "ResponseDone" => m[2] \notin Answering
BY DEF ServerSends, Script, Replies, Answering, ReplyParts

LEMMA SocketDialog ==
  ASSUME ~StrayServer, Dialog, SocketLoop
  PROVE  DialogInv'
<1> USE DEF Dialog
<1>a. /\ events = <<>>
      /\ UNCHANGED <<state, responseDone, spk, display, successShown>>
  BY DEF SocketLoop, SocketSkipped, SocketConnects, SocketFindsLoss,
         SocketOpens, SocketCloses, SocketQuiet, SocketReceives, SocketStep,
         allButPhase, turn, bus, ui, Inv, SessionInv
<1>b. ASSUME events' = <<>>, srv' \in Answering => srv \in Answering
      PROVE  DialogInv'
  BY <1>a, <1>b DEF DialogInv, DisplayAgrees, Replying
<1>1. CASE \/ SocketSkipped \/ SocketQuiet \/ SocketConnects
           \/ SocketFindsLoss \/ SocketOpens \/ SocketCloses
  BY <1>1, <1>a, <1>b DEF SocketSkipped, SocketQuiet, SocketConnects,
     SocketFindsLoss, SocketOpens, SocketCloses, allButPhase, transport,
     server, Answering
<1>2. CASE SocketReceives
  <2>1. PICK m \in ServerSends(srv) :
          \/ /\ m[1] = "SessionCreated"
             /\ \/ /\ SendCanSucceed
                   /\ QueueEvent(m[1], "Ready", m[2]) /\ srvOpen' = Heard(FALSE)
                \/ /\ SendCanFail
                   /\ status' = "Disconnected" /\ link' = "closed"
                   /\ srv' = "off" /\ srvOpen' = FALSE
                   /\ UNCHANGED events
          \/ /\ m[1] = "Error"
             /\ QueueEvent(m[1], "ProviderError", m[2]) /\ UNCHANGED srvOpen
          \/ /\ m[1] = "ProtocolError"
             /\ QueueEvent(m[1], "ProtocolError", m[2]) /\ UNCHANGED srvOpen
          \/ /\ m[1] \notin {"SessionCreated", "Error", "ProtocolError"}
             /\ QueueEvent(m[1], status, m[2]) /\ UNCHANGED srvOpen
    BY <1>2 DEF SocketReceives
  <2>2. m[1] \in ServerEvents
    BY ServerSendsType DEF Inv, TypeOK
  <2>3. \/ srv' = "off" /\ events' = <<>>
        \/ srv' = m[2] /\ events' = <<m[1]>>
    BY <1>a, <2>1, <2>2, QueueEventFits
  <2>4. CASE srv' = "off" /\ events' = <<>>
    BY <1>b, <2>4 DEF Answering
  <2>5. CASE srv' = m[2] /\ events' = <<m[1]>>
    <3>1. /\ m[2] \in Answering => srv \in Answering
          /\ m[1] \in ReplyParts \union {"Transcript"} => srv \in Answering
          /\ m[1] = "ResponseDone" => m[2] \notin Answering
      BY ServerFollows DEF Inv, TypeOK
    <3>2. Head(events') = m[1]
      BY <2>5
    <3> QED
      BY <1>a, <2>5, <3>1, <3>2 DEF DialogInv, DisplayAgrees, Replying
  <2> QED
    BY <2>3, <2>4, <2>5
<1> QED
  BY <1>1, <1>2 DEF SocketLoop

\* completeTurn() where the server owes nothing.
LEMMA CompleteTurnDialog ==
  ASSUME Inv, CompleteTurn, srv' \notin Answering, events' = <<>>
  PROVE  DialogInv'
<1>1. state' = "Idle" /\ ~spk'
  BY CompleteTurnEffect
<1>2. display' = "Success" /\ successShown'
  BY DEF CompleteTurn
<1> QED
  BY <1>1, <1>2 DEF DialogInv, DisplayAgrees

LEMMA EventsDialog ==
  ASSUME Dialog, ServiceRealtimeEvents
  PROVE  DialogInv'
<1> USE DEF Dialog
<1>a. ASSUME Popped, events # <<>> PROVE events' = <<>> /\ UNCHANGED srv
  BY <1>a, PopEmpties DEF Popped, server
<1>1. CASE EventsDone
  BY <1>1, SteadyDialog DEF EventsDone, allButPhase, turn, bus, transport,
     server, ui
<1>2. CASE PopOther \/ PopAudioDone
  <2>1. /\ events' = <<>>
        /\ UNCHANGED <<state, responseDone, spk, srv, display, successShown>>
    BY <1>a, <1>2 DEF PopOther, PopAudioDone, EventStep, turn, bus, ui
  <2> QED
    BY <2>1 DEF DialogInv, DisplayAgrees, Replying
<1>3. CASE PopTranscript
  <2>1. /\ events' = <<>> /\ Replying
        /\ display' \in {"Conversation", display}
        /\ UNCHANGED <<state, responseDone, spk, srv>>
    BY <1>a, <1>3 DEF PopTranscript, EventStep, turn, bus, DialogInv
  <2> QED
    BY <2>1 DEF DialogInv, DisplayAgrees, Replying
<1>4. CASE PopAudioStarted \/ SpeakerStarts \/ SpeakerContinues
  <2>1. /\ events # <<>> /\ Head(events) \in ReplyParts /\ Popped
        /\ state' = IF state = "WaitingResponse"
                      THEN Apply(state, "OutputAudioStarted") ELSE state
        /\ display' = "Playing" /\ UNCHANGED responseDone
    BY <1>4 DEF PopAudioStarted, SpeakerStarts, SpeakerContinues, EventStep,
       ReplyParts
  <2>2. Replying /\ events' = <<>> /\ UNCHANGED srv
    BY <1>a, <2>1 DEF DialogInv
  <2>3. state' = "Playing"
    BY <2>1, <2>2 DEF Replying, Apply
  <2> QED
    BY <2>1, <2>2, <2>3 DEF DialogInv, DisplayAgrees, Replying
<1>5. CASE \E p : EventFails(p)
  BY <1>5, FailRuntimeDialog DEF EventFails
<1>6. CASE PopBadDelta \/ SpeakerFails \/ EnqueueFails \/ EnqueueRefused
           \/ PopFatal
  BY <1>5, <1>6 DEF PopBadDelta, SpeakerFails, EnqueueFails, EnqueueRefused,
     PopFatal
<1>7. CASE PopResponseDone
  <2>a. events # <<>> /\ Replying /\ srv \notin Answering
    BY <1>7 DEF PopResponseDone, EventStep, DialogInv, ReplyParts
  <2>1. CASE Popped /\ UNCHANGED <<state, bus, due, ui>>
    <3>1. /\ events' = <<>>
          /\ UNCHANGED <<state, spk, srv, display, successShown>>
      BY <1>a, <2>a, <2>1 DEF bus, ui
    <3> QED
      BY <2>a, <3>1 DEF DialogInv, DisplayAgrees, Replying
  <2>2. CASE Popped /\ CompleteTurn
    BY <1>a, <2>a, <2>2, CompleteTurnDialog
  <2>3. CASE CompletionOutOfOrder
    BY <2>3, FailRuntimeDialog DEF CompletionOutOfOrder
  <2> QED
    BY <1>7, <2>1, <2>2, <2>3 DEF PopResponseDone
<1> QED
  BY <1>1, <1>2, <1>3, <1>4, <1>6, <1>7 DEF ServiceRealtimeEvents

LEMMA TailDialog ==
  ASSUME Dialog, ServiceProviderTail
  PROVE  DialogInv'
<1> USE DEF Dialog
<1>1. CASE TailFails
  BY <1>1, FailRuntimeDialog DEF TailFails, FailRuntime
<1>a. events = <<>> \/ TailFails
  BY DEF ServiceProviderTail, TailStep, ProviderConnected, TurnComplete,
     TailIdle, ConnectTimeout, TransportFailed, PlaybackFailed,
     ResponseTimeout, Inv, SessionInv
<1>2. CASE ProviderConnected
  <2>1. /\ state = "ConnectingProvider" /\ state' = "Idle" /\ display' = "Idle"
        /\ UNCHANGED <<responseDone, spk, events, srv>>
    BY <1>2 DEF ProviderConnected, Apply, bus, transport, server
  <2> QED
    BY <1>1, <1>a, <2>1 DEF DialogInv, DisplayAgrees, Replying
<1>3. CASE TurnComplete
  <2>1. CASE CompleteTurn /\ UNCHANGED <<transport, server>>
    <3>1. srv \notin Answering
      BY <1>3 DEF TurnComplete, PlaybackComplete, DialogInv
    <3> QED
      BY <1>1, <1>a, <2>1, <3>1, CompleteTurnDialog DEF transport, server
  <2>2. CASE CompletionOutOfOrder
    BY <2>2, FailRuntimeDialog DEF CompletionOutOfOrder
  <2> QED
    BY <1>3, <2>1, <2>2 DEF TurnComplete
<1>4. CASE TailIdle
  BY <1>4, SteadyDialog DEF TailIdle, allButPhase, turn, bus, transport,
     server, ui
<1> QED
  BY <1>1, <1>2, <1>3, <1>4 DEF ServiceProviderTail, ConnectTimeout,
     TransportFailed, PlaybackFailed, ResponseTimeout

\* A question is asked with no answer marked as given.
LEMMA FinishRecordingDialog ==
  ASSUME Dialog, FinishRecording, state = "RecordingAndStreaming",
         phase \in {"button", "recording"}, UNCHANGED responseDone
  PROVE  DialogInv'
<1> USE DEF Dialog
<1>a. ~responseDone /\ srv \notin Answering /\ events = <<>>
  BY DEF DialogInv, Replying, Inv, SessionInv
<1>1. CASE FailRuntimeFrom(pb)
  BY <1>1, FailRuntimeDialog
<1>2. CASE ~FailRuntimeFrom(pb)
  <2>1. ~spk' /\ UNCHANGED events
    BY <1>2 DEF FinishRecording, CancelRecording, CommitRecording,
       StopAudioBus, MuteSent, InputFails, SendFindsLoss, WriteTimesOut,
       transport
  <2>2. CASE CancelRecording
    <3>1. /\ state' = "Idle" /\ display' = "Idle"
          /\ srv' = srv \/ srv' = "jammed"
      BY <2>2 DEF CancelRecording, MuteSent, InputFails, SendFindsLoss,
         WriteTimesOut, server, Apply
    <3> QED
      BY <1>a, <2>1, <3>1 DEF DialogInv, DisplayAgrees, Answering
  <2>3. CASE CommitRecording
    <3>1. state' = "WaitingResponse" /\ display' = "Thinking"
      BY <1>2, <2>3 DEF CommitRecording, Apply
    <3> QED
      BY <1>a, <2>1, <3>1 DEF DialogInv, DisplayAgrees, Replying
  <2> QED
    BY <2>2, <2>3 DEF FinishRecording
<1> QED
  BY <1>1, <1>2

LEMMA ButtonDialog ==
  ASSUME Dialog, ServiceButton
  PROVE  DialogInv'
<1> USE DEF Dialog
<1>1. CASE ButtonQuiet \/ EdgeIgnored
  BY <1>1, SteadyDialog DEF ButtonQuiet, EdgeIgnored, allButPhase, turn, bus,
     transport, server, ui
<1>2. CASE BeginRecording
  <2>1. CASE FailRuntimeFrom(pb)
    BY <2>1, FailRuntimeDialog
  <2>2. CASE ~FailRuntimeFrom(pb)
    <3>1. /\ state = "Idle" /\ state' = "RecordingAndStreaming"
          /\ responseDone' = FALSE /\ spk' = FALSE /\ display' = "Recording"
          /\ UNCHANGED <<events, srv>>
      BY <1>2, <2>2 DEF BeginRecording, Apply, transport
    <3>2. srv \notin Answering /\ events = <<>>
      BY <1>2, <3>1 DEF BeginRecording, Press, ButtonStep, DialogInv,
         Replying, Inv, SessionInv
    <3> QED
      BY <3>1, <3>2 DEF DialogInv, DisplayAgrees
  <2> QED
    BY <2>1, <2>2
<1>3. CASE ButtonReleased
  BY <1>3, FinishRecordingDialog DEF ButtonReleased, Release, ButtonStep
<1> QED
  BY <1>1, <1>2, <1>3 DEF ServiceButton

LEMMA RecordingDialog ==
  ASSUME Dialog, ServiceRecording
  PROVE  DialogInv'
<1> USE DEF Dialog
<1>1. CASE NotRecording \/ FrameNotReady \/ FrameStreamed
  BY <1>1, SteadyDialog DEF NotRecording, FrameNotReady, FrameStreamed,
     allButPhase, turn, bus, transport, server, ui
<1>2. CASE RecordingTooLong
  BY <1>2, FinishRecordingDialog DEF RecordingTooLong, Recording,
     RecordingStep
<1>3. CASE StreamingFails
  BY <1>3, FailRuntimeDialog DEF StreamingFails, FailRuntime
<1> QED
  BY <1>1, <1>2, <1>3 DEF ServiceRecording

LEMMA EnvironmentDialog ==
  ASSUME Dialog, Environment
  PROVE  DialogInv'
<1> USE DEF Dialog
<1>1. CASE TimePasses \/ WifiComes \/ WifiGoes \/ ClockIsSet
           \/ PlaybackDrains \/ PlaybackBreaks
  BY <1>1, SteadyDialog DEF TimePasses, DeadlinePasses, WifiComes, WifiGoes,
     ClockIsSet, PlaybackDrains, PlaybackBreaks, turn, bus, transport, server,
     ui
<1>2. CASE LinkGoes
  <2>1. /\ srv' = "off"
        /\ UNCHANGED <<state, responseDone, spk, events, display, successShown>>
    BY <1>2 DEF LinkGoes, turn, bus, ui
  <2> QED
    BY <2>1 DEF DialogInv, DisplayAgrees, Replying, Answering
<1>3. CASE Reboot
  <2>1. /\ state' \in {"Unconfigured", "ConnectingWifi"}
        /\ state' = "Unconfigured" => display' \in {"SetupRequired", "Error"}
        /\ state' = "ConnectingWifi" => display' = "Connecting"
        /\ spk' = FALSE /\ events' = <<>> /\ srv' = "off"
    BY <1>3 DEF Reboot, Apply
  <2> QED
    BY <2>1 DEF DialogInv, DisplayAgrees, Answering
<1> QED
  BY <1>1, <1>2, <1>3 DEF Environment

LEMMA DialogInvariance == ~StrayServer => (Spec => []DialogInv)
<1> SUFFICES ASSUME ~StrayServer PROVE Spec => []DialogInv
  OBVIOUS
<1>1. Init => DialogInv
  <2> SUFFICES ASSUME Init PROVE DialogInv
    OBVIOUS
  <2>1. /\ state = IF configured THEN "ConnectingWifi" ELSE "Unconfigured"
        /\ display \in IF configured THEN {"Connecting"}
                                     ELSE {"SetupRequired", "Error"}
        /\ spk = FALSE /\ events = <<>> /\ srv = "off"
    BY DEF Init, Apply
  <2> QED
    BY <2>1 DEF DialogInv, DisplayAgrees, Answering
<1>2. Dialog /\ [Next]_vars => DialogInv'
  <2> SUFFICES ASSUME Dialog, [Next]_vars PROVE DialogInv'
    OBVIOUS
  <2>1. CASE MainLoop
    BY <2>1, NetworkDialog, SocketDialog, EventsDialog, TailDialog,
       ButtonDialog, RecordingDialog DEF MainLoop
  <2>2. CASE Environment
    BY <2>2, EnvironmentDialog
  <2>3. CASE UNCHANGED vars
    BY <2>3, SteadyDialog DEF Dialog, vars, allButPhase, turn, bus, transport,
       server, ui
  <2> QED
    BY <2>1, <2>2, <2>3 DEF Next
<1> QED
  BY <1>1, <1>2, FlowInvariance, PTL DEF Spec, Dialog

\* With a server that follows the protocol no part of a reply is ever handled
\* outside a turn, whatever fails: the queue and the speaker are empty by the
\* time the next recording can begin (esp32_voice_kit.ino:340-401).
THEOREM HalfDuplex == ~StrayServer => (Spec => []ReplyOnlyWhenAsked)
<1>1. DialogInv => ReplyOnlyWhenAsked
  BY DEF DialogInv, ReplyOnlyWhenAsked, ReplyParts
<1> QED
  BY <1>1, DialogInvariance, PTL

\* And the screen shows what the device does, although each of its views is
\* set by hand where the state changes.
THEOREM ScreenAgrees == ~StrayServer => (Spec => []DisplayAgrees)
<1>1. DialogInv => DisplayAgrees
  BY DEF DialogInv
<1> QED
  BY <1>1, DialogInvariance, PTL
=============================================================================
