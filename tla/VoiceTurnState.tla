--------------------------- MODULE VoiceTurnState ---------------------------
(***************************************************************************)
(* The session state machine of voice_turn_state.h (class                  *)
(* VoiceTurnMachine): nine states, twelve events.  The machine keeps one   *)
(* field, its state; apply() returns whether the event was accepted.  Both *)
(* results are pure operators here, so that every caller of the firmware's *)
(* main loop applies exactly this table.                                   *)
(***************************************************************************)

States == {"Unconfigured", "ConnectingWifi", "SyncingClock",
           "ConnectingProvider", "Idle", "RecordingAndStreaming",
           "WaitingResponse", "Playing", "Error"}

Events == {"ConfigLoaded", "ConfigCleared", "WifiConnected",
           "ClockSynchronized", "ProviderConnected", "ButtonPressed",
           "ButtonReleased", "RecordingCancelled", "OutputAudioStarted",
           "ResponseDone", "Failure", "Recover"}

\* The state apply(e) leaves a machine in that was in s.
Apply(s, e) ==
  CASE e = "ConfigCleared" -> "Unconfigured"
    [] e = "Failure" /\ s # "Unconfigured" -> "Error"
    [] e = "ConfigLoaded" /\ s = "Unconfigured" -> "ConnectingWifi"
    [] e = "WifiConnected" /\ s = "ConnectingWifi" -> "SyncingClock"
    [] e = "ClockSynchronized" /\ s = "SyncingClock" -> "ConnectingProvider"
    [] e = "ProviderConnected" /\ s = "ConnectingProvider" -> "Idle"
    [] e = "ButtonPressed" /\ s = "Idle" -> "RecordingAndStreaming"
    [] e = "ButtonReleased" /\ s = "RecordingAndStreaming" -> "WaitingResponse"
    [] e = "RecordingCancelled" /\ s = "RecordingAndStreaming" -> "Idle"
    [] e = "OutputAudioStarted" /\ s = "WaitingResponse" -> "Playing"
    [] e = "ResponseDone" /\ s \in {"WaitingResponse", "Playing"} -> "Idle"
    [] e = "Recover" /\ s = "Error" -> "ConnectingWifi"
    [] OTHER -> s

\* The Boolean apply(e) returns in s: no transition other than ConfigCleared
\* leads back to the state it leaves.
Accepts(s, e) == e = "ConfigCleared" \/ Apply(s, e) # s
=============================================================================
