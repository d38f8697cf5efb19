---------------------------- MODULE RealtimeLink ----------------------------
(***************************************************************************)
(* What RealtimeVoiceTransport (realtime_voice_transport.h) and the socket *)
(* under it promise the rest of the firmware, seen through two things: the *)
(* status the main loop reads and the link the messages travel on.         *)
(*                                                                         *)
(* WebSocketClient is shown to implement this module, and VoiceRuntime,    *)
(* which drives a link of this kind among everything else, is checked to   *)
(* take only steps of it.                                                  *)
(***************************************************************************)

VARIABLES
  status, \* RealtimeTransportStatus
  link    \* closed: no socket; opening: connected, the upgrade not answered;
          \* up: a WebSocket; lost: a socket object whose connection is gone

Statuses == {"Idle", "Connecting", "AwaitingSession", "Ready",
             "ProviderError", "ProtocolError", "Disconnected"}
Links    == {"closed", "opening", "up", "lost"}

\* A lost connection never hides what the server had complained about.
AfterLoss == IF status \in {"ProviderError", "ProtocolError"}
               THEN status ELSE "Disconnected"

Init == status = "Idle" /\ link = "closed"

\* begin() and close(), by the main loop.
Begin == status' = "Connecting" /\ link' = "closed"
Close == status' = "Idle" /\ link' = "closed"

\* One attempt to connect; it may leave a dead socket.
Connects == status # "Idle" /\ link = "closed"
            /\ link' \in {"opening", "lost"} /\ status' = status

\* The network takes the connection away; nobody has noticed yet.
Loses == link \in {"opening", "up"} /\ link' = "lost" /\ status' = status

\* The client notices; another attempt may follow in the same call.
FindsLoss == link = "lost" /\ status' = AfterLoss
             /\ link' \in {"closed", "opening", "lost"}

\* The upgrade is accepted and session.create goes out, or cannot.
Opens       == link = "opening" /\ status' = "AwaitingSession" /\ link' = "up"
OpensInVain == link \in {"opening", "lost"}
               /\ status' = "Disconnected" /\ link' = "closed"

\* Refused, timed out, closed by the server or broken off by the client.
Ends == link \in {"opening", "up"} /\ status' = AfterLoss /\ link' = "closed"

\* A message arrives; the answer to session.created may not get out, and the
\* queue may be full.
Receives       == link = "up" /\ link' = "up"
                  /\ status' \in {"Ready", "ProviderError", "ProtocolError"}
ReceivesInVain == link = "up" /\ status' = "Disconnected" /\ link' = "closed"
Overflows      == link = "up" /\ status' = "ProtocolError" /\ link' = "closed"

Next == \/ Begin \/ Close
        \/ Connects \/ Loses \/ FindsLoss \/ Opens \/ OpensInVain \/ Ends
        \/ Receives \/ ReceivesInVain \/ Overflows

Spec == Init /\ [][Next]_<<status, link>>
=============================================================================
