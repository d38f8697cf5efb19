-------------------------- MODULE WebSocketClient --------------------------
(***************************************************************************)
(* One connection to the realtime service: RealtimeVoiceTransport          *)
(* (realtime_voice_transport.h), the DiagnosticWebSocketsClient that       *)
(* remembers why a connection ended, and the vendored client under both    *)
(* (src/qh_websockets), as the firmware configures it: TLS, no heartbeat,  *)
(* reconnect interval 0.                                                   *)
(*                                                                         *)
(* One call of loop() is cut where the network may act: `pc' is where the  *)
(* call is.  It begins with clientIsConnected() and then connects, or      *)
(* reads one header line, or one frame in up to four reads.  The library   *)
(* calls back into the transport, and the transport into the library, in   *)
(* the middle of these: the operators below map the record `c', which      *)
(* holds the fields of both objects, through such a chain of calls.        *)
(***************************************************************************)
EXTENDS Naturals

CONSTANT Frames \* the frames the server may send

Opcodes == {"text", "ignored", "ping", "close", "unknown"}

\* op: text is an unfragmented one, ignored anything else the transport does
\* not listen to (binary, pong, a fragment).  ext: the bytes of an extended
\* length.  size: of the payload, over: above WEBSOCKETS_MAX_DATA_SIZE.
AllFrames == {f \in [op : Opcodes, ext : {0, 2, 8}, mask : BOOLEAN,
                     size : {"none", "some", "over"}] :
                f.size = "over" => f.ext = 8}

ASSUME FramesAssumption == Frames \subseteq AllFrames

VARIABLES
  c,   \* the fields of the transport and of its client, see Clients
  pc,  \* where loop() is: out of it, or about to do this
  late \* the header timeout has passed

vars == <<c, pc, late>>

Statuses == {"Idle", "Connecting", "AwaitingSession", "Ready",
             "ProviderError", "ProtocolError", "Disconnected"}

\* What the response headers have set: the status code 101 or another one,
\* cIsUpgrade, cIsWebsocket, and a cAccept that answers cKey.
Facts == {"101", "refused", "upgrade", "websocket", "accept"}

\* What really happened on the connection: nothing in the code reads it.
Happenings == Facts \cup {"close", "over", "cut", "torn", "late", "failed",
                          "created"}

Hints == {"none", "server_close", "frame_too_large", "frame_receive_failed"}

ReasonCode == [none    |-> "unknown_disconnect",
               lost    |-> "connection_lost",
               cleanup |-> "tcp_cleanup",
               timeout |-> "handshake_timeout",
               http    |-> "handshake_http",
               failed  |-> "handshake_failed"]
Reasons == DOMAIN ReasonCode

Codes == {"none"} \cup Hints \cup {ReasonCode[r] : r \in Reasons}

Clients ==
  [tcp     : {"none", "open", "lost"},  \* the socket object, and connected()
   ws      : {"NotConnected", "Header", "Connected"}, \* client->status
   hs      : SUBSET Facts,
   rx      : 0 .. 14,                   \* cWsRXsize
   frame   : AllFrames,                 \* cWsHeaderDecode
   hint    : Hints,                     \* disconnect_hint_
   status  : Statuses, closing : BOOLEAN, why : Codes, \* of the transport
   live    : Nat,                       \* socket objects not yet deleted
   got     : SUBSET Happenings]

TypeOK ==
  /\ c \in Clients
  /\ pc \in {"out", "connect", "data", "frame"}
  /\ late \in BOOLEAN

Init ==
  /\ \E f \in Frames :
       c = [tcp |-> "none", ws |-> "NotConnected", hs |-> {}, rx |-> 0,
            frame |-> f, hint |-> "none", status |-> "Idle",
            closing |-> TRUE, why |-> "none", live |-> 0, got |-> {}]
  /\ pc = "out"
  /\ late = FALSE

-----------------------------------------------------------------------------
(* Ending a connection.                                                    *)

\* inferWebSocketDisconnectHint().
InferHint(x) ==
  IF x.rx = 0                   THEN "none"
  ELSE IF x.frame.op = "close"  THEN "server_close"
  ELSE IF x.frame.size = "over" THEN "frame_too_large"
  ELSE "frame_receive_failed"

\* safeWebSocketDisconnectCode().
DisconnectCode(hint, reason) ==
  IF hint # "none" THEN hint ELSE ReasonCode[reason]

\* Mutant of OnDisconnected: the hint is left behind.
OnDisconnectedKeepingHint(x, reason) ==
  IF x.closing \/ x.status \in {"ProviderError", "ProtocolError"} THEN x
  ELSE [x EXCEPT !.why = DisconnectCode(x.hint, reason),
                 !.status = "Disconnected"]

\* Mutant of OnDisconnected: no news of an attempt that fails.
OnDisconnectedOnceConnected(x, reason) ==
  IF x.closing \/ x.status \in {"ProviderError", "ProtocolError", "Connecting"}
    THEN [x EXCEPT !.hint = "none"]
    ELSE [x EXCEPT !.hint = "none", !.why = DisconnectCode(x.hint, reason),
                   !.status = "Disconnected"]

\* handleSocketEvent(WStype_DISCONNECTED).
OnDisconnected(x, reason) ==
  IF x.closing \/ x.status \in {"ProviderError", "ProtocolError"}
    THEN [x EXCEPT !.hint = "none"]
    ELSE [x EXCEPT !.hint = "none", !.why = DisconnectCode(x.hint, reason),
                   !.status = "Disconnected"]

\* Mutant of Drop: what the last response said is not forgotten.
DropKeepingHeaders(x, reason) ==
  LET d == [x EXCEPT !.tcp = "none", !.ws = "NotConnected",
                     !.live = IF x.tcp = "none" THEN x.live ELSE x.live - 1]
  IN  IF x.tcp = "none" THEN d ELSE OnDisconnected(d, reason)

\* clientDisconnect(client, reason): the event is sent if there was a socket.
\* cWsRXsize keeps its value.
Drop(x, reason) ==
  LET d == [x EXCEPT !.tcp = "none", !.ws = "NotConnected", !.hs = {},
                     !.live = IF x.tcp = "none" THEN x.live ELSE x.live - 1]
  IN  IF x.tcp = "none" THEN d ELSE OnDisconnected(d, reason)

\* clientDisconnect(client, code): a close frame whose fate is not looked at,
\* then DiagnosticWebSocketsClient::clientDisconnect().
DropHinted(x) == Drop([x EXCEPT !.hint = InferHint(x)], "none")

IsConnected(x) == x.tcp = "open" /\ x.ws # "NotConnected"

\* clientIsConnected(), which also clears away a socket that is not.
Check(x) ==
  CASE x.tcp = "none" \/ IsConnected(x)       -> x
    [] x.tcp = "lost" /\ x.ws # "NotConnected" -> Drop(x, "lost")
    [] OTHER                                   -> Drop(x, "cleanup")

\* disconnect().
Disconnect(x) == LET d == Check(x) IN IF IsConnected(d) THEN DropHinted(d) ELSE d

-----------------------------------------------------------------------------
(* Sending.  A write that times out leaves the connection open.            *)

\* write(): all of it, or not all by the timeout, or the connection goes.
Write(x) ==
  {[c |-> x, ok |-> TRUE], [c |-> x, ok |-> FALSE],
   [c |-> [x EXCEPT !.tcp = "lost", !.got = @ \cup {"cut"}], ok |-> FALSE]}

\* sendFrame(), with what it returns.
SendFrame(x) ==
  IF x.tcp = "open" /\ x.ws = "Connected" THEN Write(x)
                                          ELSE {[c |-> x, ok |-> FALSE]}

\* sendTXT().
SendText(x) ==
  LET d == Check(x)
  IN  IF IsConnected(d) THEN SendFrame(d) ELSE {[c |-> d, ok |-> FALSE]}

\* Mutant of GiveUp: the socket is left to itself.
GiveUpStatus(x) == [x EXCEPT !.status = "Disconnected"]

\* What the transport does when session.create or the first mute fails.
GiveUp(x) == Disconnect([x EXCEPT !.status = "Disconnected"])

\* handleSocketEvent(WStype_CONNECTED).
OnConnected(x) ==
  {IF s.ok THEN s.c ELSE GiveUp(s.c) :
     s \in SendText([x EXCEPT !.status = "AwaitingSession"])}

\* queueEvent(): there is room, or the queue is full.
QueueEvent(x) == {x, Disconnect([x EXCEPT !.status = "ProtocolError"])}

\* Mutant of OnSessionCreated: the failed mute does not end the handler.
OnSessionCreatedRegardless(x) ==
  UNION {QueueEvent([(IF s.ok THEN s.c ELSE GiveUp(s.c)) EXCEPT
                       !.status = "Ready", !.got = @ \cup {"created"}]) :
           s \in SendText(x)}

\* handleSocketEvent(WStype_TEXT) with session.created.
OnSessionCreated(x) ==
  UNION {IF s.ok THEN QueueEvent([s.c EXCEPT !.status = "Ready",
                                             !.got = @ \cup {"created"}])
                 ELSE {GiveUp(s.c)} :
           s \in SendText(x)}

\* handleSocketEvent(WStype_TEXT): an error, a message that does not parse,
\* or one of the others.
OnText(x) ==
  OnSessionCreated(x) \cup
  UNION {QueueEvent([x EXCEPT !.status = s]) :
           s \in {"ProviderError", "ProtocolError", x.status}}

-----------------------------------------------------------------------------
(* What the main loop calls, outside loop().                               *)

\* RealtimeVoiceTransport::close().
Close(x) ==
  {[Disconnect([d EXCEPT !.closing = TRUE]) EXCEPT !.status = "Idle"] :
     d \in IF x.status = "Ready" THEN {s.c : s \in SendText(x)} ELSE {x}}

CloseTransport ==
  /\ pc = "out"
  /\ c' \in Close(c)
  /\ UNCHANGED <<pc, late>>

\* begin() of the transport, then of the client, which forgets any socket it
\* has and starts out with cIsWebsocket set.
Begun(x) ==
  [x EXCEPT !.hint = "none", !.closing = FALSE, !.why = "none",
            !.status = "Connecting", !.tcp = "none", !.ws = "NotConnected",
            !.hs = {"websocket"}]

\* The main loop begins only when no attempt and no session is under way.
Live == {"Connecting", "AwaitingSession", "Ready"}

\* Mutant of Begin: the old connection is not closed first.
BeginAnew ==
  /\ pc = "out" /\ c.status \notin Live
  /\ c' = Begun(c)
  /\ UNCHANGED <<pc, late>>

Begin ==
  /\ pc = "out" /\ c.status \notin Live
  /\ c' \in {Begun(d) : d \in Close(c)}
  /\ UNCHANGED <<pc, late>>

\* begin() with a configuration it refuses, and failRuntime(), which closes.
BeginRefused ==
  /\ pc = "out" /\ c.status \notin Live
  /\ c' \in Close([c EXCEPT !.status = "ProtocolError"])
  /\ UNCHANGED <<pc, late>>

\* beginInput(), sendPcm16(), commitInput(), muteInput().
SendInput ==
  /\ pc = "out" /\ c.status = "Ready"
  /\ c' \in {s.c : s \in SendText(c)}
  /\ UNCHANGED <<pc, late>>

-----------------------------------------------------------------------------
(* loop().                                                                 *)

LoopStarts ==
  /\ pc = "out" /\ c.status # "Idle"
  /\ c' = Check(c)
  /\ pc' = IF IsConnected(c') THEN "data" ELSE "connect"
  /\ UNCHANGED late

\* sendHeader() picks a new key, which no earlier answer fits.
SendHeader(x) == [x EXCEPT !.hs = @ \ {"accept"}]

\* connectedCb(), on a new socket.
ConnectedCb(x) ==
  SendHeader([x EXCEPT !.tcp = "open", !.ws = "Header", !.live = @ + 1,
                       !.got = {}])

\* A TCP and TLS connection that fails leaves its socket object behind.
Connect ==
  /\ pc = "connect"
  /\ \/ c' = ConnectedCb(c) /\ late' = FALSE
     \/ /\ c' = [c EXCEPT !.tcp = "lost", !.live = @ + 1, !.got = {"failed"}]
        /\ UNCHANGED late
  /\ pc' = "out"

\* Nothing to read.
NoData ==
  /\ pc = "data" /\ ~(c.ws = "Header" /\ late)
  /\ pc' = "out"
  /\ UNCHANGED <<c, late>>

HeaderTimeout ==
  /\ pc = "data" /\ c.ws = "Header" /\ late
  /\ c' = Drop([c EXCEPT !.got = @ \cup {"late"}], "timeout")
  /\ pc' = "out"
  /\ UNCHANGED late

\* handleHeader() with a line that is not empty: a status line (of any code,
\* or none that can be read), one of the headers, or any other line.
Parsed(h, line) ==
  CASE line = "101"      -> (h \ {"refused"}) \cup {"101"}
    [] line = "refused"  -> (h \ {"101"}) \cup {"refused"}
    [] line = "garbled"  -> h \ {"101", "refused"}
    [] line = "rejected" -> h \ {"accept"}
    [] line = "other"    -> h
    [] OTHER             -> h \cup {line}

\* A line is read only before the timeout.
ReadsLine == pc = "data" /\ c.ws = "Header" /\ ~late /\ pc' = "out"

HeaderLine ==
  /\ ReadsLine
  /\ \E line \in Facts \cup {"garbled", "rejected", "other"} :
       c' = [c EXCEPT !.hs = Parsed(@, line),
                      !.got = @ \cup (Facts \cap {line})]
  /\ UNCHANGED late

Accepted == {"101", "upgrade", "websocket", "accept"}

\* Mutant of HeaderDone: a frame the last connection broke off is not
\* forgotten.
HeaderDoneKeepingFrame(x) == [x EXCEPT !.ws = "Connected"]

HeaderDone(x) == [x EXCEPT !.ws = "Connected", !.rx = 0]

\* The empty line: accepted; refused with an HTTP code, which ends the
\* connection once for that and once more for the handshake; or not answered
\* properly.
HeaderEnds ==
  /\ ReadsLine
  /\ \/ Accepted \subseteq c.hs /\ c' \in OnConnected(HeaderDone(c))
     \/ /\ {"upgrade", "websocket"} \subseteq c.hs /\ "101" \notin c.hs
        /\ c' = Drop(Drop(c, "http"), "http")
     \/ /\ \/ ~({"upgrade", "websocket"} \subseteq c.hs)
           \/ ("101" \in c.hs /\ "accept" \notin c.hs)
        /\ c' = Drop(Check(c), IF c.hs \cap {"101", "refused"} = {}
                                 THEN "failed" ELSE "http")
  /\ UNCHANGED late

\* handleWebsocket(): a connection with a frame under way reads nothing.
ReadFrame ==
  /\ pc = "data" /\ c.ws = "Connected"
  /\ pc' = IF c.rx = 0 THEN "frame" ELSE "out"
  /\ UNCHANGED <<c, late>>

-----------------------------------------------------------------------------
(* handleWebsocketCb(): header bytes, payload, dispatch.                   *)

FrameStep == pc = "frame" /\ pc' = "out" /\ UNCHANGED late

\* cWsRXsize after the length, and after the whole header.
LengthEnd(f) == 2 + f.ext
HeaderEnd(f) == LengthEnd(f) + IF f.mask THEN 4 ELSE 0

TooLarge == c.rx >= LengthEnd(c.frame) /\ c.frame.size = "over"
Complete == c.rx = HeaderEnd(c.frame) /\ ~TooLarge

Torn(x) == [x EXCEPT !.got = @ \cup {"torn"}]

\* readCb() reads from a connection that is there; waiting ends with the
\* bytes, the timeout or the connection.
BytesArrive == c.tcp = "open"

\* The first two bytes; then the extended length, then the mask.
HeaderBytes ==
  /\ pc = "frame" /\ BytesArrive
  /\ \/ /\ c.rx = 0
        /\ \E f \in Frames :
             c' = [c EXCEPT !.rx = 2, !.frame = f,
                            !.got = @ \cup (IF f.op = "close" THEN {"close"} ELSE {})
                                      \cup (IF f.size = "over" THEN {"over"} ELSE {})]
     \/ /\ c.rx > 0 /\ c.rx < LengthEnd(c.frame)
        /\ c' = [c EXCEPT !.rx = LengthEnd(c.frame)]
     \/ /\ c.rx >= LengthEnd(c.frame) /\ c.rx < HeaderEnd(c.frame) /\ ~TooLarge
        /\ c' = [c EXCEPT !.rx = HeaderEnd(c.frame)]
  /\ UNCHANGED <<pc, late>>

\* The bytes the header still lacks do not come in time.
HeaderBytesMissing ==
  /\ FrameStep
  /\ c.rx = 0 \/ ~(TooLarge \/ Complete)
  /\ c' = DropHinted([Torn(c) EXCEPT !.rx = 0])

\* A connection found gone before a read: the call just returns.
FrameAbandoned ==
  /\ FrameStep
  /\ c.tcp = "lost"
  /\ c' = Torn(c)

FrameTooLarge ==
  /\ FrameStep
  /\ c.rx # 0 /\ TooLarge
  /\ c' = DropHinted(Torn(c))

\* No memory for the payload, or its bytes do not come in time: both leave
\* cWsRXsize as it is.
PayloadMissing ==
  /\ FrameStep
  /\ c.rx # 0 /\ Complete /\ c.frame.size = "some"
  /\ c' = DropHinted(Torn(c))

\* messageReceived() and the answers of the library itself; the outcome of a
\* pong is not looked at.
Dispatched(x) ==
  CASE x.frame.op = "text" /\ x.frame.size # "none" -> OnText(x)
    [] x.frame.op = "ping"                          -> {s.c : s \in SendFrame(x)}
    [] x.frame.op \in {"close", "unknown"}          -> {DropHinted(x)}
    [] OTHER                                        -> {x}

FrameArrives ==
  /\ FrameStep
  /\ c.rx # 0 /\ Complete
  /\ BytesArrive \/ c.frame.size = "none"
  /\ c' \in {[d EXCEPT !.rx = 0] : d \in Dispatched(c)}

-----------------------------------------------------------------------------
(* The environment.                                                        *)

LinkDrops ==
  /\ c.tcp = "open"
  /\ c' = [c EXCEPT !.tcp = "lost", !.got = @ \cup {"cut"}]
  /\ UNCHANGED <<pc, late>>

\* _lastHeaderSent + WEBSOCKETS_TCP_TIMEOUT < millis(): also early, when the
\* sum overflows.
TimePasses ==
  /\ c.ws = "Header" /\ ~late
  /\ late' = TRUE
  /\ UNCHANGED <<c, pc>>

Loop == \/ LoopStarts \/ Connect
        \/ NoData \/ HeaderTimeout \/ HeaderLine \/ HeaderEnds \/ ReadFrame
        \/ HeaderBytes \/ HeaderBytesMissing \/ FrameAbandoned
        \/ FrameTooLarge \/ PayloadMissing \/ FrameArrives

Next == \/ CloseTransport \/ Begin \/ BeginRefused \/ SendInput
        \/ Loop
        \/ LinkDrops \/ TimePasses

Spec == Init /\ [][Next]_vars

FairSpec == Spec /\ WF_vars(Loop) /\ WF_vars(TimePasses)

-----------------------------------------------------------------------------
(* Properties.                                                             *)

\* A WebSocket is taken for established only after this very connection's
\* response carried the code 101, the upgrade and the answer to this
\* connection's key: nothing an earlier response said counts.
Established == c.ws = "Connected" => {"101", "upgrade", "accept"} \subseteq c.got

\* The main loop is never shown a session that has no WebSocket under it, nor
\* one as ready that the server has not created on this connection: every
\* failure inside a callback reaches the status.
StatusTruthful ==
  pc = "out" =>
    /\ c.status \in {"AwaitingSession", "Ready"} => c.ws = "Connected"
    /\ c.status = "Ready" => "created" \in c.got

\* After close() no socket is left, whatever had failed before; and begin() and
\* the reconnecting loop never lose a socket object undeleted: at most one
\* exists, and it is the client's.
ClosedMeansClosed ==
  /\ c.status = "Idle" => c.tcp = "none" /\ pc = "out"
  /\ c.live = IF c.tcp = "none" THEN 0 ELSE 1

\* A frame is read only where one begins: a connection on which a frame was
\* broken off is never read from again, and an open WebSocket is never left
\* with a frame under way, which would make handleWebsocket() ignore the server
\* for ever.
InSync ==
  /\ pc = "frame" /\ c.tcp = "open" /\ c.rx = 0 => "torn" \notin c.got
  /\ pc = "out" /\ c.tcp = "open" /\ c.ws = "Connected" => c.rx = 0

\* What a reason given for the end of x, to whose connection got happened,
\* stands for.  A hint means a frame of this connection that was in hand, and
\* not more than that: frame_receive_failed is also given when the frame had
\* arrived whole and it was the answer that could not be sent, for cWsRXsize is
\* reset only after the callbacks.  A handshake_ reason means that no WebSocket
\* was established yet, and an unknown one that it was.
Truthful(code, x, got) ==
  /\ code \in Hints \ {"none"}  => x.ws = "Connected" /\ x.rx # 0
  /\ code = "server_close"      => "close" \in got
  /\ code = "frame_too_large"   => "over" \in got
  /\ code = "connection_lost"   => "cut" \in got
  /\ code = "tcp_cleanup"       => "failed" \in got
  /\ code \in {"handshake_timeout", "handshake_http", "handshake_failed"} =>
       x.ws = "Header"
  /\ code = "handshake_timeout" => "late" \in got
  /\ code = "handshake_http"    => Facts \cap got # {}
  /\ code = "unknown_disconnect" => {"101", "upgrade", "accept"} \subseteq got

\* What the main loop may log as the reason is true, in this sense, of the
\* connection it is given for and of the moment it is given: neither a hint nor
\* a frame nor a header of an earlier connection goes into it.
Diagnosis == [][c'.why # c.why => Truthful(c'.why, c, c'.got)]_vars

\* An attempt to connect ends, with a session or with a failure the main loop
\* sees: a server that answers nothing, or one header line after another, is
\* given up, and a refused TCP connection is reported.  And the loss of a
\* connection reaches the status, though the library tries to connect again in
\* the very call that notices it.
FailureReported ==
  /\ c.status = "Connecting" ~> c.status # "Connecting"
  /\ c.tcp = "lost" /\ c.status \in Live ~> c.status \notin Live

\* What RealtimeLink calls the link.
Seen == CASE c.tcp = "none"                           -> "closed"
          [] c.tcp = "lost"                           -> "lost"
          [] c.tcp = "open" /\ c.ws = "Connected"     -> "up"
          [] OTHER                                    -> "opening"
Link == INSTANCE RealtimeLink WITH status <- c.status, link <- Seen

\* The transport and its client behave as RealtimeLink says.
ImplementsLink == Link!Spec
=============================================================================
