----------------------- MODULE WebSocketClient_proofs -----------------------
(***************************************************************************)
(* Proofs about WebSocketClient, for every set of frames the server may    *)
(* send.  A step of the specification runs the record through a chain of   *)
(* operators, so the proof has one lemma per operator, which says what it  *)
(* keeps of a record that is Fine, and a step per action that cites them.  *)
(***************************************************************************)
EXTENDS WebSocketClient, TLAPS

\* The client's own fields: one socket, and headers only of this connection.
Whole(x) ==
  /\ x \in Clients
  /\ x.live = IF x.tcp = "none" THEN 0 ELSE 1
  /\ x.tcp = "none" => x.ws = "NotConnected" /\ x.hs \subseteq {"websocket"}
  /\ x.hs \subseteq x.got \cup {"websocket"}
  /\ x.ws = "Connected" => {"101", "upgrade", "accept"} \subseteq x.got

\* The transport's word for them.
Sound(x) ==
  /\ x.closing <=> x.status = "Idle"
  /\ x.status \in {"AwaitingSession", "Ready"} => x.ws = "Connected"
  /\ x.status = "Ready" => "created" \in x.got

Fine(x) == Whole(x) /\ Sound(x)

Inv ==
  /\ TypeOK
  /\ Fine(c)
  /\ pc = "connect" => c.tcp = "none"
  /\ pc = "data" => c.tcp # "none" /\ c.ws # "NotConnected"
  /\ pc = "frame" => c.tcp # "none" /\ c.ws = "Connected"
  /\ pc # "frame" /\ c.tcp = "open" /\ c.ws = "Connected" => c.rx = 0
  /\ c.tcp = "open" => "torn" \notin c.got
  /\ c.status = "Idle" => c.tcp = "none" /\ pc = "out"

\* What a chain of calls inside loop() leaves alone.
Keeps(x, d) ==
  /\ d.rx = x.rx
  /\ d.status = "Idle" <=> x.status = "Idle"
  /\ d.tcp = "open" => x.tcp = "open" /\ d.got \subseteq x.got \cup {"created"}

-----------------------------------------------------------------------------
(* The operators.                                                          *)

\* Drop() leaves no socket, and tells the transport unless it is closing.
LEMMA DropWhole ==
  ASSUME NEW x, Whole(x), NEW r \in Reasons
  PROVE  LET d == Drop(x, r)
         IN  /\ Whole(d) /\ d.tcp = "none" /\ d.hs = {}
             /\ d.rx = x.rx /\ d.closing = x.closing /\ d.got = x.got
             /\ d.frame = x.frame
             /\ d.status = IF x.tcp = "none" \/ x.closing \/
                              x.status \in {"ProviderError", "ProtocolError"}
                             THEN x.status ELSE "Disconnected"
<1> DEFINE n == IF x.tcp = "none" THEN x.live ELSE x.live - 1
           e == [x EXCEPT !.tcp = "none", !.ws = "NotConnected", !.hs = {},
                          !.live = n]
           d == Drop(x, r)
<1>1. /\ e \in Clients /\ e.live = 0
      /\ e.tcp = "none" /\ e.ws = "NotConnected" /\ e.hs = {}
      /\ e.rx = x.rx /\ e.closing = x.closing /\ e.got = x.got
      /\ e.frame = x.frame /\ e.status = x.status /\ e.hint = x.hint
  <2>0. n = 0
    BY DEF Whole, Clients
  <2> HIDE DEF n
  <2>1. e \in Clients /\ e.live = 0
    BY <2>0 DEF Whole, Clients
  <2>2. e.tcp = "none" /\ e.ws = "NotConnected" /\ e.hs = {}
    BY DEF Whole, Clients
  <2>3. e.rx = x.rx /\ e.closing = x.closing /\ e.got = x.got
    BY DEF Whole, Clients
  <2>4. e.frame = x.frame /\ e.status = x.status /\ e.hint = x.hint
    BY DEF Whole, Clients
  <2> QED
    BY <2>1, <2>2, <2>3, <2>4
<1>2. DisconnectCode(x.hint, r) \in Codes
  <2>1. x.hint \in Hints
    BY DEF Whole, Clients
  <2> QED
    BY <2>1 DEF DisconnectCode, Codes
<1>3. CASE x.tcp = "none"
  <2>1. d = e
    BY <1>3 DEF Drop
  <2> HIDE DEF d, e, n
  <2> QED
    BY <2>1, <1>1, <1>3 DEF Whole, d
<1>4. CASE x.tcp # "none"
  <2>1. d = OnDisconnected(e, r)
    BY <1>4 DEF Drop
  <2> HIDE DEF d, e, n
  <2>3. CASE x.closing \/ x.status \in {"ProviderError", "ProtocolError"}
    <3>1. d = [e EXCEPT !.hint = "none"]
      BY <2>1, <1>1, <2>3 DEF OnDisconnected
    <3>2. /\ d \in Clients /\ d.live = 0
          /\ d.tcp = "none" /\ d.ws = "NotConnected" /\ d.hs = {}
          /\ d.rx = x.rx /\ d.closing = x.closing /\ d.got = x.got
          /\ d.frame = x.frame /\ d.status = x.status
      <4>1. d \in Clients /\ d.live = 0
        BY <3>1, <1>1 DEF Clients, Hints
      <4>2. d.tcp = "none" /\ d.ws = "NotConnected" /\ d.hs = {}
        BY <3>1, <1>1 DEF Clients
      <4>3. /\ d.rx = x.rx /\ d.closing = x.closing /\ d.got = x.got
            /\ d.frame = x.frame /\ d.status = x.status
        BY <3>1, <1>1 DEF Clients
      <4> QED
        BY <4>1, <4>2, <4>3
    <3> QED
      BY <3>2, <2>3, <1>4 DEF Whole, d
  <2>4. CASE ~(x.closing \/ x.status \in {"ProviderError", "ProtocolError"})
    <3>1. d = [e EXCEPT !.hint = "none", !.why = DisconnectCode(x.hint, r),
                        !.status = "Disconnected"]
      BY <2>1, <1>1, <2>4 DEF OnDisconnected
    <3>2. /\ d \in Clients /\ d.live = 0
          /\ d.tcp = "none" /\ d.ws = "NotConnected" /\ d.hs = {}
          /\ d.rx = x.rx /\ d.closing = x.closing /\ d.got = x.got
          /\ d.frame = x.frame /\ d.status = "Disconnected"
      <4>1. d \in Clients /\ d.live = 0
        BY <3>1, <1>1, <1>2 DEF Clients, Hints, Statuses
      <4>2. d.tcp = "none" /\ d.ws = "NotConnected" /\ d.hs = {}
        BY <3>1, <1>1 DEF Clients
      <4>3. /\ d.rx = x.rx /\ d.closing = x.closing /\ d.got = x.got
            /\ d.frame = x.frame /\ d.status = "Disconnected"
        BY <3>1, <1>1 DEF Clients
      <4> QED
        BY <4>1, <4>2, <4>3
    <3> QED
      BY <3>2, <2>4, <1>4 DEF Whole, d
  <2> QED
    BY <2>3, <2>4
<1> QED
  BY <1>3, <1>4

\* The transport never keeps a session the client has dropped.
LEMMA DropFine ==
  ASSUME NEW x, Fine(x), NEW r \in Reasons
  PROVE  Fine(Drop(x, r)) /\ Keeps(x, Drop(x, r)) /\ Drop(x, r).tcp = "none"
<1> DEFINE d == Drop(x, r)
<1>1. /\ Whole(d) /\ d.tcp = "none" /\ d.rx = x.rx /\ d.closing = x.closing
      /\ d.status = IF x.tcp = "none" \/ x.closing \/
                       x.status \in {"ProviderError", "ProtocolError"}
                      THEN x.status ELSE "Disconnected"
  BY DropWhole DEF Fine
<1>2. d.closing <=> d.status = "Idle"
  BY <1>1 DEF Fine, Sound
<1>3. d.status \notin {"AwaitingSession", "Ready"}
  BY <1>1 DEF Fine, Sound, Whole
<1> HIDE DEF d
<1>4. Sound(d) /\ Keeps(x, d)
  BY <1>1, <1>2, <1>3 DEF Sound, Keeps, Fine
<1> QED
  BY <1>1, <1>4 DEF Fine, d

LEMMA DropHintedWhole ==
  ASSUME NEW x, Whole(x)
  PROVE  LET d == DropHinted(x)
         IN  /\ Whole(d) /\ d.tcp = "none"
             /\ d.rx = x.rx /\ d.closing = x.closing
             /\ d.status = IF x.tcp = "none" \/ x.closing \/
                              x.status \in {"ProviderError", "ProtocolError"}
                             THEN x.status ELSE "Disconnected"
<1> DEFINE e == [x EXCEPT !.hint = InferHint(x)]
<1>1. InferHint(x) \in Hints
  BY DEF InferHint, Hints
<1>2. /\ Whole(e) /\ e.tcp = x.tcp /\ e.closing = x.closing /\ e.rx = x.rx
      /\ e.status = x.status
  BY <1>1 DEF Whole, Clients
<1>3. "none" \in Reasons
  BY DEF Reasons, ReasonCode
<1> QED
  BY <1>2, <1>3, DropWhole DEF DropHinted

LEMMA DropHintedFine ==
  ASSUME NEW x, Fine(x)
  PROVE  Fine(DropHinted(x)) /\ Keeps(x, DropHinted(x))
         /\ DropHinted(x).tcp = "none"
<1> DEFINE d == DropHinted(x)
<1>1. /\ Whole(d) /\ d.tcp = "none" /\ d.rx = x.rx /\ d.closing = x.closing
      /\ d.status = IF x.tcp = "none" \/ x.closing \/
                       x.status \in {"ProviderError", "ProtocolError"}
                      THEN x.status ELSE "Disconnected"
  BY DropHintedWhole DEF Fine
<1>2. d.closing <=> d.status = "Idle"
  BY <1>1 DEF Fine, Sound
<1>3. d.status \notin {"AwaitingSession", "Ready"}
  BY <1>1 DEF Fine, Sound, Whole
<1> HIDE DEF d
<1>4. Sound(d) /\ Keeps(x, d)
  BY <1>1, <1>2, <1>3 DEF Sound, Keeps, Fine
<1> QED
  BY <1>1, <1>4 DEF Fine, d

\* Check() returns a connection that is there, or leaves no socket.
LEMMA CheckFacts ==
  ASSUME NEW x, Whole(x)
  PROVE  LET d == Check(x)
         IN  /\ Whole(d) /\ d.closing = x.closing
             /\ IsConnected(x) => d = x
             /\ ~IsConnected(x) => d.tcp = "none" /\ ~IsConnected(d)
             /\ Fine(x) => Fine(d) /\ Keeps(x, d)
<1>1. CASE x.tcp = "none" \/ IsConnected(x)
  <2>1. Check(x) = x
    BY <1>1 DEF Check, IsConnected
  <2>2. Keeps(x, x)
    BY DEF Keeps
  <2> QED
    BY <1>1, <2>1, <2>2 DEF IsConnected
<1>2. CASE ~(x.tcp = "none" \/ IsConnected(x))
  <2>1. PICK r \in Reasons : Check(x) = Drop(x, r)
    BY <1>2 DEF Check, Reasons, ReasonCode
  <2>2. Whole(Drop(x, r)) /\ Drop(x, r).tcp = "none"
        /\ Drop(x, r).closing = x.closing
    BY DropWhole
  <2>3. Fine(x) => Fine(Drop(x, r)) /\ Keeps(x, Drop(x, r))
    BY DropFine
  <2> QED
    BY <1>2, <2>1, <2>2, <2>3 DEF IsConnected
<1> QED
  BY <1>1, <1>2

LEMMA DisconnectFacts ==
  ASSUME NEW x, Whole(x)
  PROVE  LET d == Disconnect(x)
         IN  /\ Whole(d) /\ d.tcp = "none" /\ d.closing = x.closing
             /\ Fine(x) => Fine(d) /\ Keeps(x, d)
<1> DEFINE y == Check(x)
<1>1. /\ Whole(y) /\ y.closing = x.closing
      /\ ~IsConnected(x) => y.tcp = "none" /\ ~IsConnected(y)
      /\ IsConnected(x) => y = x
      /\ Fine(x) => Fine(y) /\ Keeps(x, y)
  BY CheckFacts
<1> HIDE DEF y
<1>2. CASE IsConnected(y)
  <2>1. Disconnect(x) = DropHinted(x)
    BY <1>1, <1>2 DEF Disconnect, y
  <2> QED
    BY <2>1, DropHintedWhole, DropHintedFine
<1>3. CASE ~IsConnected(y)
  <2>1. Disconnect(x) = y /\ ~IsConnected(x)
    BY <1>1, <1>3 DEF Disconnect, y
  <2> QED
    BY <1>1, <2>1
<1> QED
  BY <1>2, <1>3

-----------------------------------------------------------------------------
(* The handlers.                                                           *)

\* A new status changes nothing else.
LEMMA SetStatus ==
  ASSUME NEW x, Whole(x), NEW st \in Statuses
  PROVE  LET y == [x EXCEPT !.status = st]
         IN  /\ Whole(y) /\ y.status = st /\ y.tcp = x.tcp /\ y.ws = x.ws
             /\ y.rx = x.rx /\ y.closing = x.closing /\ y.got = x.got
<1> DEFINE y == [x EXCEPT !.status = st]
<1>1. y \in Clients
  BY DEF Whole, Clients
<1>2. /\ y.status = st /\ y.tcp = x.tcp /\ y.ws = x.ws /\ y.hs = x.hs
      /\ y.live = x.live
  BY DEF Whole, Clients
<1>3. y.rx = x.rx /\ y.closing = x.closing /\ y.got = x.got
  BY DEF Whole, Clients
<1> HIDE DEF y
<1> QED
  BY <1>1, <1>2, <1>3 DEF Whole, y

LEMMA SendFrameFacts ==
  ASSUME NEW x, Fine(x), NEW s \in SendFrame(x)
  PROVE  /\ Fine(s.c) /\ Keeps(x, s.c)
         /\ s.ok => s.c = x /\ x.tcp = "open" /\ x.ws = "Connected"
<1> DEFINE y == [x EXCEPT !.tcp = "lost", !.got = @ \cup {"cut"}]
<1>1. Keeps(x, x)
  BY DEF Keeps
<1>2. CASE s.c = x /\ (s.ok => x.tcp = "open" /\ x.ws = "Connected")
  BY <1>1, <1>2
<1>3. CASE s = [c |-> y, ok |-> FALSE] /\ x.tcp = "open" /\ x.ws = "Connected"
  <2>1. y \in Clients
    BY DEF Fine, Whole, Clients, Happenings
  <2>2. /\ y.tcp = "lost" /\ y.ws = x.ws /\ y.live = x.live
        /\ y.got = x.got \cup {"cut"}
    BY DEF Fine, Whole, Clients
  <2>3. /\ y.hs = x.hs /\ y.rx = x.rx
        /\ y.closing = x.closing /\ y.status = x.status
    BY DEF Fine, Whole, Clients
  <2>4. s.c = y /\ ~s.ok
    BY <1>3
  <2> HIDE DEF y
  <2>5. Whole(y) /\ Sound(y)
    BY <2>1, <2>2, <2>3, <1>3 DEF Fine, Whole, Sound
  <2>6. Keeps(x, y)
    BY <2>2, <2>3 DEF Keeps
  <2> QED
    BY <2>4, <2>5, <2>6 DEF Fine
<1> QED
  BY <1>2, <1>3 DEF SendFrame, Write

LEMMA SendTextFacts ==
  ASSUME NEW x, Fine(x), NEW s \in SendText(x)
  PROVE  /\ Fine(s.c) /\ Keeps(x, s.c)
         /\ s.ok => s.c = x /\ x.tcp = "open" /\ x.ws = "Connected"
<1> DEFINE y == Check(x)
<1>1. /\ Fine(y) /\ Keeps(x, y)
      /\ IsConnected(x) => y = x
      /\ ~IsConnected(x) => ~IsConnected(y)
  BY CheckFacts DEF Fine
<1>2. CASE IsConnected(x)
  <2>1. s \in SendFrame(x)
    BY <1>1, <1>2 DEF SendText
  <2> QED
    BY <2>1, SendFrameFacts
<1>3. CASE ~IsConnected(x)
  <2>1. s = [c |-> y, ok |-> FALSE]
    BY <1>1, <1>3 DEF SendText
  <2> HIDE DEF y
  <2> QED
    BY <1>1, <2>1
<1> QED
  BY <1>2, <1>3

\* Both ways the transport breaks a connection off itself leave no socket.
LEMMA BreakOff ==
  ASSUME NEW x, Fine(x), x.status # "Idle",
         NEW st \in {"Disconnected", "ProtocolError"}
  PROVE  LET d == Disconnect([x EXCEPT !.status = st])
         IN  Fine(d) /\ Keeps(x, d) /\ d.tcp = "none"
<1> DEFINE y == [x EXCEPT !.status = st]
           d == Disconnect(y)
<1>1. /\ Whole(y) /\ y.status = st /\ y.tcp = x.tcp /\ y.ws = x.ws
      /\ y.rx = x.rx /\ y.closing = x.closing /\ y.got = x.got
  <2>1. st \in Statuses /\ Whole(x)
    BY DEF Fine, Statuses
  <2> QED
    BY <2>1, SetStatus
<1> HIDE DEF y
<1>2. Fine(y)
  BY <1>1 DEF Fine, Sound
<1>3. Fine(d) /\ Keeps(y, d) /\ d.tcp = "none"
  BY <1>1, <1>2, DisconnectFacts
<1> HIDE DEF d
<1>4. Keeps(x, d)
  BY <1>1, <1>3 DEF Keeps
<1> QED
  BY <1>3, <1>4 DEF d, y

LEMMA QueueEventFacts ==
  ASSUME NEW x, Fine(x), x.status # "Idle", NEW d \in QueueEvent(x)
  PROVE  Fine(d) /\ Keeps(x, d)
<1>1. Keeps(x, x)
  BY DEF Keeps
<1> QED
  BY <1>1, BreakOff DEF QueueEvent

LEMMA OnConnectedFacts ==
  ASSUME NEW x, Fine(x), x.status # "Idle", x.ws = "Connected",
         NEW d \in OnConnected(x)
  PROVE  Fine(d) /\ Keeps(x, d)
<1> DEFINE y == [x EXCEPT !.status = "AwaitingSession"]
<1>1. /\ Whole(y) /\ y.status = "AwaitingSession" /\ y.tcp = x.tcp
      /\ y.ws = x.ws /\ y.rx = x.rx /\ y.closing = x.closing /\ y.got = x.got
  BY SetStatus DEF Fine, Statuses
<1>2. PICK s \in SendText(y) : d = IF s.ok THEN s.c ELSE GiveUp(s.c)
  BY DEF OnConnected
<1> HIDE DEF y
<1>3. Fine(y)
  BY <1>1 DEF Fine, Sound
<1>4. Fine(s.c) /\ Keeps(y, s.c)
  BY <1>3, SendTextFacts
<1>5. s.c.status # "Idle"
  BY <1>1, <1>4 DEF Keeps
<1>6. Fine(d) /\ Keeps(s.c, d)
  <2>1. Keeps(s.c, s.c)
    BY DEF Keeps
  <2> QED
    BY <2>1, <1>2, <1>4, <1>5, BreakOff DEF GiveUp
<1>7. Keeps(x, d)
  BY <1>1, <1>4, <1>5, <1>6 DEF Keeps
<1> QED
  BY <1>6, <1>7

LEMMA OnTextFacts ==
  ASSUME NEW x, Fine(x), x.status # "Idle", x.ws = "Connected",
         NEW d \in OnText(x)
  PROVE  Fine(d) /\ Keeps(x, d)
<1>1. CASE \E s \in SendText(x) : ~s.ok /\ d = GiveUp(s.c)
  <2>1. PICK s \in SendText(x) : ~s.ok /\ d = GiveUp(s.c)
    BY <1>1
  <2>2. Fine(s.c) /\ Keeps(x, s.c)
    BY SendTextFacts
  <2>3. s.c.status # "Idle"
    BY <2>2 DEF Keeps
  <2>4. Fine(d) /\ Keeps(s.c, d)
    BY <2>1, <2>2, <2>3, BreakOff DEF GiveUp
  <2> QED
    BY <2>2, <2>4 DEF Keeps
<1>2. CASE x.tcp = "open" /\ d \in QueueEvent([x EXCEPT !.status = "Ready",
                                              !.got = @ \cup {"created"}])
  <2> DEFINE y == [x EXCEPT !.status = "Ready", !.got = @ \cup {"created"}]
  <2>1. y \in Clients
    BY DEF Fine, Whole, Clients, Statuses, Happenings
  <2>2. /\ y.status = "Ready" /\ y.tcp = x.tcp /\ y.ws = x.ws
        /\ y.live = x.live /\ y.got = x.got \cup {"created"}
    BY DEF Fine, Whole, Clients
  <2>3. y.hs = x.hs /\ y.rx = x.rx /\ y.closing = x.closing
    BY DEF Fine, Whole, Clients
  <2>4. d \in QueueEvent(y)
    BY <1>2
  <2> HIDE DEF y
  <2>5. Fine(y)
    BY <2>1, <2>2, <2>3 DEF Fine, Whole, Sound
  <2>6. Fine(d) /\ Keeps(y, d)
    BY <2>2, <2>4, <2>5, QueueEventFacts
  <2> QED
    BY <2>2, <2>3, <2>6 DEF Keeps
<1>3. CASE \E st \in {"ProviderError", "ProtocolError", x.status} :
             d \in QueueEvent([x EXCEPT !.status = st])
  <2>1. PICK st \in {"ProviderError", "ProtocolError", x.status} :
               d \in QueueEvent([x EXCEPT !.status = st])
    BY <1>3
  <2> DEFINE y == [x EXCEPT !.status = st]
  <2>2. st \in Statuses /\ st # "Idle"
    BY DEF Fine, Whole, Clients, Statuses
  <2>3. /\ Whole(y) /\ y.status = st /\ y.tcp = x.tcp /\ y.ws = x.ws
        /\ y.rx = x.rx /\ y.closing = x.closing /\ y.got = x.got
    BY <2>2, SetStatus DEF Fine
  <2>4. d \in QueueEvent(y)
    BY <2>1
  <2> HIDE DEF y
  <2>5. Fine(y)
    BY <2>2, <2>3 DEF Fine, Sound
  <2>6. Fine(d) /\ Keeps(y, d)
    BY <2>2, <2>3, <2>4, <2>5, QueueEventFacts
  <2> QED
    BY <2>2, <2>3, <2>6 DEF Keeps
<1>4. \A s \in SendText(x) : s.ok => s.c = x /\ x.tcp = "open"
  BY SendTextFacts
<1> QED
  BY <1>1, <1>2, <1>3, <1>4 DEF OnText, OnSessionCreated

LEMMA DispatchedFacts ==
  ASSUME NEW x, Fine(x), x.status # "Idle", x.ws = "Connected",
         NEW d \in Dispatched(x)
  PROVE  Fine(d) /\ Keeps(x, d)
<1>1. Keeps(x, x)
  BY DEF Keeps
<1>2. CASE d \in OnText(x)
  BY <1>2, OnTextFacts
<1>3. CASE \E s \in SendFrame(x) : d = s.c
  BY <1>3, SendFrameFacts
<1>4. CASE d = DropHinted(x)
  BY <1>4, DropHintedFine
<1>5. CASE d = x
  BY <1>1, <1>5
<1> QED
  BY <1>2, <1>3, <1>4, <1>5 DEF Dispatched

\* The end of close(), from any record that is whole.
LEMMA ClosedFacts ==
  ASSUME NEW y, Whole(y)
  PROVE  LET d == [Disconnect([y EXCEPT !.closing = TRUE])
                     EXCEPT !.status = "Idle"]
         IN  Fine(d) /\ d.tcp = "none" /\ d.status = "Idle"
<1> DEFINE z == [y EXCEPT !.closing = TRUE]
           e == Disconnect(z)
           d == [e EXCEPT !.status = "Idle"]
<1>1. Whole(z) /\ z.closing
  <2>1. z \in Clients /\ z.closing
    BY DEF Whole, Clients
  <2>2. /\ z.tcp = y.tcp /\ z.ws = y.ws /\ z.hs = y.hs /\ z.live = y.live
        /\ z.got = y.got
    BY DEF Whole, Clients
  <2> HIDE DEF z
  <2> QED
    BY <2>1, <2>2 DEF Whole
<1> HIDE DEF z
<1>2. Whole(e) /\ e.tcp = "none" /\ e.closing
  BY <1>1, DisconnectFacts
<1> HIDE DEF e
<1>3. /\ Whole(d) /\ d.status = "Idle" /\ d.tcp = e.tcp /\ d.ws = e.ws
      /\ d.closing = e.closing
  BY <1>2, SetStatus DEF Statuses
<1> HIDE DEF d
<1>4. Fine(d)
  BY <1>2, <1>3 DEF Fine, Sound
<1> QED
  BY <1>2, <1>3, <1>4 DEF d, e, z

LEMMA CloseFacts ==
  ASSUME NEW x, Fine(x), NEW d \in Close(x)
  PROVE  Fine(d) /\ d.tcp = "none" /\ d.status = "Idle"
<1>1. PICK y \in IF x.status = "Ready" THEN {s.c : s \in SendText(x)} ELSE {x} :
        d = [Disconnect([y EXCEPT !.closing = TRUE]) EXCEPT !.status = "Idle"]
  BY DEF Close
<1>2. Fine(y)
  BY <1>1, SendTextFacts
<1> QED
  BY <1>1, <1>2, ClosedFacts DEF Fine

-----------------------------------------------------------------------------
(* The invariant.                                                          *)

LEMMA InitInv == Init => Inv
<1> SUFFICES ASSUME Init PROVE Inv
  OBVIOUS
<1> USE DEF Init
<1>1. c \in Clients
  BY FramesAssumption DEF Clients, Hints, Statuses, Codes
<1>2. /\ c.tcp = "none" /\ c.ws = "NotConnected" /\ c.hs = {} /\ c.live = 0
      /\ c.closing /\ c.status = "Idle"
  OBVIOUS
<1> QED
  BY <1>1, <1>2 DEF Inv, TypeOK, Fine, Whole, Sound

\* A step that ends the call and the connection.
LEMMA CallDrops ==
  ASSUME Inv, pc # "out", pc' = "out", late' = late,
         NEW x, Fine(x), x.status # "Idle", Fine(c'), Keeps(x, c'),
         c'.tcp = "none"
  PROVE  Inv'
<1>1. c'.status # "Idle"
  BY DEF Keeps
<1> QED
  BY <1>1 DEF Inv, TypeOK, Fine, Whole

\* What a history variable records changes nothing that the code has.
LEMMA Record ==
  ASSUME NEW x, Fine(x), NEW h \in Happenings
  PROVE  LET y == [x EXCEPT !.got = @ \cup {h}]
         IN  /\ Fine(y) /\ y.status = x.status /\ y.tcp = x.tcp
             /\ y.ws = x.ws /\ y.rx = x.rx /\ y.got = x.got \cup {h}
             /\ y.frame = x.frame
<1> DEFINE y == [x EXCEPT !.got = @ \cup {h}]
<1>1. y \in Clients
  BY DEF Fine, Whole, Clients
<1>2. /\ y.tcp = x.tcp /\ y.ws = x.ws /\ y.hs = x.hs /\ y.live = x.live
      /\ y.got = x.got \cup {h}
  BY DEF Fine, Whole, Clients
<1>3. /\ y.rx = x.rx /\ y.closing = x.closing /\ y.status = x.status
      /\ y.frame = x.frame
  BY DEF Fine, Whole, Clients
<1> HIDE DEF y
<1>4. Fine(y)
  BY <1>1, <1>2, <1>3 DEF Fine, Whole, Sound
<1> QED
  BY <1>2, <1>3, <1>4 DEF y

\* So does the length of what has been received.
LEMMA SetRx ==
  ASSUME NEW x, Fine(x), NEW n \in 0 .. 14
  PROVE  LET y == [x EXCEPT !.rx = n]
         IN  /\ Fine(y) /\ y.status = x.status /\ y.tcp = x.tcp
             /\ y.ws = x.ws /\ y.rx = n /\ y.got = x.got
<1> DEFINE y == [x EXCEPT !.rx = n]
<1>1. y \in Clients
  BY DEF Fine, Whole, Clients
<1>2. /\ y.tcp = x.tcp /\ y.ws = x.ws /\ y.hs = x.hs /\ y.live = x.live
      /\ y.got = x.got
  BY DEF Fine, Whole, Clients
<1>3. y.rx = n /\ y.closing = x.closing /\ y.status = x.status
  BY DEF Fine, Whole, Clients
<1> HIDE DEF y
<1>4. Fine(y)
  BY <1>1, <1>2, <1>3 DEF Fine, Whole, Sound
<1> QED
  BY <1>2, <1>3, <1>4 DEF y

\* The steps of the main loop outside loop(), and of the environment.
LEMMA OutsideStep ==
  ASSUME Inv, CloseTransport \/ Begin \/ BeginRefused \/ SendInput
              \/ LinkDrops \/ TimePasses \/ UNCHANGED vars
  PROVE  Inv'
<1> USE DEF Inv
<1>1. CASE CloseTransport
  <2>1. Fine(c') /\ c'.tcp = "none" /\ c'.status = "Idle"
    BY <1>1, CloseFacts DEF CloseTransport
  <2> QED
    BY <1>1, <2>1 DEF CloseTransport, TypeOK, Fine, Whole
<1>2. CASE Begin
  <2>1. PICK d \in Close(c) : c' = Begun(d)
    BY <1>2 DEF Begin
  <2>2. Fine(d) /\ d.tcp = "none" /\ d.status = "Idle"
    BY <2>1, CloseFacts
  <2>3. c' \in Clients
    BY <2>1, <2>2 DEF Begun, Fine, Whole, Clients, Hints, Codes, Statuses, Facts
  <2>4. /\ c'.tcp = "none" /\ c'.ws = "NotConnected" /\ c'.hs = {"websocket"}
        /\ c'.live = d.live
    BY <2>1, <2>2 DEF Begun, Fine, Whole, Clients
  <2>5. c'.status = "Connecting" /\ ~c'.closing
    BY <2>1, <2>2 DEF Begun, Fine, Whole, Clients
  <2>6. Fine(c')
    BY <2>2, <2>3, <2>4, <2>5 DEF Fine, Whole, Sound
  <2> QED
    BY <1>2, <2>4, <2>5, <2>6 DEF Begin, TypeOK, Fine, Whole
<1>3. CASE BeginRefused
  <2> DEFINE y == [c EXCEPT !.status = "ProtocolError"]
  <2>1. PICK d \in Close(y) : c' = d
    BY <1>3 DEF BeginRefused
  <2>2. y.status # "Ready" /\ Whole(y)
    <3>1. Whole(c) /\ "ProtocolError" \in Statuses
      BY DEF Fine, Statuses
    <3> QED
      BY <3>1, SetStatus
  <2>3. c' = [Disconnect([y EXCEPT !.closing = TRUE]) EXCEPT !.status = "Idle"]
    BY <2>1, <2>2 DEF Close
  <2> HIDE DEF y
  <2>4. Fine(c') /\ c'.tcp = "none" /\ c'.status = "Idle"
    BY <2>2, <2>3, ClosedFacts
  <2> QED
    BY <1>3, <2>4 DEF BeginRefused, TypeOK, Fine, Whole
<1>4. CASE SendInput
  <2>1. PICK s \in SendText(c) : c' = s.c
    BY <1>4 DEF SendInput
  <2>2. Fine(c') /\ Keeps(c, c')
    BY <2>1, SendTextFacts
  <2>3. c'.tcp = "open" /\ c'.ws = "Connected" => c'.rx = 0
    <3>1. pc = "out" /\ c.status = "Ready" /\ c.ws = "Connected"
      BY <1>4 DEF SendInput, Sound, Fine
    <3>2. c.tcp = "open" => c.rx = 0
      BY <3>1
    <3> QED
      BY <2>2, <3>2 DEF Keeps
  <2>4. c'.status # "Idle" /\ (c'.tcp = "open" => "torn" \notin c'.got)
    BY <1>4, <2>2 DEF SendInput, Keeps
  <2> QED
    BY <1>4, <2>2, <2>3, <2>4 DEF SendInput, TypeOK, Fine, Whole
<1>5. CASE LinkDrops
  <2>1. c' \in Clients
    BY <1>5 DEF LinkDrops, Fine, Whole, Clients, Happenings
  <2>2. /\ c'.tcp = "lost" /\ c'.ws = c.ws /\ c'.live = c.live
        /\ c'.got = c.got \cup {"cut"}
    BY <1>5 DEF LinkDrops, Fine, Whole, Clients
  <2>3. c'.hs = c.hs /\ c'.closing = c.closing /\ c'.status = c.status
    BY <1>5 DEF LinkDrops, Fine, Whole, Clients
  <2>4. Fine(c')
    BY <1>5, <2>1, <2>2, <2>3 DEF LinkDrops, Fine, Whole, Sound
  <2> QED
    BY <1>5, <2>2, <2>3, <2>4 DEF LinkDrops, TypeOK, Fine, Whole
<1>6. CASE TimePasses
  BY <1>6 DEF TimePasses, TypeOK
<1>7. CASE UNCHANGED vars
  BY <1>7 DEF vars, TypeOK
<1> QED
  BY <1>1, <1>2, <1>3, <1>4, <1>5, <1>6, <1>7

\* An accepted upgrade is one of this connection, which begins with a frame.
LEMMA HeaderDoneFine ==
  ASSUME NEW x, Fine(x), x.tcp # "none", Accepted \subseteq x.hs
  PROVE  LET y == HeaderDone(x)
         IN  /\ Fine(y) /\ y.tcp = x.tcp /\ y.ws = "Connected"
             /\ y.got = x.got /\ y.closing = x.closing
             /\ y.status = x.status /\ y.rx = 0
<1> DEFINE y == HeaderDone(x)
           z == [x EXCEPT !.ws = "Connected"]
<1>0. Whole(x)
  BY DEF Fine
<1>1. y \in Clients
  <2>1. z \in Clients
    BY <1>0 DEF Whole, Clients
  <2>2. y = [z EXCEPT !.rx = 0]
    BY DEF HeaderDone
  <2> HIDE DEF y, z
  <2> QED
    BY <2>1, <2>2 DEF Clients
<1>2. /\ y.tcp = x.tcp /\ y.ws = "Connected" /\ y.hs = x.hs
      /\ y.live = x.live /\ y.got = x.got
  BY <1>0 DEF HeaderDone, Whole, Clients
<1>3. y.closing = x.closing /\ y.status = x.status /\ y.rx = 0
  BY <1>0 DEF HeaderDone, Whole, Clients
<1> HIDE DEF y
<1>4. Fine(y)
  BY <1>0, <1>1, <1>2, <1>3 DEF Fine, Whole, Sound, Accepted
<1> QED
  BY <1>2, <1>3, <1>4 DEF y

\* The connecting and header reading steps of loop().
LEMMA HandshakeStep ==
  ASSUME Inv, LoopStarts \/ Connect \/ NoData \/ HeaderTimeout \/ HeaderLine
              \/ HeaderEnds \/ ReadFrame
  PROVE  Inv'
<1>0. /\ TypeOK /\ Fine(c) /\ Whole(c)
      /\ pc # "out" => c.status # "Idle"
  BY DEF Inv, Fine
<1>1. CASE LoopStarts
  <2>1. /\ Fine(c') /\ Keeps(c, c')
        /\ IsConnected(c) => c' = c
        /\ ~IsConnected(c) => c'.tcp = "none" /\ ~IsConnected(c')
    BY <1>0, <1>1, CheckFacts DEF LoopStarts
  <2>2. c'.status # "Idle" /\ (c'.tcp = "open" => "torn" \notin c'.got)
    BY <1>1, <2>1 DEF LoopStarts, Keeps, Inv
  <2>3. c'.tcp = "open" /\ c'.ws = "Connected" => c'.rx = 0
    BY <1>1, <2>1 DEF LoopStarts, Inv, IsConnected
  <2>4. /\ pc' = IF IsConnected(c') THEN "data" ELSE "connect"
        /\ late' = late
    BY <1>1 DEF LoopStarts
  <2> QED
    BY <1>0, <2>1, <2>2, <2>3, <2>4 DEF Inv, TypeOK, Fine, Whole, IsConnected
<1>2. CASE Connect
  <2>0. c.tcp = "none" /\ c.status # "Idle" /\ pc' = "out" /\ late' \in BOOLEAN
    BY <1>0, <1>2 DEF Connect, Inv, TypeOK
  <2>1. CASE c' = ConnectedCb(c)
    <3>1. c' \in Clients
      <4> DEFINE n == c.live + 1
                 z == [c EXCEPT !.tcp = "open", !.ws = "Header", !.live = n,
                                !.got = {}]
                 h == z.hs \ {"accept"}
      <4>1. n \in Nat
        BY <1>0 DEF Whole, Clients
      <4> HIDE DEF n
      <4>2. z \in Clients
        BY <1>0, <4>1 DEF Whole, Clients
      <4>3. c' = [z EXCEPT !.hs = h]
        BY <2>1 DEF ConnectedCb, SendHeader, n
      <4> HIDE DEF z
      <4>4. h \in SUBSET Facts
        BY <4>2 DEF Clients
      <4> HIDE DEF h
      <4> QED
        BY <4>2, <4>3, <4>4 DEF Clients
    <3>2. /\ c'.tcp = "open" /\ c'.ws = "Header" /\ c'.hs = c.hs \ {"accept"}
          /\ c'.live = c.live + 1 /\ c'.got = {}
      BY <1>0, <2>1 DEF ConnectedCb, SendHeader, Whole, Clients
    <3>3. c'.closing = c.closing /\ c'.status = c.status
      BY <1>0, <2>1 DEF ConnectedCb, SendHeader, Whole, Clients
    <3>4. Whole(c') /\ Sound(c')
      BY <1>0, <2>0, <3>1, <3>2, <3>3 DEF Fine, Whole, Sound
    <3>5. TypeOK' /\ Fine(c') /\ c'.status # "Idle"
      BY <2>0, <3>1, <3>3, <3>4 DEF TypeOK, Fine
    <3>6. (c'.tcp = "open" => "torn" \notin c'.got)
          /\ ~(c'.tcp = "open" /\ c'.ws = "Connected")
      BY <3>2
    <3> QED
      BY <2>0, <3>5, <3>6 DEF Inv
  <2>2. CASE c' = [c EXCEPT !.tcp = "lost", !.live = @ + 1, !.got = {"failed"}]
    <3>1. c' \in Clients
      <4> DEFINE n == c.live + 1
      <4>1. n \in Nat
        BY <1>0 DEF Whole, Clients
      <4>2. c' = [c EXCEPT !.tcp = "lost", !.live = n, !.got = {"failed"}]
        BY <2>2
      <4> HIDE DEF n
      <4> QED
        BY <1>0, <4>1, <4>2 DEF Whole, Clients, Happenings
    <3>2. /\ c'.tcp = "lost" /\ c'.ws = c.ws /\ c'.hs = c.hs
          /\ c'.live = c.live + 1
      BY <1>0, <2>2 DEF Whole, Clients
    <3>3. c'.closing = c.closing /\ c'.status = c.status
      BY <1>0, <2>2 DEF Whole, Clients
    <3>4. Whole(c') /\ Sound(c')
      BY <1>0, <2>0, <3>1, <3>2, <3>3 DEF Fine, Whole, Sound
    <3>5. TypeOK' /\ Fine(c') /\ c'.status # "Idle"
      BY <2>0, <3>1, <3>3, <3>4 DEF TypeOK, Fine
    <3>6. (c'.tcp = "open" => "torn" \notin c'.got)
          /\ ~(c'.tcp = "open" /\ c'.ws = "Connected")
      BY <3>2
    <3> QED
      BY <2>0, <3>5, <3>6 DEF Inv
  <2> QED
    BY <1>2, <2>1, <2>2 DEF Connect
<1>3. CASE NoData
  BY <1>3 DEF NoData, Inv, TypeOK
<1>4. CASE HeaderTimeout
  <2> DEFINE y == [c EXCEPT !.got = @ \cup {"late"}]
  <2>1. Fine(y) /\ y.status = c.status
    BY <1>0, Record DEF Happenings
  <2>2. c' = Drop(y, "timeout") /\ "timeout" \in Reasons
    BY <1>4 DEF HeaderTimeout, Reasons, ReasonCode
  <2> HIDE DEF y
  <2>3. Fine(c') /\ Keeps(y, c') /\ c'.tcp = "none"
    BY <2>1, <2>2, DropFine
  <2> QED
    BY <1>0, <1>4, <2>1, <2>3, CallDrops DEF HeaderTimeout
<1>5. CASE HeaderLine
  <2>1. PICK line \in Facts \cup {"garbled", "rejected", "other"} :
          c' = [c EXCEPT !.hs = Parsed(@, line), !.got = @ \cup (Facts \cap {line})]
    BY <1>5 DEF HeaderLine
  <2>2. /\ Parsed(c.hs, line) \subseteq c.hs \cup (Facts \cap {line})
    BY DEF Parsed, Facts
  <2>3. c' \in Clients
    <3>1. Parsed(c.hs, line) \in SUBSET Facts
      BY <1>0, <2>2 DEF Whole, Clients
    <3>2. c.got \cup (Facts \cap {line}) \in SUBSET Happenings
      BY <1>0 DEF Whole, Clients, Happenings
    <3> QED
      BY <1>0, <2>1, <3>1, <3>2 DEF Whole, Clients
  <2>4. /\ c'.tcp = c.tcp /\ c'.ws = c.ws /\ c'.live = c.live
        /\ c'.hs = Parsed(c.hs, line) /\ c'.got = c.got \cup (Facts \cap {line})
    BY <1>0, <2>1 DEF Whole, Clients
  <2>5. c'.closing = c.closing /\ c'.status = c.status
    BY <1>0, <2>1 DEF Whole, Clients
  <2>6. pc = "data" /\ pc' = "out" /\ late' = late /\ c.ws = "Header"
    BY <1>5 DEF HeaderLine, ReadsLine
  <2>7. c.tcp # "none"
    BY <2>6 DEF Inv
  <2>8. Whole(c') /\ Sound(c')
    BY <1>0, <2>2, <2>3, <2>4, <2>5, <2>7 DEF Fine, Whole, Sound
  <2>9. c'.tcp = "open" => "torn" \notin c'.got
    BY <2>4 DEF Inv, Facts
  <2> QED
    BY <1>0, <2>3, <2>4, <2>5, <2>6, <2>8, <2>9 DEF Inv, TypeOK, Fine
<1>6. CASE HeaderEnds
  <2>0. /\ pc = "data" /\ pc' = "out" /\ late' = late /\ c.ws = "Header"
        /\ c.tcp # "none"
    BY <1>6 DEF HeaderEnds, ReadsLine, Inv
  <2>1. CASE Accepted \subseteq c.hs /\ c' \in OnConnected(HeaderDone(c))
    <3> DEFINE y == HeaderDone(c)
    <3>3. /\ Fine(y) /\ y.tcp = c.tcp /\ y.ws = "Connected" /\ y.got = c.got
          /\ y.status = c.status /\ y.rx = 0
      BY <1>0, <2>0, <2>1, HeaderDoneFine
    <3> HIDE DEF y
    <3>5. Fine(c') /\ Keeps(y, c')
      BY <1>0, <2>0, <2>1, <3>3, OnConnectedFacts DEF y
    <3>6. c'.rx = 0 /\ c'.status # "Idle"
      BY <1>0, <2>0, <3>3, <3>5 DEF Keeps
    <3>7. c'.tcp = "open" => "torn" \notin c'.got
      BY <3>3, <3>5 DEF Keeps, Inv
    <3> QED
      BY <1>0, <2>0, <3>5, <3>6, <3>7 DEF Inv, TypeOK, Fine, Whole
  <2>2. CASE c' = Drop(Drop(c, "http"), "http")
    <3>1. "http" \in Reasons
      BY DEF Reasons, ReasonCode
    <3>2. Fine(Drop(c, "http")) /\ Keeps(c, Drop(c, "http"))
      BY <1>0, <3>1, DropFine
    <3>3. Fine(c') /\ Keeps(Drop(c, "http"), c') /\ c'.tcp = "none"
      BY <2>2, <3>1, <3>2, DropFine
    <3>4. Drop(c, "http").status # "Idle"
      BY <1>0, <2>0, <3>2 DEF Keeps
    <3> QED
      BY <2>0, <3>2, <3>3, <3>4, CallDrops
  <2>3. CASE \E r \in {"failed", "http"} : c' = Drop(Check(c), r)
    <3>1. PICK r \in {"failed", "http"} : c' = Drop(Check(c), r)
      BY <2>3
    <3>2. r \in Reasons
      BY DEF Reasons, ReasonCode
    <3>3. Fine(Check(c)) /\ Keeps(c, Check(c))
      BY <1>0, CheckFacts
    <3>4. Fine(c') /\ Keeps(Check(c), c') /\ c'.tcp = "none"
      BY <3>1, <3>2, <3>3, DropFine
    <3>5. Check(c).status # "Idle"
      BY <1>0, <2>0, <3>3 DEF Keeps
    <3> QED
      BY <2>0, <3>3, <3>4, <3>5, CallDrops
  <2> QED
    BY <1>6, <2>1, <2>2, <2>3 DEF HeaderEnds
<1>7. CASE ReadFrame
  BY <1>7 DEF ReadFrame, Inv, TypeOK
<1> QED
  BY <1>1, <1>2, <1>3, <1>4, <1>5, <1>6, <1>7

\* The steps of a frame that is being read.
LEMMA FrameReadingStep ==
  ASSUME Inv, HeaderBytes \/ HeaderBytesMissing \/ FrameAbandoned
              \/ FrameTooLarge \/ PayloadMissing \/ FrameArrives
  PROVE  Inv'
<1>0. /\ TypeOK /\ Fine(c) /\ Whole(c) /\ pc = "frame" /\ c.status # "Idle"
      /\ c.tcp # "none" /\ c.ws = "Connected" /\ late' = late
  BY DEF Inv, Fine, HeaderBytes, HeaderBytesMissing, FrameAbandoned,
         FrameTooLarge, PayloadMissing, FrameArrives, FrameStep
<1> DEFINE t == Torn(c)
<1>1. /\ Fine(t) /\ t.status = c.status /\ t.tcp = c.tcp
  BY <1>0, Record DEF Torn, Happenings
<1> HIDE DEF t
<1>2. ASSUME NEW x, Fine(x), x.status # "Idle", c' = DropHinted(x), pc' = "out"
      PROVE  Inv'
  <2>1. Fine(c') /\ Keeps(x, c') /\ c'.tcp = "none"
    BY <1>2, DropHintedFine
  <2> QED
    BY <1>0, <1>2, <2>1, CallDrops
<1>3. CASE HeaderBytes
  <2>0. pc' = pc /\ c.tcp = "open"
    BY <1>3 DEF HeaderBytes, BytesArrive
  <2>1. ASSUME NEW x, Fine(x), NEW n \in 0 .. 14, c' = [x EXCEPT !.rx = n],
               x.status = c.status, x.ws = "Connected", x.tcp = "open",
               "torn" \notin x.got
        PROVE  Inv'
    <3>1. /\ Fine(c') /\ c'.status = c.status /\ c'.tcp = "open"
          /\ c'.ws = "Connected" /\ c'.got = x.got
      BY <2>1, SetRx
    <3>2. TypeOK'
      BY <1>0, <2>0, <3>1 DEF TypeOK, Fine, Whole
    <3> QED
      BY <1>0, <2>0, <2>1, <3>1, <3>2 DEF Inv
  <2>2. CASE \E f \in Frames :
          c' = [c EXCEPT !.rx = 2, !.frame = f,
                         !.got = @ \cup (IF f.op = "close" THEN {"close"} ELSE {})
                                   \cup (IF f.size = "over" THEN {"over"} ELSE {})]
    <3>1. PICK f \in Frames :
          c' = [c EXCEPT !.rx = 2, !.frame = f,
                         !.got = @ \cup (IF f.op = "close" THEN {"close"} ELSE {})
                                   \cup (IF f.size = "over" THEN {"over"} ELSE {})]
      BY <2>2
    <3> DEFINE g == c.got \cup (IF f.op = "close" THEN {"close"} ELSE {})
                          \cup (IF f.size = "over" THEN {"over"} ELSE {})
               x == [c EXCEPT !.frame = f, !.got = g]
    <3>2. /\ c.got \subseteq g /\ g \in SUBSET Happenings
          /\ "torn" \notin c.got => "torn" \notin g
      BY <1>0 DEF Whole, Clients, Happenings
    <3>3. c' = [c EXCEPT !.rx = 2, !.frame = f, !.got = g]
      BY <3>1
    <3> HIDE DEF g
    <3>4. f \in AllFrames
      BY FramesAssumption
    <3>5. x \in Clients
      BY <1>0, <3>2, <3>4 DEF Whole, Clients
    <3>6. /\ x.tcp = c.tcp /\ x.ws = c.ws /\ x.hs = c.hs /\ x.live = c.live
          /\ x.got = g
      BY <1>0 DEF Whole, Clients
    <3>7. x.closing = c.closing /\ x.status = c.status
      BY <1>0 DEF Whole, Clients
    <3>8. c' = [x EXCEPT !.rx = 2]
      BY <1>0, <3>3 DEF Whole, Clients
    <3> HIDE DEF x
    <3>9. Fine(x)
      BY <1>0, <3>2, <3>5, <3>6, <3>7 DEF Fine, Whole, Sound
    <3>10. "torn" \notin x.got
      BY <2>0, <3>2, <3>6 DEF Inv
    <3>11. c.ws = "Connected"
      BY <1>0, <2>0, <1>3 DEF Inv, HeaderBytes
    <3>12. x.ws = "Connected" /\ x.tcp = "open" /\ x.status = c.status
      BY <2>0, <3>6, <3>7, <3>11
    <3>13. 2 \in 0 .. 14
      OBVIOUS
    <3> QED
      BY <2>1, <3>8, <3>9, <3>10, <3>12, <3>13
  <2>3. CASE \E n \in {LengthEnd(c.frame), HeaderEnd(c.frame)} :
               c' = [c EXCEPT !.rx = n]
    <3>1. PICK n \in {LengthEnd(c.frame), HeaderEnd(c.frame)} :
                 c' = [c EXCEPT !.rx = n]
      BY <2>3
    <3>2. c.frame.ext \in {0, 2, 8}
      BY <1>0 DEF Whole, Clients, AllFrames
    <3>3. n \in 0 .. 14
      BY <3>1, <3>2 DEF LengthEnd, HeaderEnd
    <3>4. "torn" \notin c.got
      BY <2>0 DEF Inv
    <3> QED
      BY <1>0, <2>0, <2>1, <3>1, <3>3, <3>4
  <2> QED
    BY <1>3, <2>2, <2>3 DEF HeaderBytes
<1>4. CASE HeaderBytesMissing
  <2> DEFINE x == [t EXCEPT !.rx = 0]
  <2>1. c' = DropHinted(x) /\ pc' = "out"
    BY <1>4 DEF HeaderBytesMissing, FrameStep, t
  <2>2. Fine(x) /\ x.status = t.status
    <3>1. 0 \in 0 .. 14
      OBVIOUS
    <3> HIDE DEF x
    <3>2. \A n \in 0 .. 14 : LET y == [t EXCEPT !.rx = n]
                             IN  Fine(y) /\ y.status = t.status
      BY <1>1, SetRx
    <3> QED
      BY <3>1, <3>2 DEF x
  <2> HIDE DEF x
  <2> QED
    BY <1>0, <1>1, <1>2, <2>1, <2>2
<1>5. CASE FrameAbandoned
  <2>1. c' = t /\ c.tcp = "lost" /\ pc' = "out"
    BY <1>5 DEF FrameAbandoned, FrameStep, t
  <2>2. TypeOK'
    BY <1>0, <1>1, <2>1 DEF TypeOK, Fine, Whole
  <2> QED
    BY <1>0, <1>1, <2>1, <2>2 DEF Inv
<1>6. CASE FrameTooLarge
  BY <1>0, <1>1, <1>2, <1>6 DEF FrameTooLarge, FrameStep, t
<1>7. CASE PayloadMissing
  BY <1>0, <1>1, <1>2, <1>7 DEF PayloadMissing, FrameStep, t
<1>8. CASE FrameArrives
  <2>1. PICK d \in Dispatched(c) : c' = [d EXCEPT !.rx = 0]
    BY <1>8 DEF FrameArrives
  <2>2. Fine(d) /\ Keeps(c, d)
    BY <1>0, <2>1, DispatchedFacts
  <2>3. /\ Fine(c') /\ c'.status = d.status /\ c'.tcp = d.tcp /\ c'.rx = 0
        /\ c'.got = d.got
    <3>1. 0 \in 0 .. 14
      OBVIOUS
    <3>2. \A n \in 0 .. 14 :
            LET y == [d EXCEPT !.rx = n]
            IN  /\ Fine(y) /\ y.status = d.status /\ y.tcp = d.tcp
                /\ y.rx = n /\ y.got = d.got
      BY <2>2, SetRx
    <3>3. LET y == [d EXCEPT !.rx = 0]
          IN  /\ Fine(y) /\ y.status = d.status /\ y.tcp = d.tcp
              /\ y.rx = 0 /\ y.got = d.got
      BY <3>1, <3>2
    <3> QED
      BY <2>1, <3>3
  <2>4. c'.status # "Idle" /\ (c'.tcp = "open" => "torn" \notin c'.got)
    BY <1>0, <2>2, <2>3 DEF Keeps, Inv
  <2>5. TypeOK' /\ pc' = "out"
    BY <1>0, <1>8, <2>3 DEF FrameArrives, FrameStep, TypeOK, Fine, Whole
  <2> QED
    BY <2>3, <2>4, <2>5 DEF Inv
<1> QED
  BY <1>3, <1>4, <1>5, <1>6, <1>7, <1>8

LEMMA Inductive == Spec => []Inv
<1>1. Inv /\ [Next]_vars => Inv'
  BY OutsideStep, HandshakeStep, FrameReadingStep DEF Next, Loop
<1> QED
  BY InitInv, <1>1, PTL DEF Spec

-----------------------------------------------------------------------------
(* The properties.                                                         *)

\* Every reachable state of the client and its transport is well typed.
THEOREM ClientTypeCorrect == Spec => []TypeOK
<1>1. Inv => TypeOK
  BY DEF Inv
<1> QED
  BY <1>1, Inductive, PTL

\* A WebSocket is established only by this connection's own response.
THEOREM EstablishedProperly == Spec => []Established
<1>1. Inv => Established
  BY DEF Inv, Fine, Whole, Established
<1> QED
  BY <1>1, Inductive, PTL

\* The status never claims a session that is not there.
THEOREM StatusIsTruthful == Spec => []StatusTruthful
<1>1. Inv => StatusTruthful
  BY DEF Inv, Fine, Sound, StatusTruthful
<1> QED
  BY <1>1, Inductive, PTL

\* close() leaves no socket, and none is ever leaked.
THEOREM ClosedAndOwned == Spec => []ClosedMeansClosed
<1>1. Inv => ClosedMeansClosed
  BY DEF Inv, Fine, Whole, ClosedMeansClosed
<1> QED
  BY <1>1, Inductive, PTL

\* Frames are read from their beginning, and go on being read.
THEOREM FramesInSync == Spec => []InSync
<1>1. Inv => InSync
  BY DEF Inv, InSync
<1> QED
  BY <1>1, Inductive, PTL

-----------------------------------------------------------------------------
(* The reason given is one of this connection.                             *)

\* No hint is left over, and what the next reason will rest on has happened.
Carries(x) ==
  /\ x.hint = "none"
  /\ x.tcp # "none" /\ x.ws = "NotConnected" =>
       x.tcp = "lost" /\ "failed" \in x.got
  /\ x.tcp = "lost" /\ x.ws # "NotConnected" => "cut" \in x.got
  /\ x.ws = "Connected" /\ x.rx # 0 =>
       /\ x.frame.op = "close"  => "close" \in x.got
       /\ x.frame.size = "over" => "over" \in x.got

\* What a chain of calls within one connection makes of it.
Tells(x, d) ==
  /\ Carries(d)
  /\ x.got \subseteq d.got
  /\ d.why = x.why \/ Truthful(d.why, x, d.got)
  /\ d.ws = "Header" => x.ws = "Header"
  /\ d.ws = "Connected" /\ d.rx # 0 => x.ws = "Connected" /\ x.rx # 0

LEMMA TellsOn ==
  ASSUME NEW x, NEW y, NEW z, Tells(x, y), Tells(y, z)
  PROVE  Tells(x, z)
<1>1. Truthful(y.why, x, y.got) => Truthful(y.why, x, z.got)
  BY DEF Tells, Truthful
<1>2. Truthful(z.why, y, z.got) => Truthful(z.why, x, z.got)
  BY DEF Tells, Truthful
<1> QED
  BY <1>1, <1>2 DEF Tells

LEMMA TellsSame ==
  ASSUME NEW x, NEW y, Carries(x), x.got \subseteq y.got, y.why = x.why,
         y.hint = x.hint, y.tcp = x.tcp, y.ws = x.ws,
         (y.rx = x.rx /\ y.frame = x.frame) \/ y.rx = 0
  PROVE  Tells(x, y)
BY DEF Tells, Carries

\* The event of a dropped connection uses the hint up.
LEMMA DropTells ==
  ASSUME NEW x, Whole(x), NEW r \in Reasons,
         x.tcp = "none" => x.hint = "none",
         \/ x.tcp = "none" \/ x.closing
         \/ Truthful(DisconnectCode(x.hint, r), x, x.got)
  PROVE  Tells(x, Drop(x, r))
<1> DEFINE n == IF x.tcp = "none" THEN x.live ELSE x.live - 1
           e == [x EXCEPT !.tcp = "none", !.ws = "NotConnected", !.hs = {},
                          !.live = n]
           d == Drop(x, r)
<1>0. x \in Clients
  BY DEF Whole
<1>1. /\ d.tcp = "none" /\ d.ws = "NotConnected" /\ d.got = x.got
  BY DropWhole DEF Whole
<1>2. /\ e.hint = x.hint /\ e.why = x.why /\ e.closing = x.closing
      /\ e.status = x.status
  BY <1>0 DEF Clients
<1>3. /\ d.hint = "none"
      /\ \/ d.why = x.why
         \/ x.tcp # "none" /\ ~x.closing /\ d.why = DisconnectCode(x.hint, r)
  <2>1. CASE x.tcp = "none"
    <3>1. d = e
      BY <2>1 DEF Drop
    <3> QED
      BY <1>2, <2>1, <3>1
  <2>2. CASE x.tcp # "none"
    <3>1. d = OnDisconnected(e, r)
      BY <2>2 DEF Drop
    <3>2. /\ "hint" \in DOMAIN e /\ "why" \in DOMAIN e
          /\ e = [f \in DOMAIN e |-> e[f]]
      BY <1>0 DEF Clients
    <3> HIDE DEF d, e, n
    <3>3. CASE x.closing \/ x.status \in {"ProviderError", "ProtocolError"}
      <4>1. d = [e EXCEPT !.hint = "none"]
        BY <1>2, <3>1, <3>3 DEF OnDisconnected
      <4> QED
        BY <1>2, <3>2, <4>1
    <3>4. CASE ~(x.closing \/ x.status \in {"ProviderError", "ProtocolError"})
      <4>1. d = [e EXCEPT !.hint = "none", !.why = DisconnectCode(x.hint, r),
                          !.status = "Disconnected"]
        BY <1>2, <3>1, <3>4 DEF OnDisconnected
      <4> QED
        BY <2>2, <3>2, <3>4, <4>1
    <3> QED
      BY <3>3, <3>4
  <2> QED
    BY <2>1, <2>2
<1> HIDE DEF d
<1>4. d.why = x.why \/ Truthful(d.why, x, d.got)
  BY <1>1, <1>3
<1>5. Carries(d)
  BY <1>1, <1>3 DEF Carries
<1> QED
  BY <1>1, <1>4, <1>5 DEF Tells, d

\* A reason without a hint.
LEMMA DropForReason ==
  ASSUME NEW x, Whole(x), Carries(x), NEW r \in Reasons,
         x.tcp # "none" =>
           /\ r = "lost"    => "cut" \in x.got
           /\ r = "cleanup" => "failed" \in x.got
           /\ r = "timeout" => "late" \in x.got
           /\ r = "http"    => Facts \cap x.got # {}
           /\ r \in {"timeout", "http", "failed"} => x.ws = "Header"
           /\ r # "none"
  PROVE  Tells(x, Drop(x, r))
<1>1. x.hint = "none"
  BY DEF Carries
<1>2. x.tcp # "none" => Truthful(DisconnectCode(x.hint, r), x, x.got)
  BY <1>1 DEF DisconnectCode, Truthful, ReasonCode, Reasons, Hints
<1> QED
  BY <1>1, <1>2, DropTells

\* A hint is inferred from a frame of this connection, unless the connection
\* has none yet; then the transport is closing and no reason is given.
LEMMA DropHintedTells ==
  ASSUME NEW x, Whole(x), Carries(x), x.tcp # "none",
         x.ws = "Connected" \/ x.closing
  PROVE  Tells(x, DropHinted(x))
<1> DEFINE e == [x EXCEPT !.hint = InferHint(x)]
<1>1. InferHint(x) \in Hints
  BY DEF InferHint, Hints
<1>2. /\ Whole(e) /\ e.tcp = x.tcp /\ e.closing = x.closing
      /\ e.ws = x.ws /\ e.got = x.got /\ e.why = x.why /\ e.hint = InferHint(x)
      /\ e.rx = x.rx
  BY <1>1 DEF Whole, Clients
<1>3. "none" \in Reasons /\ ReasonCode["none"] = "unknown_disconnect"
  BY DEF Reasons, ReasonCode
<1>4. x.ws = "Connected" => Truthful(DisconnectCode(InferHint(x), "none"), x, x.got)
  <2> DEFINE h == InferHint(x)
             k == DisconnectCode(h, "none")
  <2>1. \/ h = "none"
        \/ h = "frame_receive_failed" /\ x.rx # 0
        \/ h = "server_close" /\ x.rx # 0 /\ x.frame.op = "close"
        \/ h = "frame_too_large" /\ x.rx # 0 /\ x.frame.size = "over"
    BY DEF InferHint
  <2>2. k = IF h = "none" THEN "unknown_disconnect" ELSE h
    BY <1>3 DEF DisconnectCode
  <2> HIDE DEF h, k
  <2>3. x.ws = "Connected" => Truthful(k, x, x.got)
    BY <2>1, <2>2 DEF Carries, Truthful, Whole, Hints
  <2> QED
    BY <2>3 DEF h, k
<1>5. DropHinted(x) = Drop(e, "none")
  BY DEF DropHinted
<1> HIDE DEF e
<1>6. Tells(e, Drop(e, "none"))
  <2>1. Truthful(DisconnectCode(InferHint(x), "none"), x, x.got) =>
          Truthful(DisconnectCode(e.hint, "none"), e, e.got)
    BY <1>2 DEF Truthful
  <2> QED
    BY <1>2, <1>3, <1>4, <2>1, DropTells
<1>7. Truthful(Drop(e, "none").why, e, Drop(e, "none").got) =>
        Truthful(Drop(e, "none").why, x, Drop(e, "none").got)
  BY <1>2 DEF Truthful
<1> QED
  BY <1>2, <1>5, <1>6, <1>7 DEF Tells

LEMMA CheckTells ==
  ASSUME NEW x, Whole(x), Carries(x)
  PROVE  Tells(x, Check(x))
<1>1. CASE x.tcp = "none" \/ IsConnected(x)
  BY <1>1, TellsSame DEF Check, IsConnected
<1>2. CASE ~(x.tcp = "none" \/ IsConnected(x))
  <2>1. PICK r \in {"lost", "cleanup"} :
          /\ Check(x) = Drop(x, r)
          /\ r = "lost" <=> x.tcp = "lost" /\ x.ws # "NotConnected"
    BY <1>2 DEF Check
  <2>2. r \in Reasons
    BY DEF Reasons, ReasonCode
  <2>3. /\ r = "lost" => "cut" \in x.got
        /\ r = "cleanup" => "failed" \in x.got
    <3>1. x.tcp \in {"none", "open", "lost"}
      BY DEF Whole, Clients
    <3> QED
      BY <1>2, <2>1, <3>1 DEF Carries, IsConnected
  <2> QED
    BY <2>1, <2>2, <2>3, DropForReason
<1> QED
  BY <1>1, <1>2

LEMMA DisconnectTells ==
  ASSUME NEW x, Whole(x), Carries(x), x.ws # "Header" \/ x.closing
  PROVE  Tells(x, Disconnect(x))
<1>1. Tells(x, Check(x))
  BY CheckTells
<1>2. CASE IsConnected(x)
  <2>1. Disconnect(x) = DropHinted(x)
    BY <1>2, CheckFacts DEF Disconnect
  <2>2. x.ws = "Connected" \/ x.closing
    BY <1>2 DEF IsConnected, Whole, Clients
  <2> QED
    BY <1>2, <2>1, <2>2, DropHintedTells DEF IsConnected
<1>3. CASE ~IsConnected(x)
  <2>1. Disconnect(x) = Check(x)
    BY <1>3, CheckFacts DEF Disconnect
  <2> QED
    BY <1>1, <2>1
<1> QED
  BY <1>2, <1>3

\* What the transport sets says nothing about the connection.
LEMMA StatusTells ==
  ASSUME NEW x, Whole(x), Carries(x), NEW st \in Statuses
  PROVE  LET y == [x EXCEPT !.status = st]
         IN  Tells(x, y) /\ Carries(y)
<1> DEFINE y == [x EXCEPT !.status = st]
<1>1. /\ y.got = x.got /\ y.why = x.why /\ y.hint = x.hint /\ y.tcp = x.tcp
      /\ y.ws = x.ws /\ y.rx = x.rx /\ y.frame = x.frame
  BY DEF Whole, Clients
<1> HIDE DEF y
<1> QED
  BY <1>1, TellsSame DEF Tells, y

LEMMA BreakOffTells ==
  ASSUME NEW x, Whole(x), Carries(x), x.ws # "Header", NEW st \in Statuses
  PROVE  Tells(x, Disconnect([x EXCEPT !.status = st]))
<1> DEFINE y == [x EXCEPT !.status = st]
<1>1. Whole(y) /\ y.ws = x.ws
  BY SetStatus
<1>2. Tells(x, y) /\ Carries(y)
  BY StatusTells
<1> HIDE DEF y
<1>3. Tells(y, Disconnect(y))
  BY <1>1, <1>2, DisconnectTells
<1> QED
  BY <1>2, <1>3, TellsOn DEF y

LEMMA SendFrameTells ==
  ASSUME NEW x, Fine(x), Carries(x), NEW s \in SendFrame(x)
  PROVE  Tells(x, s.c)
<1> DEFINE y == [x EXCEPT !.tcp = "lost", !.got = @ \cup {"cut"}]
<1>1. /\ y.got = x.got \cup {"cut"} /\ y.why = x.why /\ y.hint = x.hint
      /\ y.tcp = "lost" /\ y.ws = x.ws /\ y.rx = x.rx /\ y.frame = x.frame
  BY DEF Fine, Whole, Clients
<1>2. s.c = x \/ (s.c = y /\ x.ws = "Connected")
  BY DEF SendFrame, Write
<1> HIDE DEF y
<1>3. Tells(x, x)
  BY TellsSame
<1>4. x.ws = "Connected" => Tells(x, y)
  BY <1>1 DEF Tells, Carries
<1> QED
  BY <1>2, <1>3, <1>4

LEMMA SendTextTells ==
  ASSUME NEW x, Fine(x), Carries(x), NEW s \in SendText(x)
  PROVE  Tells(x, s.c)
<1> DEFINE y == Check(x)
<1>1. Tells(x, y) /\ Fine(y) /\ Carries(y)
  BY CheckTells, CheckFacts DEF Fine, Tells
<1>2. s.c = y \/ s \in SendFrame(y)
  BY DEF SendText
<1> HIDE DEF y
<1>3. s \in SendFrame(y) => Tells(y, s.c)
  BY <1>1, SendFrameTells
<1> QED
  BY <1>1, <1>2, <1>3, TellsOn

LEMMA QueueEventTells ==
  ASSUME NEW x, Whole(x), Carries(x), x.ws # "Header", NEW d \in QueueEvent(x)
  PROVE  Tells(x, d)
<1>1. Tells(x, x)
  BY TellsSame
<1>2. "ProtocolError" \in Statuses
  BY DEF Statuses
<1> QED
  BY <1>1, <1>2, BreakOffTells DEF QueueEvent

LEMMA GiveUpTells ==
  ASSUME NEW x, Whole(x), Carries(x), x.ws # "Header"
  PROVE  Tells(x, GiveUp(x))
<1>1. "Disconnected" \in Statuses
  BY DEF Statuses
<1> QED
  BY <1>1, BreakOffTells DEF GiveUp

LEMMA OnConnectedTells ==
  ASSUME NEW x, Fine(x), Carries(x), x.ws = "Connected", x.status # "Idle",
         NEW d \in OnConnected(x)
  PROVE  Tells(x, d)
<1> DEFINE y == [x EXCEPT !.status = "AwaitingSession"]
<1>1. /\ Whole(y) /\ y.status = "AwaitingSession" /\ y.ws = x.ws
      /\ y.closing = x.closing /\ Tells(x, y) /\ Carries(y)
  BY SetStatus, StatusTells DEF Fine, Statuses
<1>2. PICK s \in SendText(y) : d = IF s.ok THEN s.c ELSE GiveUp(s.c)
  BY DEF OnConnected
<1> HIDE DEF y
<1>3. y.got = x.got
  BY SetStatus DEF y, Fine, Statuses
<1>4. Fine(y)
  BY <1>1 DEF Fine, Sound
<1>5. Fine(s.c) /\ Tells(y, s.c)
  BY <1>1, <1>4, SendTextFacts, SendTextTells
<1>6. s.c.ws # "Header" /\ Carries(s.c) /\ Whole(s.c)
  BY <1>1, <1>5 DEF Tells, Fine
<1>7. Tells(s.c, d)
  <2>1. Tells(s.c, s.c)
    BY <1>6, TellsSame
  <2> QED
    BY <1>2, <1>6, <2>1, GiveUpTells
<1> QED
  BY <1>1, <1>5, <1>7, TellsOn

LEMMA OnTextTells ==
  ASSUME NEW x, Fine(x), Carries(x), x.ws = "Connected", NEW d \in OnText(x)
  PROVE  Tells(x, d)
<1>0. Whole(x) /\ x \in Clients
  BY DEF Fine, Whole
<1>1. ASSUME NEW s \in SendText(x), ~s.ok, d = GiveUp(s.c)
      PROVE  Tells(x, d)
  <2>1. Fine(s.c) /\ Tells(x, s.c)
    BY SendTextFacts, SendTextTells
  <2>2. Whole(s.c) /\ Carries(s.c) /\ s.c.ws # "Header"
    BY <2>1 DEF Tells, Fine
  <2> QED
    BY <1>1, <2>1, <2>2, GiveUpTells, TellsOn
<1>2. ASSUME NEW y, Whole(y), Tells(x, y), y.ws = "Connected", d \in QueueEvent(y)
      PROVE  Tells(x, d)
  <2>1. Tells(y, d)
    BY <1>2, QueueEventTells DEF Tells
  <2> QED
    BY <1>2, <2>1, TellsOn
<1>3. CASE d \in QueueEvent([x EXCEPT !.status = "Ready", !.got = @ \cup {"created"}])
  <2> DEFINE y == [x EXCEPT !.status = "Ready", !.got = @ \cup {"created"}]
  <2>1. y \in Clients
    BY <1>0 DEF Clients, Statuses, Happenings
  <2>2. /\ y.tcp = x.tcp /\ y.ws = x.ws /\ y.live = x.live /\ y.hs = x.hs
        /\ y.got = x.got \cup {"created"}
    BY <1>0 DEF Clients
  <2>3. y.why = x.why /\ y.hint = x.hint /\ y.rx = x.rx /\ y.frame = x.frame
    BY <1>0 DEF Clients
  <2>4. d \in QueueEvent(y)
    BY <1>3
  <2> HIDE DEF y
  <2>5. Whole(y)
    BY <1>0, <2>1, <2>2 DEF Whole
  <2>6. Tells(x, y)
    BY <2>2, <2>3, TellsSame
  <2> QED
    BY <1>2, <2>2, <2>4, <2>5, <2>6
<1>4. ASSUME NEW st \in {"ProviderError", "ProtocolError", x.status},
             d \in QueueEvent([x EXCEPT !.status = st])
      PROVE  Tells(x, d)
  <2>1. st \in Statuses
    BY <1>0 DEF Clients, Statuses
  <2> DEFINE y == [x EXCEPT !.status = st]
  <2>2. Whole(y) /\ y.ws = x.ws /\ Tells(x, y)
    BY <1>0, <2>1, SetStatus, StatusTells
  <2>3. d \in QueueEvent(y)
    BY <1>4
  <2> HIDE DEF y
  <2> QED
    BY <1>2, <2>2, <2>3
<1>5. \A s \in SendText(x) : s.ok => s.c = x
  BY SendTextFacts
<1> QED
  BY <1>1, <1>3, <1>4, <1>5 DEF OnText, OnSessionCreated

LEMMA DispatchedTells ==
  ASSUME NEW x, Fine(x), Carries(x), x.ws = "Connected", x.tcp # "none",
         NEW d \in Dispatched(x)
  PROVE  Tells(x, d)
<1>0. Tells(x, x) /\ Whole(x)
  BY TellsSame DEF Fine
<1>1. CASE d \in OnText(x)
  BY <1>1, OnTextTells
<1>2. CASE \E s \in SendFrame(x) : d = s.c
  BY <1>2, SendFrameTells
<1>3. CASE d = DropHinted(x)
  BY <1>0, <1>3, DropHintedTells
<1>4. CASE d = x
  BY <1>0, <1>4
<1> QED
  BY <1>1, <1>2, <1>3, <1>4 DEF Dispatched

LEMMA CloseTells ==
  ASSUME NEW x, Whole(x), Carries(x), Fine(x) \/ x.status # "Ready",
         NEW d \in Close(x)
  PROVE  Tells(x, d)
<1>1. PICK y \in IF x.status = "Ready" THEN {s.c : s \in SendText(x)} ELSE {x} :
        d = [Disconnect([y EXCEPT !.closing = TRUE]) EXCEPT !.status = "Idle"]
  BY DEF Close
<1>2. Tells(x, y) /\ Whole(y)
  <2>1. CASE x.status = "Ready"
    BY <1>1, <2>1, SendTextFacts, SendTextTells DEF Fine
  <2>2. CASE x.status # "Ready"
    BY <1>1, <2>2, TellsSame
  <2> QED
    BY <2>1, <2>2
<1> DEFINE z == [y EXCEPT !.closing = TRUE]
           e == Disconnect(z)
<1>3. z \in Clients /\ z.closing
  BY <1>2 DEF Whole, Clients
<1>4. /\ z.tcp = y.tcp /\ z.ws = y.ws /\ z.hs = y.hs /\ z.live = y.live
      /\ z.got = y.got
  BY <1>2 DEF Whole, Clients
<1>5. z.why = y.why /\ z.hint = y.hint /\ z.rx = y.rx /\ z.frame = y.frame
  BY <1>2 DEF Whole, Clients
<1>6. d = [e EXCEPT !.status = "Idle"] /\ "Idle" \in Statuses
  BY <1>1 DEF Statuses
<1> HIDE DEF z
<1>7. Whole(z) /\ Tells(y, z)
  BY <1>2, <1>3, <1>4, <1>5, TellsSame DEF Whole, Tells
<1>8. Tells(z, e) /\ Whole(e)
  BY <1>3, <1>7, DisconnectTells, DisconnectFacts DEF Tells
<1> HIDE DEF e
<1>9. Tells(e, d)
  BY <1>6, <1>8, StatusTells DEF Tells
<1> QED
  BY <1>2, <1>7, <1>8, <1>9, TellsOn

Carried == Carries(c)' /\ (c'.why = c.why \/ Truthful(c'.why, c, c'.got))

LEMMA DiagnosisOutside ==
  ASSUME Inv, Carries(c),
         CloseTransport \/ Begin \/ BeginRefused \/ SendInput
           \/ LinkDrops \/ TimePasses \/ UNCHANGED vars
  PROVE  Carried
<1>0. Fine(c) /\ Whole(c) /\ c \in Clients
  BY DEF Inv, Fine, TypeOK
<1>1. CASE CloseTransport
  <2>1. Tells(c, c')
    BY <1>0, <1>1, CloseTells DEF CloseTransport
  <2> QED
    BY <2>1 DEF Tells, Carried
<1>2. CASE Begin
  <2>1. PICK d \in Close(c) : c' = Begun(d)
    BY <1>2 DEF Begin
  <2>2. d \in Clients
    BY <1>0, <2>1, CloseFacts DEF Fine, Whole
  <2>3. /\ c'.hint = "none" /\ c'.why = "none" /\ c'.tcp = "none"
        /\ c'.ws = "NotConnected"
    BY <2>1, <2>2 DEF Begun, Clients
  <2> QED
    BY <2>3 DEF Carried, Carries, Truthful, Hints
<1>3. CASE BeginRefused
  <2> DEFINE y == [c EXCEPT !.status = "ProtocolError"]
  <2>1. "ProtocolError" \in Statuses /\ c' \in Close(y)
    BY <1>3 DEF Statuses, BeginRefused
  <2>2. Whole(y) /\ Tells(c, y) /\ y.status # "Ready"
    BY <1>0, <2>1, SetStatus, StatusTells
  <2> HIDE DEF y
  <2>3. Tells(y, c')
    BY <2>1, <2>2, CloseTells DEF Tells
  <2>4. Tells(c, c')
    BY <2>2, <2>3, TellsOn
  <2> QED
    BY <2>4 DEF Tells, Carried
<1>4. CASE SendInput
  <2>1. PICK s \in SendText(c) : c' = s.c
    BY <1>4 DEF SendInput
  <2>2. Tells(c, c')
    BY <1>0, <2>1, SendTextTells
  <2> QED
    BY <2>2 DEF Tells, Carried
<1>5. CASE LinkDrops
  <2>1. /\ c.tcp = "open" /\ c'.tcp = "lost" /\ c'.got = c.got \cup {"cut"}
        /\ c'.ws = c.ws /\ c'.hint = c.hint /\ c'.why = c.why
    BY <1>0, <1>5 DEF LinkDrops, Clients
  <2>2. c'.rx = c.rx /\ c'.frame = c.frame
    BY <1>0, <1>5 DEF LinkDrops, Clients
  <2> QED
    BY <2>1, <2>2 DEF Carried, Carries
<1>6. CASE TimePasses \/ UNCHANGED vars
  <2>1. c' = c
    BY <1>6 DEF TimePasses, vars
  <2> QED
    BY <2>1 DEF Carried
<1> QED
  BY <1>1, <1>2, <1>3, <1>4, <1>5, <1>6

LEMMA DiagnosisHandshake ==
  ASSUME Inv, Carries(c),
         LoopStarts \/ Connect \/ NoData \/ HeaderTimeout \/ HeaderLine
           \/ HeaderEnds \/ ReadFrame
  PROVE  Carried
<1>0. Fine(c) /\ Whole(c) /\ c \in Clients
  BY DEF Inv, Fine, TypeOK
<1>1. CASE LoopStarts
  <2>1. Tells(c, c')
    BY <1>0, <1>1, CheckTells DEF LoopStarts
  <2> QED
    BY <2>1 DEF Tells, Carried
<1>2. CASE Connect
  <2>0. c.ws = "NotConnected"
    BY <1>0, <1>2 DEF Connect, Inv, Whole
  <2>1. CASE c' = ConnectedCb(c)
    <3>1. /\ c'.hint = c.hint /\ c'.why = c.why /\ c'.tcp = "open"
          /\ c'.ws = "Header"
      BY <1>0, <2>1 DEF ConnectedCb, SendHeader, Clients
    <3> QED
      BY <3>1 DEF Carried, Carries
  <2>2. CASE c' = [c EXCEPT !.tcp = "lost", !.live = @ + 1, !.got = {"failed"}]
    <3>1. /\ c'.hint = c.hint /\ c'.why = c.why /\ c'.tcp = "lost"
          /\ c'.ws = c.ws /\ c'.got = {"failed"}
      BY <1>0, <2>2 DEF Clients
    <3> QED
      BY <2>0, <3>1 DEF Carried, Carries
  <2> QED
    BY <1>2, <2>1, <2>2 DEF Connect
<1>3. CASE NoData \/ ReadFrame
  <2>1. c' = c
    BY <1>3 DEF NoData, ReadFrame
  <2> QED
    BY <2>1 DEF Carried
<1>4. CASE HeaderTimeout
  <2> DEFINE y == [c EXCEPT !.got = @ \cup {"late"}]
  <2>1. Whole(y) /\ y.got = c.got \cup {"late"}
    BY <1>0, Record DEF Happenings, Fine
  <2>2. /\ y.why = c.why /\ y.hint = c.hint /\ y.tcp = c.tcp /\ y.ws = c.ws
        /\ y.rx = c.rx /\ y.frame = c.frame
    BY <1>0 DEF Clients
  <2>3. c' = Drop(y, "timeout") /\ "timeout" \in Reasons
    BY <1>4 DEF HeaderTimeout, Reasons, ReasonCode
  <2> HIDE DEF y
  <2>4. Tells(c, y)
    BY <2>1, <2>2, TellsSame
  <2>5. Tells(y, c')
    BY <1>4, <2>1, <2>2, <2>3, <2>4, DropForReason DEF Tells, HeaderTimeout
  <2>6. Tells(c, c')
    BY <2>4, <2>5, TellsOn
  <2> QED
    BY <2>6 DEF Tells, Carried
<1>5. CASE HeaderLine
  <2>1. PICK line \in Facts \cup {"garbled", "rejected", "other"} :
          c' = [c EXCEPT !.hs = Parsed(@, line), !.got = @ \cup (Facts \cap {line})]
    BY <1>5 DEF HeaderLine
  <2>2. /\ c'.tcp = c.tcp /\ c'.ws = c.ws /\ c'.why = c.why /\ c'.hint = c.hint
        /\ c'.got = c.got \cup (Facts \cap {line})
    BY <1>0, <2>1 DEF Clients
  <2>3. c'.rx = c.rx /\ c'.frame = c.frame
    BY <1>0, <2>1 DEF Clients
  <2>4. Tells(c, c')
    BY <2>2, <2>3, TellsSame
  <2> QED
    BY <2>4 DEF Tells, Carried
<1>6. CASE HeaderEnds
  <2>0. c.ws = "Header" /\ c.tcp # "none"
    BY <1>6 DEF HeaderEnds, ReadsLine, Inv
  <2>1. CASE Accepted \subseteq c.hs /\ c' \in OnConnected(HeaderDone(c))
    <3> DEFINE y == HeaderDone(c)
    <3>1. /\ Fine(y) /\ y.tcp = c.tcp /\ y.ws = "Connected" /\ y.got = c.got
          /\ y.status = c.status /\ y.rx = 0
      BY <1>0, <2>0, <2>1, HeaderDoneFine
    <3>2. y.why = c.why /\ y.hint = c.hint
      BY <1>0 DEF HeaderDone, Clients
    <3>3. c.status # "Idle"
      BY <2>0 DEF Inv
    <3> HIDE DEF y
    <3>4. Tells(c, y)
      BY <2>0, <3>1, <3>2 DEF Tells, Carries
    <3>5. Tells(y, c')
      BY <2>1, <3>1, <3>3, <3>4, OnConnectedTells DEF Tells, y
    <3>6. Tells(c, c')
      BY <3>4, <3>5, TellsOn
    <3> QED
      BY <3>6 DEF Tells, Carried
  <2>2. ASSUME NEW y, Whole(y), Tells(c, y), NEW r \in Reasons \ {"none"},
               c' = Drop(y, r),
               y.tcp = "none" \/
                 (r \in {"failed", "http"} /\ y.ws = "Header"
                  /\ (r = "http" => Facts \cap y.got # {}))
        PROVE  Carried
    <3>0. r # "none"
      BY <2>2
    <3>1. Tells(y, c')
      BY <2>2, <3>0, DropForReason DEF Tells
    <3>2. Tells(c, c')
      BY <2>2, <3>1, TellsOn
    <3> QED
      BY <3>2 DEF Tells, Carried
  <2>3. c.hs \subseteq c.got \cup {"websocket"}
    BY <1>0 DEF Whole
  <2>4. {"failed", "http", "lost"} \subseteq Reasons
    BY DEF Reasons, ReasonCode
  <2>5. Tells(c, c)
    BY TellsSame
  <2>6. CASE "upgrade" \in c.hs /\ c' = Drop(Drop(c, "http"), "http")
    <3>1. Facts \cap c.got # {}
      BY <2>3, <2>6 DEF Facts
    <3>2. Tells(c, Drop(c, "http")) /\ Whole(Drop(c, "http"))
          /\ Drop(c, "http").tcp = "none"
      BY <1>0, <2>0, <2>4, <3>1, DropForReason, DropWhole
    <3> QED
      BY <2>2, <2>4, <2>6, <3>2
  <2>7. CASE c' = Drop(Check(c), IF c.hs \cap {"101", "refused"} = {}
                                   THEN "failed" ELSE "http")
    <3> DEFINE r == IF c.hs \cap {"101", "refused"} = {} THEN "failed" ELSE "http"
    <3>1. r \in {"failed", "http"} /\ (r = "http" => Facts \cap c.got # {})
      BY <2>3 DEF Facts
    <3>2. Tells(c, Check(c)) /\ Whole(Check(c))
      BY <1>0, CheckTells, CheckFacts
    <3>3. Facts \cap c.got # {} => Facts \cap Check(c).got # {}
      BY <3>2 DEF Tells
    <3>4. c' = Drop(Check(c), r)
      BY <2>7
    <3>5. Check(c).tcp = "none" \/ Check(c).ws = "Header"
      BY <1>0, <2>0, CheckFacts
    <3> HIDE DEF r
    <3> QED
      BY <2>2, <2>4, <3>1, <3>2, <3>3, <3>4, <3>5
  <2> QED
    BY <1>6, <2>1, <2>6, <2>7 DEF HeaderEnds
<1> QED
  BY <1>1, <1>2, <1>3, <1>4, <1>5, <1>6

LEMMA DiagnosisFrame ==
  ASSUME Inv, Carries(c),
         HeaderBytes \/ HeaderBytesMissing \/ FrameAbandoned
           \/ FrameTooLarge \/ PayloadMissing \/ FrameArrives
  PROVE  Carried
<1>0. /\ Fine(c) /\ Whole(c) /\ c \in Clients
      /\ c.tcp # "none" /\ c.ws = "Connected"
  BY DEF Inv, Fine, TypeOK, HeaderBytes, HeaderBytesMissing, FrameAbandoned,
         FrameTooLarge, PayloadMissing, FrameArrives, FrameStep
<1> DEFINE t == Torn(c)
<1>1. Fine(t) /\ t.tcp = c.tcp /\ t.ws = c.ws /\ t.got = c.got \cup {"torn"}
  BY <1>0, Record DEF Torn, Happenings
<1>2. t.why = c.why /\ t.hint = c.hint /\ t.rx = c.rx /\ t.frame = c.frame
  BY <1>0 DEF Torn, Clients
<1> HIDE DEF t
<1>3. Tells(c, t)
  BY <1>1, <1>2, TellsSame
<1>4. ASSUME NEW x, Whole(x), Tells(c, x), x.tcp # "none", x.ws = "Connected",
             c' = DropHinted(x)
      PROVE  Carried
  <2>1. Tells(x, c')
    BY <1>4, DropHintedTells DEF Tells
  <2>2. Tells(c, c')
    BY <1>4, <2>1, TellsOn
  <2> QED
    BY <2>2 DEF Tells, Carried
<1>5. CASE HeaderBytes
  <2>1. CASE \E f \in Frames :
          c' = [c EXCEPT !.rx = 2, !.frame = f,
                         !.got = @ \cup (IF f.op = "close" THEN {"close"} ELSE {})
                                   \cup (IF f.size = "over" THEN {"over"} ELSE {})]
    <3>1. PICK f \in Frames :
          c' = [c EXCEPT !.rx = 2, !.frame = f,
                         !.got = @ \cup (IF f.op = "close" THEN {"close"} ELSE {})
                                   \cup (IF f.size = "over" THEN {"over"} ELSE {})]
      BY <2>1
    <3>2. /\ c'.tcp = c.tcp /\ c'.ws = c.ws /\ c'.hint = c.hint
          /\ c'.why = c.why /\ c'.frame = f
      BY <1>0, <3>1 DEF Clients
    <3>3. c'.got = c.got \cup (IF f.op = "close" THEN {"close"} ELSE {})
                         \cup (IF f.size = "over" THEN {"over"} ELSE {})
      BY <1>0, <3>1 DEF Clients
    <3> QED
      BY <3>2, <3>3 DEF Carried, Carries
  <2>2. CASE c.rx > 0 /\ \E n \in {LengthEnd(c.frame), HeaderEnd(c.frame)} :
                            c' = [c EXCEPT !.rx = n]
    <3>1. /\ c'.tcp = c.tcp /\ c'.ws = c.ws /\ c'.hint = c.hint
          /\ c'.why = c.why /\ c'.frame = c.frame /\ c'.got = c.got
      BY <1>0, <2>2 DEF Clients
    <3>2. c.rx # 0
      BY <1>0, <2>2 DEF Clients
    <3> QED
      BY <3>1, <3>2 DEF Carried, Carries
  <2>3. c.frame.ext \in {0, 2, 8} /\ c.rx \in 0 .. 14
    BY <1>0 DEF Clients, AllFrames
  <2>4. c.rx >= LengthEnd(c.frame) => c.rx > 0
    BY <2>3 DEF LengthEnd
  <2> QED
    BY <1>5, <2>1, <2>2, <2>4 DEF HeaderBytes
<1>6. CASE HeaderBytesMissing
  <2> DEFINE x == [t EXCEPT !.rx = 0]
  <2>1. c' = DropHinted(x)
    BY <1>6 DEF HeaderBytesMissing, t
  <2>2. x \in Clients
    BY <1>1 DEF Fine, Whole, Clients
  <2>3. /\ x.tcp = t.tcp /\ x.ws = t.ws /\ x.hs = t.hs /\ x.live = t.live
        /\ x.got = t.got
    BY <1>1 DEF Fine, Whole, Clients
  <2>4. x.rx = 0 /\ x.why = t.why /\ x.hint = t.hint
    BY <1>1 DEF Fine, Whole, Clients
  <2> HIDE DEF x
  <2>5. Whole(x)
    BY <1>1, <2>2, <2>3 DEF Fine, Whole
  <2>6. Tells(c, x)
    BY <1>3, <2>3, <2>4 DEF Tells, Carries
  <2> QED
    BY <1>0, <1>1, <1>4, <2>1, <2>3, <2>5, <2>6
<1>7. CASE FrameAbandoned
  <2>1. c' = t
    BY <1>7 DEF FrameAbandoned, t
  <2> QED
    BY <1>3, <2>1 DEF Tells, Carried
<1>8. CASE FrameTooLarge \/ PayloadMissing
  <2>1. c' = DropHinted(t)
    BY <1>8 DEF FrameTooLarge, PayloadMissing, t
  <2> QED
    BY <1>0, <1>1, <1>3, <1>4, <2>1 DEF Fine
<1>9. CASE FrameArrives
  <2>1. PICK d \in Dispatched(c) : c' = [d EXCEPT !.rx = 0]
    BY <1>9 DEF FrameArrives
  <2>2. Tells(c, d)
    BY <1>0, <2>1, DispatchedTells
  <2>3. d \in Clients
    <3>1. c.status # "Idle"
      BY <1>9 DEF Inv, FrameArrives, FrameStep
    <3> QED
      BY <1>0, <2>1, <3>1, DispatchedFacts DEF Fine, Whole
  <2>4. /\ c'.tcp = d.tcp /\ c'.ws = d.ws /\ c'.hint = d.hint
        /\ c'.why = d.why /\ c'.got = d.got /\ c'.rx = 0
    BY <2>1, <2>3 DEF Clients
  <2> QED
    BY <2>2, <2>4 DEF Tells, Carried, Carries
<1> QED
  BY <1>5, <1>6, <1>7, <1>8, <1>9

\* Whatever reason the transport gives for the end of a connection happened on
\* that connection: the hints and header lines of earlier ones are gone.
THEOREM DiagnosisTruthful == Spec => Diagnosis
<1>1. Init => Carries(c)
  BY DEF Init, Carries
<1>2. Inv /\ Carries(c) /\ [Next]_vars => Carried
  BY DiagnosisOutside, DiagnosisHandshake, DiagnosisFrame DEF Next, Loop
<1>3. Inv /\ Carries(c) /\ [Next]_vars => Carries(c)'
  BY <1>2 DEF Carried
<1>4. Inv /\ Carries(c) /\ [Next]_vars =>
        [c'.why # c.why => Truthful(c'.why, c, c'.got)]_vars
  BY <1>2 DEF Carried
<1> QED
  BY <1>1, <1>3, <1>4, Inductive, PTL DEF Spec, Diagnosis

-----------------------------------------------------------------------------
(* The transport and its client implement RealtimeLink.                    *)

LinkStep == [Link!Next]_<<c.status, Seen>>

After(s) == IF s \in {"ProviderError", "ProtocolError"} THEN s ELSE "Disconnected"

LEMMA LinkStays ==
  ASSUME c'.tcp = c.tcp, c'.ws = c.ws, c'.status = c.status
  PROVE  LinkStep
BY DEF LinkStep, Seen

LEMMA LinkEnds ==
  ASSUME c.tcp # "none", c'.tcp = "none", c'.status = After(c.status)
  PROVE  LinkStep
<1>1. Seen' = "closed" /\ Seen # "closed"
  BY DEF Seen
<1>2. Seen \in {"opening", "up", "lost"}
  BY DEF Seen
<1> QED
  BY <1>1, <1>2 DEF LinkStep, Link!Next, Link!Ends, Link!FindsLoss,
     Link!AfterLoss, After

LEMMA LinkLoses ==
  ASSUME c.tcp = "open", c'.tcp = "lost", c'.status = c.status
  PROVE  LinkStep
<1>1. Seen' = "lost" /\ Seen \in {"opening", "up"}
  BY DEF Seen
<1> QED
  BY <1>1 DEF LinkStep, Link!Next, Link!Loses

\* However the client drops the connection, it is the end of the link.
LEMMA LinkDropped ==
  ASSUME NEW x, Fine(x), x.status = c.status, x.status # "Idle",
         x.tcp = c.tcp, c.tcp # "none",
         c' = DropHinted(x) \/ \E r \in Reasons : c' = Drop(x, r)
  PROVE  LinkStep
<1>1. Whole(x) /\ ~x.closing
  BY DEF Fine, Sound
<1>2. c'.tcp = "none" /\ c'.status = After(c.status)
  <2>1. CASE c' = DropHinted(x)
    BY <1>1, <2>1, DropHintedWhole DEF After
  <2>2. ASSUME NEW r \in Reasons, c' = Drop(x, r)
        PROVE  c'.tcp = "none" /\ c'.status = After(c.status)
    BY <1>1, <2>2, DropWhole DEF After
  <2> QED
    BY <2>1, <2>2
<1> QED
  BY <1>2, LinkEnds

\* A status of failure survives the end of the connection.
LEMMA DisconnectStatus ==
  ASSUME NEW x, Whole(x), x.status \in {"Disconnected", "ProtocolError"}
  PROVE  Disconnect(x).tcp = "none" /\ Disconnect(x).status = x.status
<1>1. /\ DropHinted(x).tcp = "none" /\ DropHinted(x).status = x.status
  BY DropHintedWhole
<1>2. \A r \in Reasons : Drop(x, r).tcp = "none" /\ Drop(x, r).status = x.status
  BY DropWhole
<1>3. "lost" \in Reasons /\ "cleanup" \in Reasons
  BY DEF Reasons, ReasonCode
<1>4. CASE IsConnected(x)
  <2>1. Check(x) = x
    BY <1>4 DEF Check, IsConnected
  <2> QED
    BY <1>1, <1>4, <2>1 DEF Disconnect
<1>5. CASE ~IsConnected(x) /\ x.tcp = "none"
  <2>1. Check(x) = x
    BY <1>5 DEF Check
  <2> QED
    BY <1>5, <2>1 DEF Disconnect
<1>6. CASE ~IsConnected(x) /\ x.tcp # "none"
  <2>1. PICK r \in Reasons : Check(x) = Drop(x, r)
    BY <1>3, <1>6 DEF Check
  <2>2. ~IsConnected(Drop(x, r))
    BY <1>2 DEF IsConnected
  <2> QED
    BY <1>2, <2>1, <2>2 DEF Disconnect
<1> QED
  BY <1>4, <1>5, <1>6

LEMMA GivenUp ==
  ASSUME NEW x, Fine(x)
  PROVE  GiveUp(x).tcp = "none" /\ GiveUp(x).status = "Disconnected"
<1> DEFINE y == [x EXCEPT !.status = "Disconnected"]
<1>1. Whole(y) /\ y.status = "Disconnected"
  BY SetStatus DEF Fine, Statuses
<1> HIDE DEF y
<1>2. Disconnect(y).tcp = "none" /\ Disconnect(y).status = "Disconnected"
  BY <1>1, DisconnectStatus
<1> QED
  BY <1>2 DEF GiveUp, y

\* queueEvent() leaves the connection alone, or ends it as a protocol error.
LEMMA Queued ==
  ASSUME NEW x, Whole(x), NEW d \in QueueEvent(x)
  PROVE  d = x \/ (d.tcp = "none" /\ d.status = "ProtocolError")
<1> DEFINE y == [x EXCEPT !.status = "ProtocolError"]
<1>1. Whole(y) /\ y.status = "ProtocolError"
  BY SetStatus DEF Statuses
<1> HIDE DEF y
<1>2. Disconnect(y).tcp = "none" /\ Disconnect(y).status = "ProtocolError"
  BY <1>1, DisconnectStatus
<1>3. d = x \/ d = Disconnect(y)
  BY DEF QueueEvent, y
<1> QED
  BY <1>2, <1>3

\* What writing a frame does, as far as the link shows it.
LEMMA FrameSent ==
  ASSUME NEW x, Fine(x), NEW s \in SendFrame(x)
  PROVE  s.c = x \/ (x.tcp = "open" /\ s.c.tcp = "lost" /\ s.c.status = x.status)
<1> DEFINE y == [x EXCEPT !.tcp = "lost", !.got = @ \cup {"cut"}]
<1>1. y.tcp = "lost" /\ y.status = x.status
  BY DEF Fine, Whole, Clients
<1> HIDE DEF y
<1>2. s.c = x \/ (x.tcp = "open" /\ s.c = y)
  BY DEF SendFrame, Write, y
<1> QED
  BY <1>1, <1>2

LEMMA LinkConnects == Inv /\ Connect => LinkStep
<1> SUFFICES ASSUME Inv, Connect PROVE LinkStep
  OBVIOUS
<1>1. c.tcp = "none" /\ c.status # "Idle" /\ c \in Clients
  BY DEF Inv, Connect, TypeOK
<1>2. /\ c'.status = c.status
      /\ c'.tcp = "lost" \/ (c'.tcp = "open" /\ c'.ws = "Header")
  <2>1. CASE c' = ConnectedCb(c)
    BY <1>1, <2>1 DEF ConnectedCb, SendHeader, Clients
  <2>2. CASE c' = [c EXCEPT !.tcp = "lost", !.live = @ + 1, !.got = {"failed"}]
    BY <1>1, <2>2 DEF Clients
  <2> QED
    BY <2>1, <2>2 DEF Connect
<1>3. Seen = "closed" /\ Seen' \in {"opening", "lost"}
  BY <1>1, <1>2 DEF Seen
<1> QED
  BY <1>1, <1>2, <1>3 DEF LinkStep, Link!Next, Link!Connects

\* The calls of the main loop.
LEMMA LinkOutside ==
  ASSUME Inv, CloseTransport \/ Begin \/ BeginRefused \/ SendInput
              \/ LinkDrops \/ TimePasses \/ UNCHANGED vars
  PROVE  LinkStep
<1>0. Fine(c) /\ Whole(c) /\ c \in Clients
  BY DEF Inv, Fine, TypeOK
<1>1. ASSUME c'.tcp = "none", c'.status \in {"Idle", "Connecting"}
      PROVE  LinkStep
  <2>1. Seen' = "closed"
    BY <1>1 DEF Seen
  <2> QED
    BY <1>1, <2>1 DEF LinkStep, Link!Next, Link!Begin, Link!Close
<1>2. CASE CloseTransport
  BY <1>0, <1>1, <1>2, CloseFacts DEF CloseTransport
<1>3. CASE Begin
  <2>1. PICK d \in Close(c) : c' = Begun(d)
    BY <1>3 DEF Begin
  <2>2. d \in Clients
    BY <1>0, <2>1, CloseFacts DEF Fine, Whole
  <2>3. c'.tcp = "none" /\ c'.status = "Connecting"
    BY <2>1, <2>2 DEF Begun, Clients
  <2> QED
    BY <1>1, <2>3
<1>4. CASE BeginRefused
  <2> DEFINE y == [c EXCEPT !.status = "ProtocolError"]
  <2>1. y.status # "Ready" /\ Whole(y)
    BY <1>0, SetStatus DEF Statuses
  <2>2. c' = [Disconnect([y EXCEPT !.closing = TRUE]) EXCEPT !.status = "Idle"]
    BY <1>4, <2>1 DEF BeginRefused, Close
  <2> HIDE DEF y
  <2>3. c'.tcp = "none" /\ c'.status = "Idle"
    BY <2>1, <2>2, ClosedFacts
  <2> QED
    BY <1>1, <2>3
<1>5. CASE SendInput
  <2>1. PICK s \in SendText(c) : c' = s.c
    BY <1>5 DEF SendInput
  <2>2. c.status = "Ready" /\ c.ws = "Connected"
    BY <1>0, <1>5 DEF SendInput, Fine, Sound
  <2>3. CASE c.tcp = "open"
    <3>1. Check(c) = c /\ IsConnected(c)
      BY <2>2, <2>3 DEF Check, IsConnected
    <3>2. s \in SendFrame(c)
      BY <2>1, <3>1 DEF SendText
    <3>3. \/ c' = c
          \/ c'.tcp = "lost" /\ c'.status = c.status
      BY <1>0, <2>1, <3>2, FrameSent
    <3> QED
      BY <2>3, <3>3, LinkStays, LinkLoses
  <2>4. CASE c.tcp # "open"
    <3>1. c.tcp = "lost" /\ "lost" \in Reasons
      BY <1>0, <2>2, <2>4 DEF Whole, Clients, Reasons, ReasonCode
    <3>2. Check(c) = Drop(c, "lost") /\ ~IsConnected(c)
      BY <2>2, <3>1 DEF Check, IsConnected
    <3>3. ~IsConnected(Drop(c, "lost"))
      BY <1>0, <3>1, DropWhole DEF IsConnected
    <3>4. c' = Drop(c, "lost")
      BY <2>1, <3>2, <3>3 DEF SendText
    <3> QED
      BY <1>0, <2>2, <3>1, <3>4, LinkDropped
  <2> QED
    BY <2>3, <2>4
<1>6. CASE LinkDrops
  <2>1. c.tcp = "open" /\ c'.tcp = "lost" /\ c'.status = c.status
    BY <1>0, <1>6 DEF LinkDrops, Clients
  <2> QED
    BY <2>1, LinkLoses
<1>7. CASE TimePasses \/ UNCHANGED vars
  BY <1>7, LinkStays DEF TimePasses, vars
<1> QED
  BY <1>2, <1>3, <1>4, <1>5, <1>6, <1>7

\* What is found on a call of loop(), and the lines of the response.
LEMMA LinkHandshake ==
  ASSUME Inv, LoopStarts \/ NoData \/ HeaderTimeout \/ HeaderLine
              \/ HeaderEnds \/ ReadFrame
  PROVE  LinkStep
<1>0. /\ Fine(c) /\ Whole(c) /\ c \in Clients
      /\ pc # "out" => c.status # "Idle"
  BY DEF Inv, Fine, TypeOK
<1>1. CASE LoopStarts
  <2>0. c' = Check(c) /\ c.status # "Idle"
    BY <1>1 DEF LoopStarts
  <2>1. CASE c.tcp = "none" \/ IsConnected(c)
    <3>1. c' = c
      BY <2>0, <2>1 DEF Check, IsConnected
    <3> QED
      BY <3>1, LinkStays
  <2>2. CASE ~(c.tcp = "none" \/ IsConnected(c))
    <3>1. PICK r \in Reasons : c' = Drop(c, r)
      BY <2>0, <2>2 DEF Check, Reasons, ReasonCode
    <3> QED
      BY <1>0, <2>0, <2>2, <3>1, LinkDropped
  <2> QED
    BY <2>1, <2>2
<1>2. CASE NoData \/ ReadFrame
  BY <1>2, LinkStays DEF NoData, ReadFrame
<1>3. CASE HeaderTimeout
  <2> DEFINE y == [c EXCEPT !.got = @ \cup {"late"}]
  <2>1. Fine(y) /\ y.status = c.status /\ y.tcp = c.tcp
    BY <1>0, Record DEF Happenings
  <2>2. c' = Drop(y, "timeout") /\ "timeout" \in Reasons
    BY <1>3 DEF HeaderTimeout, Reasons, ReasonCode
  <2>3. c.tcp # "none" /\ c.status # "Idle"
    BY <1>0, <1>3 DEF Inv, HeaderTimeout
  <2> HIDE DEF y
  <2> QED
    BY <2>1, <2>2, <2>3, LinkDropped
<1>4. CASE HeaderLine
  <2>1. PICK line \in Facts \cup {"garbled", "rejected", "other"} :
          c' = [c EXCEPT !.hs = Parsed(@, line), !.got = @ \cup (Facts \cap {line})]
    BY <1>4 DEF HeaderLine
  <2>2. c'.tcp = c.tcp /\ c'.ws = c.ws /\ c'.status = c.status
    BY <1>0, <2>1 DEF Clients
  <2> QED
    BY <2>2, LinkStays
<1>5. CASE HeaderEnds
  <2>0. c.ws = "Header" /\ c.tcp \in {"open", "lost"} /\ c.status # "Idle"
    BY <1>0, <1>5 DEF HeaderEnds, ReadsLine, Inv, Clients
  <2>1. CASE Accepted \subseteq c.hs /\ c' \in OnConnected(HeaderDone(c))
    <3> DEFINE x == HeaderDone(c)
               y == [x EXCEPT !.status = "AwaitingSession"]
    <3>1. /\ Fine(x) /\ x.tcp = c.tcp /\ x.ws = "Connected"
          /\ x.closing = c.closing /\ x.status = c.status
      BY <1>0, <2>0, <2>1, HeaderDoneFine
    <3> HIDE DEF x
    <3>2. /\ Whole(y) /\ y.status = "AwaitingSession" /\ y.tcp = c.tcp
          /\ y.ws = "Connected" /\ ~y.closing
      BY <1>0, <2>0, <3>1, SetStatus DEF Fine, Sound, Statuses
    <3>3. PICK s \in SendText(y) : c' = IF s.ok THEN s.c ELSE GiveUp(s.c)
      BY <2>1 DEF OnConnected, x
    <3> HIDE DEF y
    <3>4. Fine(y)
      BY <3>2 DEF Fine, Sound
    <3>5. Fine(s.c) /\ (s.ok => s.c = y /\ y.tcp = "open")
      BY <3>4, SendTextFacts
    <3>6. Seen = "opening" \/ Seen = "lost"
      BY <2>0 DEF Seen
    <3>7. CASE s.ok
      <4>1. c' = y /\ c.tcp = "open"
        BY <3>2, <3>3, <3>5, <3>7
      <4>2. Seen = "opening" /\ Seen' = "up" /\ c'.status = "AwaitingSession"
        BY <2>0, <3>2, <4>1 DEF Seen
      <4> QED
        BY <4>2 DEF LinkStep, Link!Next, Link!Opens
    <3>8. CASE ~s.ok
      <4>1. c'.tcp = "none" /\ c'.status = "Disconnected"
        BY <3>3, <3>5, <3>8, GivenUp
      <4>2. Seen' = "closed"
        BY <4>1 DEF Seen
      <4> QED
        BY <3>6, <4>1, <4>2 DEF LinkStep, Link!Next, Link!OpensInVain
    <3> QED
      BY <3>7, <3>8
  <2>2. ASSUME NEW r \in Reasons, NEW q \in Reasons, c' = Drop(Drop(c, r), q)
        PROVE  LinkStep
    <3>1. /\ Whole(Drop(c, r)) /\ Drop(c, r).tcp = "none"
          /\ Drop(c, r).status = After(c.status)
      BY <1>0, <2>0, DropWhole DEF After, Fine, Sound
    <3>2. c'.tcp = "none" /\ c'.status = After(c.status)
      BY <2>2, <3>1, DropWhole
    <3> QED
      BY <2>0, <3>2, LinkEnds
  <2>3. CASE \E q \in {"failed", "http"} : c' = Drop(Check(c), q)
    <3>1. PICK q \in Reasons : c' = Drop(Check(c), q)
      BY <2>3 DEF Reasons, ReasonCode
    <3>2. CASE IsConnected(c)
      <4>1. Check(c) = c
        BY <3>2 DEF Check, IsConnected
      <4> QED
        BY <1>0, <2>0, <3>1, <4>1, LinkDropped
    <3>3. CASE ~IsConnected(c)
      <4>1. PICK r \in Reasons : Check(c) = Drop(c, r)
        BY <2>0, <3>3 DEF Check, Reasons, ReasonCode
      <4> QED
        BY <2>2, <3>1, <4>1
    <3> QED
      BY <3>2, <3>3
  <2>4. "http" \in Reasons
    BY DEF Reasons, ReasonCode
  <2> QED
    BY <1>5, <2>1, <2>2, <2>3, <2>4 DEF HeaderEnds
<1> QED
  BY <1>1, <1>2, <1>3, <1>4, <1>5

\* A message of the server, over a connection that is there.
LEMMA LinkReceives ==
  ASSUME Fine(c), c.status # "Idle", c.tcp = "open", c.ws = "Connected",
         NEW d \in OnText(c),
         c'.tcp = d.tcp, c'.ws = d.ws, c'.status = d.status
  PROVE  LinkStep
<1>0. Whole(c) /\ c \in Clients /\ Seen = "up"
  BY DEF Fine, Whole, Seen
<1>1. CASE \E s \in SendText(c) : d = GiveUp(s.c)
  <2>1. PICK s \in SendText(c) : d = GiveUp(s.c)
    BY <1>1
  <2>2. Fine(s.c)
    BY SendTextFacts
  <2>3. c'.tcp = "none" /\ c'.status = "Disconnected"
    BY <2>1, <2>2, GivenUp
  <2>4. Seen' = "closed"
    BY <2>3 DEF Seen
  <2> QED
    BY <1>0, <2>3, <2>4 DEF LinkStep, Link!Next, Link!ReceivesInVain
<1>2. ASSUME NEW y, Whole(y), y.tcp = "open", y.ws = "Connected",
             y.status \in {"Ready", "ProviderError", "ProtocolError", c.status},
             d \in QueueEvent(y)
      PROVE  LinkStep
  <2>1. d = y \/ (d.tcp = "none" /\ d.status = "ProtocolError")
    BY <1>2, Queued
  <2>2. CASE d = y
    <3>1. Seen' = "up" /\ c'.status = y.status
      BY <1>2, <2>2 DEF Seen
    <3> QED
      BY <1>0, <1>2, <3>1 DEF LinkStep, Link!Next, Link!Receives
  <2>3. CASE d.tcp = "none" /\ d.status = "ProtocolError"
    <3>1. Seen' = "closed" /\ c'.status = "ProtocolError"
      BY <2>3 DEF Seen
    <3> QED
      BY <1>0, <3>1 DEF LinkStep, Link!Next, Link!Overflows
  <2> QED
    BY <2>1, <2>2, <2>3
<1>3. CASE d \in QueueEvent([c EXCEPT !.status = "Ready", !.got = @ \cup {"created"}])
  <2> DEFINE y == [c EXCEPT !.status = "Ready", !.got = @ \cup {"created"}]
  <2>1. y \in Clients
    BY <1>0 DEF Clients, Statuses, Happenings
  <2>2. /\ y.status = "Ready" /\ y.tcp = c.tcp /\ y.ws = c.ws
        /\ y.live = c.live /\ y.hs = c.hs /\ y.got = c.got \cup {"created"}
    BY <1>0 DEF Clients
  <2>3. d \in QueueEvent(y)
    BY <1>3
  <2> HIDE DEF y
  <2>4. Whole(y)
    BY <1>0, <2>1, <2>2 DEF Whole
  <2> QED
    BY <1>2, <2>2, <2>3, <2>4
<1>4. ASSUME NEW st \in {"ProviderError", "ProtocolError", c.status},
             d \in QueueEvent([c EXCEPT !.status = st])
      PROVE  LinkStep
  <2> DEFINE y == [c EXCEPT !.status = st]
  <2>1. st \in Statuses
    BY <1>0 DEF Clients, Statuses
  <2>2. Whole(y) /\ y.status = st /\ y.tcp = c.tcp /\ y.ws = c.ws
    BY <1>0, <2>1, SetStatus
  <2>3. d \in QueueEvent(y)
    BY <1>4
  <2> HIDE DEF y
  <2> QED
    BY <1>2, <2>2, <2>3
<1>5. \A s \in SendText(c) : s.ok => s.c = c
  BY SendTextFacts
<1> QED
  BY <1>1, <1>3, <1>4, <1>5 DEF OnText, OnSessionCreated

LEMMA LinkFrame ==
  ASSUME Inv, HeaderBytes \/ HeaderBytesMissing \/ FrameAbandoned
              \/ FrameTooLarge \/ PayloadMissing \/ FrameArrives
  PROVE  LinkStep
<1>0. /\ Fine(c) /\ Whole(c) /\ c \in Clients /\ c.status # "Idle"
      /\ c.tcp # "none" /\ c.ws = "Connected"
  BY DEF Inv, Fine, TypeOK, HeaderBytes, HeaderBytesMissing, FrameAbandoned,
         FrameTooLarge, PayloadMissing, FrameArrives, FrameStep
<1> DEFINE t == Torn(c)
<1>1. Fine(t) /\ t.status = c.status /\ t.tcp = c.tcp /\ t.ws = c.ws
  BY <1>0, Record DEF Torn, Happenings
<1>2. CASE HeaderBytes
  <2>1. c'.tcp = c.tcp /\ c'.ws = c.ws /\ c'.status = c.status
    BY <1>0, <1>2 DEF HeaderBytes, Clients
  <2> QED
    BY <2>1, LinkStays
<1>3. CASE HeaderBytesMissing
  <2> DEFINE x == [t EXCEPT !.rx = 0]
  <2>1. c' = DropHinted(x)
    BY <1>3 DEF HeaderBytesMissing
  <2> HIDE DEF t
  <2>2. Fine(x) /\ x.status = t.status /\ x.tcp = t.tcp
    <3>1. 0 \in 0 .. 14
      OBVIOUS
    <3> HIDE DEF x
    <3>2. \A n \in 0 .. 14 : LET y == [t EXCEPT !.rx = n]
                             IN  Fine(y) /\ y.status = t.status /\ y.tcp = t.tcp
      BY <1>1, SetRx
    <3> QED
      BY <3>1, <3>2 DEF x
  <2> HIDE DEF x
  <2> QED
    BY <1>0, <1>1, <2>1, <2>2, LinkDropped
<1>4. CASE FrameAbandoned
  BY <1>1, <1>4, LinkStays DEF FrameAbandoned
<1>5. CASE FrameTooLarge \/ PayloadMissing
  <2>1. c' = DropHinted(t)
    BY <1>5 DEF FrameTooLarge, PayloadMissing
  <2> HIDE DEF t
  <2> QED
    BY <1>0, <1>1, <2>1, LinkDropped
<1>6. CASE FrameArrives
  <2>1. PICK d \in Dispatched(c) : c' = [d EXCEPT !.rx = 0]
    BY <1>6 DEF FrameArrives
  <2>2. d \in Clients
    BY <1>0, <2>1, DispatchedFacts DEF Fine, Whole
  <2>3. c'.tcp = d.tcp /\ c'.ws = d.ws /\ c'.status = d.status
    BY <2>1, <2>2 DEF Clients
  <2>4. CASE d = c
    BY <2>3, <2>4, LinkStays
  <2>5. CASE d \in OnText(c) /\ c.frame.size # "none"
    <3>1. c.tcp = "open"
      BY <1>6, <2>5 DEF FrameArrives, BytesArrive
    <3> QED
      BY <1>0, <2>3, <2>5, <3>1, LinkReceives
  <2>6. CASE \E s \in SendFrame(c) : d = s.c
    <3>1. d = c \/ (c.tcp = "open" /\ d.tcp = "lost" /\ d.status = c.status)
      BY <1>0, <2>6, FrameSent
    <3> QED
      BY <2>3, <2>4, <3>1, LinkLoses
  <2>7. CASE d = DropHinted(c)
    <3>1. d.tcp = "none" /\ d.status = After(c.status)
      BY <1>0, <2>7, DropHintedWhole DEF After, Fine, Sound
    <3> QED
      BY <1>0, <2>3, <3>1, LinkEnds
  <2> QED
    BY <2>1, <2>4, <2>5, <2>6, <2>7 DEF Dispatched
<1> QED
  BY <1>2, <1>3, <1>4, <1>5, <1>6

\* The transport over its client (realtime_voice_transport.h) implements the
\* link the main loop relies on: whichever callback a connection breaks in,
\* status and connection change together as RealtimeLink says.
THEOREM ClientImplementsLink == Spec => ImplementsLink
<1>1. Init => Link!Init
  BY DEF Init, Link!Init, Seen
<1>2. Inv /\ [Next]_vars => [Link!Next]_<<c.status, Seen>>
  BY LinkOutside, LinkConnects, LinkHandshake, LinkFrame
  DEF Next, Loop, LinkStep
<1> QED
  BY <1>1, <1>2, Inductive, PTL DEF Spec, ImplementsLink, Link!Spec
=============================================================================
