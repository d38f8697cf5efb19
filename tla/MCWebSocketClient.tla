------------------------- MODULE MCWebSocketClient -------------------------
(* WebSocketClient with a server that sends one frame of each kind that the *)
(* client treats differently, and the lengths and masks that decide how     *)
(* many reads a header takes.                                               *)
EXTENDS WebSocketClient

Frame(op, ext, mask, size) ==
  [op |-> op, ext |-> ext, mask |-> mask, size |-> size]

MCFrames ==
  {Frame("text", 0, FALSE, "some"), Frame("text", 0, FALSE, "none"),
   Frame("text", 8, TRUE, "over"), Frame("ignored", 2, TRUE, "some"),
   Frame("ping", 0, FALSE, "none"), Frame("close", 0, FALSE, "some"),
   Frame("unknown", 0, TRUE, "none")}
=============================================================================
