-------------------------- MODULE RealtimeMessages --------------------------
(***************************************************************************)
(* The JSON messages of the session: how the device writes its own and     *)
(* what it takes from the server's (json_string.h and                      *)
(* realtime_voice_protocol.h).  The server's are not parsed: a member is   *)
(* found by looking for its quoted name anywhere in the text.              *)
(*                                                                         *)
(* JSON is a sequence of characters.  The name of a member or an event, or *)
(* a word, counts as one character, for it matters whole or not at all.    *)
(* What may be missing is a set with one element or none.                  *)
(***************************************************************************)
EXTENDS Naturals, Sequences, SequencesExt

\* What appendUtf8() makes of four hexadecimal digits; not of the halves of a
\* surrogate pair, which it refuses.
CONSTANT Unicode

Quote     == "\""
Backslash == "\\"

\* What the letter after a backslash stands for.
Unseen  == [n |-> "\n", t |-> "\t", r |-> "\r", f |-> "\f", b |-> "BS"]
Letters == [l \in DOMAIN Unseen \cup {"/", Quote, Backslash} |->
              IF l \in DOMAIN Unseen THEN Unseen[l] ELSE l]
Lettered == {Letters[l] : l \in DOMAIN Letters \ {"/"}}
Space   == {" ", "\n", "\t", "\r", "\f", "VT"}
Control == {"\n", "\t", "\r", "\f", "BS", "VT"} \* below 0x20

HexDigits == {"0", "1", "2", "3", "4", "5", "6", "7", "8", "9", "a", "b", "c",
              "d", "e", "f", "A", "B", "C", "D", "E", "F"}

\* Every other control character has its digits.
ASSUME UnicodeAssumption ==
  /\ \A digits \in DOMAIN Unicode :
       /\ digits \in [1 .. 4 -> HexDigits]
       /\ ~ /\ digits[1] \in {"d", "D"}
            /\ digits[2] \notin {"0", "1", "2", "3", "4", "5", "6", "7"}
  /\ \A c \in Control \ Lettered : \E digits \in DOMAIN Unicode : Unicode[digits] = c

-----------------------------------------------------------------------------
(* Writing.                                                                *)

LetterOf(c) == CHOOSE l \in DOMAIN Letters : Letters[l] = c
DigitsOf(c) == CHOOSE digits \in DOMAIN Unicode : Unicode[digits] = c

\* Mutant of EscapeChar: a backslash is written as it is.
EscapeQuoteOnly(c) == IF c = Quote THEN <<Backslash, Quote>> ELSE <<c>>

EscapeChar(c) ==
  IF c \in Lettered THEN <<Backslash, LetterOf(c)>>
  ELSE IF c \in Control THEN <<Backslash, "u">> \o DigitsOf(c)
  ELSE <<c>>

EscapeJson(text) == FlattenSeq([i \in DOMAIN text |-> EscapeChar(text[i])])

Named(key)      == <<Quote, key, Quote>>
Quoted(text)    == <<Quote>> \o EscapeJson(text) \o <<Quote>>
Member(key, json) == Named(key) \o <<":">> \o json
Object(members)   == <<"{">> \o members \o <<"}">>
Comma == <<",">>

ControlTypes == {"input_audio_buffer.commit", "input_audio_mute.commit",
                 "input_audio_unmute.commit", "session.close"}

ControlEvent(type, id) ==
  Object(Member("type", Quoted(<<type>>)) \o Comma \o Member("event_id", Quoted(id)))

SessionCreate(session, id) ==
  LET format(type, rate) ==
        Member("format",
               Object(Member("type", Named(type)) \o Comma \o Member("rate", <<rate>>)))
      audio == Object(
        Member("input", Object(format("pcm", "16000"))) \o Comma \o
        Member("output", Object(format("pcm_s16le", "24000") \o Comma \o
                                Member("voice", Quoted(session.voice)))))
  IN  Object(
        Member("type", Named("session.create")) \o Comma \o
        Member("event_id", Quoted(id)) \o Comma \o
        Member("session", Object(
          Member("id", Quoted(session.id)) \o Comma \o
          Member("model", Named("1.2.6.1")) \o Comma \o
          Member("instructions", Quoted(session.instructions)) \o Comma \o
          Member("audio", audio))))

-----------------------------------------------------------------------------
(* Reading.                                                                *)

Escapes ==
  [e \in {<<Backslash, l>> : l \in DOMAIN Letters}
         \cup {<<Backslash, "u">> \o digits : digits \in DOMAIN Unicode} |->
     IF Len(e) = 2 THEN Letters[e[2]] ELSE Unicode[SubSeq(e, 3, 6)]]

IsAt(json, s, i) ==
  i + Len(s) - 1 <= Len(json) /\ SubSeq(json, i, i + Len(s) - 1) = s

First(places) == {i \in places : \A j \in places : i <= j}

\* The character at i of a string, and where the next one is.
CharAt(json, i) ==
  IF json[i] = Backslash
    THEN {<<Escapes[e], i + Len(e)>> : e \in {f \in DOMAIN Escapes : IsAt(json, f, i)}}
    ELSE {<<c, i + 1>> : c \in {json[i]} \ Control}

\* parseJsonString(): the text of the string that opens at `quote', and the
\* place after it.
JsonString(json, quote) ==
  LET rest[i \in 1 .. Len(json) + 1] ==
        IF i > Len(json) THEN {}
        ELSE IF json[i] = Quote THEN {[text |-> <<>>, after |-> i + 1]}
        ELSE UNION {{[r EXCEPT !.text = <<read[1]>> \o @] : r \in rest[read[2]]} :
                      read \in CharAt(json, i)}
  IN  IF IsAt(json, <<Quote>>, quote) THEN rest[quote + 1] ELSE {}

\* Where the value of the first member of that name begins: past the next
\* colon and white space.
ValuePlace(json, key, start) ==
  LET names  == First({i \in start .. Len(json) : IsAt(json, Named(key), i)})
      colons == UNION {First({i \in n + 3 .. Len(json) : json[i] = ":"}) : n \in names}
      Past(c) == First({i \in c + 1 .. Len(json) : json[i] \notin Space})
  IN  UNION {Past(c) : c \in colons}

FindString(json, key, start) ==
  {s.text : s \in UNION {JsonString(json, i) : i \in ValuePlace(json, key, start)}}

DigitValue == [d \in {"0", "1", "2", "3", "4", "5", "6", "7", "8", "9"} |->
                 CHOOSE n \in 0 .. 9 : ToString(n) = d]
NumberOf(digits) == FoldLeft(LAMBDA n, d : n * 10 + DigitValue[d], 0, digits)

\* Up to 2^32 - 1, whose first nine digits are 429496729.
FitsUnsigned(digits) ==
  \/ Len(digits) < 10
  \/ /\ Len(digits) = 10
     /\ LET head == NumberOf(Front(digits))
        IN  \/ head < 429496729
            \/ head = 429496729 /\ DigitValue[Last(digits)] <= 5

\* The digits that std::to_string() writes again.
FindUnsigned(json, key) ==
  LET Run(i) == {j \in i .. Len(json) : \A k \in i .. j : json[k] \in DOMAIN DigitValue}
      Significant(digits) ==
        LET zeros == {n \in 0 .. Len(digits) - 1 : \A i \in 1 .. n : digits[i] = "0"}
        IN  SubSeq(digits, 1 + CHOOSE n \in zeros : \A m \in zeros : m <= n, Len(digits))
      found == {Significant(SubSeq(json, i, i + Cardinality(Run(i)) - 1)) :
                  i \in {k \in ValuePlace(json, key, 1) : Run(k) # {}}}
  IN  {digits \in found : FitsUnsigned(digits)}

EventTypes ==
  {"session.created", "session.closed", "input_audio_buffer.committed",
   "transcription.started", "transcription.delta", "transcription.completed",
   "transcription.failed", "response.output_text.delta",
   "response.output_text.done", "response.output_audio.started",
   "response.output_audio.delta", "response.output_audio.done",
   "response.done", "response.canceled", "error"}

\* Of an object's member, the first that follows the object's name; that of
\* an error is found first as the type of the event.
FindInside(json, object, key) ==
  LET named == First({i \in DOMAIN json : IsAt(json, Named(object), i)})
  IN  UNION {FindString(json, key, i) : i \in IF named = {} THEN {1} ELSE named}

OrElse(found, other) == IF found # {} THEN found ELSE other

Content(json, type) ==
  CASE type = "session.created" -> FindInside(json, "session", "id")
    [] type \in {"transcription.delta", "response.output_text.delta",
                 "response.output_audio.delta"} -> FindString(json, "delta", 1)
    [] type = "transcription.completed" ->
         OrElse(FindString(json, "transcript", 1), FindString(json, "text", 1))
    [] type = "response.output_text.done" -> FindString(json, "text", 1)
    [] type = "error" ->
         OrElse(FindInside(json, "error", "code"),
                OrElse(FindUnsigned(json, "status_code"), {<<"provider_error">>}))
    [] OTHER -> {}

\* Without its content, such an event is an error of the protocol.
Essential == {"session.created", "response.output_audio.delta"}

\* parseRealtimeServerEvent()
ParseEvent(json) ==
  LET types == FindString(json, "type", 1)
      type  == IF \E t \in EventTypes : <<t>> \in types
                 THEN CHOOSE t \in EventTypes : <<t>> \in types ELSE "unknown"
      content == Content(json, type)
  IN  IF types = {} \/ (type \in Essential /\ content = {})
        THEN [type |-> "protocol error", content |-> {}]
        ELSE [type |-> type, content |-> content]
=============================================================================
