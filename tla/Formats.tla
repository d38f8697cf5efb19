------------------------------ MODULE Formats -------------------------------
(***************************************************************************)
(* One thing at a time is put into one of the formats of ConfigWire and    *)
(* AudioCodec, perhaps damaged once on its way, and read again: a device   *)
(* configuration over the serial line, audio in a message of the server,   *)
(* samples from the microphone and to the speaker, the header of a frame;  *)
(* or in one of RealtimeMessages, by the device or by the server.          *)
(***************************************************************************)
EXTENDS ConfigWire, AudioCodec, RealtimeMessages

CONSTANTS
  Configs,      \* configurations, valid or not
  SomeBytes,    \* what a byte may be turned into
  VolumeTexts,  \* what may be written where the volume belongs
  Pcms,         \* sequences of bytes
  SomeSymbols,  \* what a letter of base64 may be taken for
  Words,        \* sequences of words of the microphone
  Volumes,      \* as in a configuration
  Lengths,      \* of the payload of a frame
  Phrases,      \* free texts of messages
  Beyond,       \* of each character beyond the 16-bit ones, the two halves
                \* that JSON escapes it as
  StatusCodes,  \* sequences of digits
  MaxHarmed     \* bound: longer packets are not damaged

ASSUME InputsAssumption ==
  /\ \A c \in Configs : IsConfig(c)
  /\ SomeBytes \subseteq Byte /\ VolumeTexts \subseteq Seq(Byte)
  /\ Pcms \subseteq Seq(Byte) /\ SomeSymbols \subseteq Symbol
  /\ Words \subseteq Seq(Word)
  /\ Volumes \subseteq 0 .. 100
  /\ Lengths \subseteq Nat
  /\ \A n \in Lengths : n \div 65536 < 65536 \* size_t has 32 bits
  /\ MaxHarmed \in Nat /\ MaxHarmed < 65536 \* the length of a field has 16 bits
  /\ Phrases \subseteq Seq(STRING)
  /\ \A c \in DOMAIN Beyond :
       /\ Beyond[c] \in [1 .. 2 -> [1 .. 4 -> HexDigits]]
       /\ Beyond[c][1][1] \in {"d", "D"} /\ Beyond[c][1][2] \in {"8", "9", "a", "b", "A", "B"}
  /\ \A digits \in StatusCodes : \* a number of JSON has no leading zero
       /\ digits \in Seq(DOMAIN DigitValue) /\ digits # <<>>
       /\ Len(digits) > 1 => digits[1] # "0"

VARIABLE item  \* what is under way
vars == <<item>>

None == [kind |-> "none"]
Init == item = None

Start(new) == item = None /\ item' = new

-----------------------------------------------------------------------------
(* A configuration.                                                        *)

EncodeConfig(c) ==
  Start([kind |-> "config", config |-> c, wire |-> Encode(c), harm |-> "none",
         volume |-> <<>>])

Intact == /\ item.kind = "config" /\ item.harm = "none"
          /\ Len(item.wire) <= MaxHarmed

Harm(how, wire) == item' = [item EXCEPT !.wire = wire, !.harm = how]

CutWire    == Intact /\ \E n \in 0 .. Len(item.wire) - 1 :
                Harm("cut", SubSeq(item.wire, 1, n))
ExtendWire == Intact /\ \E b \in SomeBytes :
                Harm("extended", Append(item.wire, b))
AlterWire  == Intact /\ \E i \in DOMAIN item.wire, b \in SomeBytes :
                Harm("altered", [item.wire EXCEPT ![i] = b])

SwapFields == Intact /\ \E f, g \in Fields :
                LET fields == FieldsOf(item.config)
                IN  Harm("swapped", Packet([fields EXCEPT ![f] = fields[g],
                                                          ![g] = fields[f]]))
RepeatField == Intact /\ \E f \in Fields :
                 LET fields == FieldsOf(item.config)
                 IN  Harm("repeated", Packet(Append(fields, fields[f])))
OmitField == Intact /\ \E f \in Fields :
               Harm("omitted", Packet(RemoveAt(FieldsOf(item.config), f)))

\* A volume that another program wrote.
WriteVolume(text) ==
  /\ Intact
  /\ item' = [item EXCEPT !.harm = "volume", !.volume = text,
                          !.wire = Packet([FieldsOf(item.config) EXCEPT
                                             ![Volume] = Field(Volume, text)])]

-----------------------------------------------------------------------------
(* Audio, and frames.                                                      *)

EncodeAudio(pcm) ==
  Start([kind |-> "audio", pcm |-> pcm, text |-> EncodeBase64(pcm),
         harm |-> "none"])

HarmText(how, text) ==
  /\ item.kind = "audio" /\ item.harm = "none"
  /\ item' = [item EXCEPT !.text = text, !.harm = how]

CutText    == item.kind = "audio" /\ \E n \in 0 .. Len(item.text) - 1 :
                HarmText("cut", SubSeq(item.text, 1, n))
DamageText == item.kind = "audio" /\ \E i \in DOMAIN item.text, c \in {Pad, Alien} :
                HarmText("damaged", [item.text EXCEPT ![i] = c])
AlterText  == item.kind = "audio" /\ \E i \in DOMAIN item.text, c \in SomeSymbols :
                HarmText("altered", [item.text EXCEPT ![i] = c])

\* writeOutputAudio() refuses half a sample.
Play(pcm, volume) ==
  /\ pcm # <<>> /\ Len(pcm) % 2 = 0
  /\ Start([kind |-> "play", pcm |-> pcm, volume |-> volume,
            out |-> ScalePcm(pcm, volume)])

Capture(words) ==
  Start([kind |-> "capture", words |-> words, pcm |-> Pcm16(words)])

FrameOf(length, masked) ==
  Start([kind |-> "frame", length |-> length, masked |-> masked,
         bytes |-> LengthBytes(length, masked)])

-----------------------------------------------------------------------------
(* Messages.                                                               *)

\* What the device sends, and the strings a reader is to find in it.
SendControl(type, id) ==
  Start([kind |-> "message", json |-> ControlEvent(type, id),
         strings |-> << <<"type">>, <<type>>, <<"event_id">>, id >>])

SendSession(text) ==
  Start([kind |-> "message",
         json |-> SessionCreate([id |-> text, instructions |-> text, voice |-> text], text),
         strings |-> << <<"type">>, <<"session.create">>, <<"event_id">>, text,
                        <<"session">>, <<"id">>, text, <<"model">>, <<"1.2.6.1">>,
                        <<"instructions">>, text,
                        <<"audio">>, <<"input">>, <<"format">>, <<"type">>, <<"pcm">>,
                        <<"rate">>, <<"output">>, <<"format">>, <<"type">>,
                        <<"pcm_s16le">>, <<"rate">>, <<"voice">>, text >>])

\* The server writes what is not ASCII as it is, or escapes it.
ServerString(text, ascii) ==
  LET char(c) == IF ascii /\ c \in DOMAIN Beyond
                   THEN <<Backslash, "u">> \o Beyond[c][1] \o <<Backslash, "u">> \o Beyond[c][2]
                 ELSE IF ascii /\ \E digits \in DOMAIN Unicode : Unicode[digits] = c
                   THEN <<Backslash, "u">> \o DigitsOf(c)
                 ELSE EscapeChar(c)
  IN  <<Quote>> \o FlattenSeq([i \in DOMAIN text |-> char(text[i])]) \o <<Quote>>

\* Where an event of that type has its content.
Carriers(type) ==
  CASE type = "session.created" -> {<<"session", "id">>}
    [] type \in {"transcription.delta", "response.output_text.delta",
                 "response.output_audio.delta"} -> {<<"delta">>}
    [] type = "transcription.completed" -> {<<"transcript">>, <<"text">>}
    [] type = "response.output_text.done" -> {<<"text">>}
    [] type = "error" -> {<<"error", "code">>}
    [] OTHER -> {}

\* The type comes first; another text may precede the content of an object.
ServerEvent(type, members) ==
  Object(Member("type", <<" ">> \o Named(type)) \o members)

SendContent(type, path, text, ascii) ==
  LET value  == ServerString(text, ascii)
      member == IF Len(path) = 1 THEN Member(path[1], value)
                ELSE Member(path[1], Object(Member("message", value) \o Comma
                                            \o Member(path[2], <<" ">> \o value)))
  IN  Start([kind |-> "event", type |-> type, content |-> {text},
             lossy |-> ascii /\ \E i \in DOMAIN text : text[i] \in DOMAIN Beyond,
             json |-> ServerEvent(type, Comma \o member)])

SendBare(type) ==
  Start([kind |-> "event", type |-> type, content |-> {}, lossy |-> FALSE,
         json |-> ServerEvent(type, <<>>)])

SendStatus(digits, text) ==
  Start([kind |-> "event", type |-> "error", content |-> {digits},
         lossy |-> Len(digits) > 9,
         json |-> ServerEvent("error", Comma \o Member("message", ServerString(text, FALSE))
                                       \o Comma \o Member("status_code", digits))])

Done == item # None /\ item' = None

Next ==
  \/ \E c \in Configs : EncodeConfig(c)
  \/ CutWire \/ ExtendWire \/ AlterWire
  \/ SwapFields \/ RepeatField \/ OmitField
  \/ \E text \in VolumeTexts : WriteVolume(text)
  \/ \E pcm \in Pcms : EncodeAudio(pcm)
  \/ CutText \/ DamageText \/ AlterText
  \/ \E pcm \in Pcms, volume \in Volumes : Play(pcm, volume)
  \/ \E words \in Words : Capture(words)
  \/ \E length \in Lengths, masked \in BOOLEAN : FrameOf(length, masked)
  \/ \E type \in ControlTypes, id \in Phrases : SendControl(type, id)
  \/ \E text \in Phrases : SendSession(text)
  \/ \E type \in EventTypes : \E path \in Carriers(type), text \in Phrases,
       ascii \in BOOLEAN : SendContent(type, path, text, ascii)
  \/ \E type \in EventTypes \cup {"future"} : Carriers(type) = {} /\ SendBare(type)
  \/ \E digits \in StatusCodes, text \in Phrases : SendStatus(digits, text)
  \/ Done

Spec == Init /\ [][Next]_vars

-----------------------------------------------------------------------------
(* What is read.                                                           *)

\* The strings of a text, one after the other.
StringsOf(json) ==
  LET from[i \in 1 .. Len(json) + 1] ==
        IF i > Len(json) THEN <<>>
        ELSE IF json[i] # Quote THEN from[i + 1]
        ELSE LET read == JsonString(json, i)
             IN  IF read = {} THEN <<"unreadable">>
                 ELSE LET r == CHOOSE s \in read : TRUE
                      IN  <<r.text>> \o from[r.after]
  IN  from[1]

\* The number that digits stand for.
NumberIn(text) ==
  LET number[i \in 0 .. Len(text)] ==
        IF i = 0 THEN 0 ELSE number[i - 1] * 10 + (text[i] - 48)
  IN  number[Len(text)]

\* device_config_wire.h: a configuration that comes as it was sent, its fields
\* in whatever order, is accepted exactly if it is valid and fits, and is then
\* the one that was sent.  A volume that another program wrote is read as the
\* number that is written, however many digits it has: none that does not fit
\* in a byte comes out as one that does.
ConfigArrives ==
  item.kind = "config" =>
    /\ item.harm \in {"none", "swapped"} =>
         /\ Accepted(item.wire) <=> /\ Valid(item.config)
                                     /\ Len(item.wire) <= MaxWireBytes
         /\ Accepted(item.wire) => Decode(item.wire).read = item.config
    /\ item.harm = "volume" /\ Accepted(item.wire) =>
         /\ IsNumber(item.volume)
         /\ Decode(item.wire).read[Volume] = NumberIn(item.volume)

\* A packet that was cut anywhere, that goes on after its last field, or in
\* which a field is there twice or not at all, is never accepted; and whatever
\* one wrong byte does to lengths, numbers and counts, what is accepted is a
\* valid configuration that is accepted again when the device stores it, and
\* that takes no more room than it came in.
DamageNoticed ==
  item.kind = "config" /\ Accepted(item.wire) =>
    /\ item.harm \notin {"cut", "extended", "repeated", "omitted"}
    /\ LET config == Decode(item.wire).read
       IN  /\ Valid(config)
           /\ Decode(Encode(config)).read = config
           /\ Len(Encode(config)) <= Len(item.wire)

\* Outside of group g the bytes are those of pcm.
OnlyGroup(out, pcm, g) ==
  \A j \in 1 .. Len(out) :
    (j - 1) \div 3 # g => j <= Len(pcm) /\ out[j] = pcm[j]

\* Audio comes out of base64 as it went in, whatever the length.  Text that was
\* cut, or where one character is no longer of the alphabet, is refused as a
\* whole or yields nothing but the beginning of the audio.  A letter that became
\* another is not noticed, but harms no more than the three bytes of its group:
\* nothing is moved, and at most one byte is added, where padding was.
AudioArrives ==
  item.kind = "audio" =>
    LET out == DecodeBase64(item.text)
    IN  /\ item.harm = "none" => WellFormed(item.text) /\ out = item.pcm
        /\ item.harm # "altered" /\ WellFormed(item.text) => IsPrefix(out, item.pcm)
        /\ item.harm = "altered" /\ WellFormed(item.text) =>
             /\ Len(out) - Len(item.pcm) \in {0, 1}
             /\ \E g \in 0 .. Len(item.pcm) : OnlyGroup(out, item.pcm, g)

\* At no volume does a sample, the lowest included, change its sign or become
\* louder, and at the full volume it is what it was.
PlaysSafely ==
  /\ Len(item.out) = Len(item.pcm)
  /\ \A i \in 1 .. Len(item.pcm) \div 2 :
       LET before == SampleOf(item.pcm[2 * i - 1], item.pcm[2 * i])
           after  == SampleOf(item.out[2 * i - 1], item.out[2 * i])
       IN  /\ before * after >= 0
           /\ 100 * Abs(after) <= item.volume * Abs(before)
           /\ 100 * (Abs(after) + 1) > item.volume * Abs(before)

\* What the microphone delivers as 32-bit words becomes their upper half.
CapturesSigned ==
  /\ Len(item.pcm) = 2 * Len(item.words)
  /\ \A i \in DOMAIN item.words :
       LET w == item.words[i]
           top == IF w[4] >= 128 THEN w[4] - 256 ELSE w[4]
           word == top * 16777216 + w[3] * 65536 + w[2] * 256 + w[1]
       IN  SampleOf(item.pcm[2 * i - 1], item.pcm[2 * i]) = word \div 65536

\* pcm_audio.h: no sample loses its sign on its way from the microphone or to
\* the speaker, and none comes out louder than the volume asks for.
SamplesKept ==
  /\ item.kind = "play" => PlaysSafely
  /\ item.kind = "capture" => CapturesSigned

\* The length in front of a frame is read as it was written, at and around the
\* limits of each of its three forms, and the room that sendFrame() leaves in
\* front of the payload is what createHeader() fills and the reader waits for.
FramesAgree ==
  item.kind = "frame" =>
    LET filled == 1 + Len(item.bytes) + KeySize(item.masked)
    IN  /\ ReadLength(item.bytes) = item.length
        /\ HeaderSize(item.length, item.masked) = filled
        /\ ReadHeaderSize(item.bytes) = filled
        /\ filled <= MaxHeaderSize

\* json_string.h and realtime_voice_protocol.h: whatever is in the free texts,
\* a reader finds in a message of the device the strings that were put there
\* and no others; and of the server's event the type, and the content even
\* where other texts hold the name of the member it is looked for by.  What
\* cannot be read (a character escaped in two halves, a status that needs more
\* than 32 bits) is missing, never taken for something else.
MessagesRead ==
  /\ item.kind = "message" => StringsOf(item.json) = item.strings
  /\ item.kind = "event" =>
       LET event == ParseEvent(item.json)
       IN  \/ /\ event.type = IF item.type = "future" THEN "unknown" ELSE item.type
              /\ event.content = item.content
           \/ item.lossy /\ event.content \in {{}, {<<"provider_error">>}}
=============================================================================
