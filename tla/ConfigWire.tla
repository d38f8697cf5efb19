----------------------------- MODULE ConfigWire -----------------------------
(***************************************************************************)
(* The bytes a device configuration is sent and stored as:                 *)
(* device_config_wire.h, and validateDeviceConfig() of device_config.h,    *)
(* which the decoder ends with.                                            *)
(*                                                                         *)
(* A configuration maps the number of each field to its value: text is a   *)
(* sequence of bytes, fields 8 and 9 are Booleans, field 13 is a number.   *)
(***************************************************************************)
EXTENDS Naturals, Sequences, SequencesExt

CONSTANTS
  Adapter,   \* the text "doubao-seeduplex-v1"
  Endpoints  \* the texts parseSecureEndpoint() takes for an https address

ASSUME TextsAssumption ==
  Adapter \in Seq(0 .. 255) /\ Endpoints \subseteq Seq(0 .. 255)

MaxWireBytes == 8192
Version      == 3
Magic        == <<81, 72, 86, 67>> \* QHVC
FieldCount   == 13
Fields       == 1 .. FieldCount

Ssid        == 1
Password    == 2
AdapterName == 3
ApiKey      == 4
Voice       == 5
Enabled     == 9
Endpoint    == 10
DeviceId    == 11
Credential  == 12
Volume      == 13
Booleans == {8, Enabled}
Texts    == Fields \ (Booleans \cup {Volume})

\* Texts of bytes, and a volume of 8 bits.
IsConfig(config) ==
  /\ config = [f \in Fields |-> config[f]]
  /\ \A f \in Texts : config[f] \in Seq(0 .. 255)
  /\ \A f \in Booleans : config[f] \in BOOLEAN
  /\ config[Volume] \in 0 .. 255

Valid(config) ==
  /\ \A f \in {Ssid, Password, ApiKey, Voice} : config[f] # <<>>
  /\ config[AdapterName] = Adapter
  /\ config[Enabled] => /\ config[Endpoint] \in Endpoints
                        /\ config[DeviceId] # <<>> /\ config[Credential] # <<>>
  /\ config[Volume] <= 100

-----------------------------------------------------------------------------
(* Encoding.                                                               *)

\* std::to_string(): the digits of a byte.
Digits(n) == IF n < 10 THEN <<48 + n>>
             ELSE IF n < 100 THEN <<48 + (n \div 10), 48 + (n % 10)>>
             ELSE <<48 + (n \div 100), 48 + ((n \div 10) % 10), 48 + (n % 10)>>

TextOf(f, v) == CASE f \in Booleans -> IF v THEN <<49>> ELSE <<48>>
                  [] f = Volume     -> Digits(v)
                  [] OTHER          -> v

\* appendConfigField(): the length is cut to 16 bits.
Field(f, text) == <<f, (Len(text) \div 256) % 256, Len(text) % 256>> \o text

Packet(fields) == Magic \o <<Version, Len(fields)>> \o FlattenSeq(fields)

FieldsOf(config) == [f \in Fields |-> Field(f, TextOf(f, config[f]))]

Encode(config) == Packet(FieldsOf(config))

-----------------------------------------------------------------------------
(* Decoding.                                                               *)

NotANumber == 256

IsNumber(text) == text # <<>> /\ \A i \in DOMAIN text : text[i] \in 48 .. 57

\* Mutant of ParseUnsigned: the digits are added up modulo 2^8.
ParseUnsignedWrapping(text, maximum) ==
  LET parsed[i \in 0 .. Len(text)] ==
        IF i = 0 THEN 0 ELSE (parsed[i - 1] * 10 + text[i] - 48) % (maximum + 1)
  IN  IF IsNumber(text) THEN parsed[Len(text)] ELSE NotANumber

\* parseConfigUnsigned(), for a maximum below NotANumber.
ParseUnsigned(text, maximum) ==
  LET next(n, digit) == IF n = NotANumber \/ n > (maximum - digit) \div 10
                          THEN NotANumber ELSE n * 10 + digit
      parsed[i \in 0 .. Len(text)] ==
        IF i = 0 THEN 0 ELSE next(parsed[i - 1], text[i] - 48)
  IN  IF IsNumber(text) THEN parsed[Len(text)] ELSE NotANumber

Readable(f, text) ==
  CASE f \in Booleans -> text \in {<<48>>, <<49>>}
    [] f = Volume     -> ParseUnsigned(text, 255) # NotANumber
    [] OTHER          -> TRUE

ValueOf(f, text) == CASE f \in Booleans -> text = <<49>>
                      [] f = Volume     -> ParseUnsigned(text, 255)
                      [] OTHER          -> text

\* s: where the loop is, what it has read, and its error.
Error(s, e) == [s EXCEPT !.error = e]

\* Mutant of AlreadyRead: a field that comes again replaces the first.
NeverRead(id, s) == FALSE

AlreadyRead(id, s) == id \in DOMAIN s.read

\* One round of the loop of decodeDeviceConfigWire().
ReadField(input, s) ==
  LET rest == Len(input) - s.cursor
      id   == input[s.cursor + 1]
      size == input[s.cursor + 2] * 256 + input[s.cursor + 3]
      text == SubSeq(input, s.cursor + 4, s.cursor + 3 + size)
  IN  IF s.error # "None"         THEN s
      ELSE IF rest < 3            THEN Error(s, "Truncated")
      ELSE IF id \notin Fields    THEN Error(s, "UnknownField")
      ELSE IF AlreadyRead(id, s)  THEN Error(s, "DuplicateField")
      ELSE IF size > rest - 3     THEN Error(s, "Truncated")
      ELSE IF ~Readable(id, text) THEN Error(s, "InvalidNumber")
      ELSE [s EXCEPT !.cursor = @ + 3 + size,
                     !.read = [f \in DOMAIN @ \cup {id} |->
                                 IF f = id THEN ValueOf(id, text) ELSE @[f]]]

ReadFields(input) ==
  LET round[i \in 0 .. input[6]] ==
        IF i = 0 THEN [cursor |-> 6, read |-> <<>>, error |-> "None"]
        ELSE ReadField(input, round[i - 1])
  IN  round[input[6]]

\* After the loop.
Finished(input, s) ==
  IF s.error # "None"            THEN s
  ELSE IF s.cursor # Len(input)  THEN Error(s, "Truncated")
  ELSE IF DOMAIN s.read # Fields THEN Error(s, "MissingField")
  ELSE IF ~Valid(s.read)         THEN Error(s, "InvalidConfig")
  ELSE s

\* The record that comes out has the configuration in `read' if its error is
\* "None".
Decode(input) ==
  LET failed(e) == [cursor |-> 0, read |-> <<>>, error |-> e]
  IN  IF Len(input) > MaxWireBytes        THEN failed("TooLarge")
      ELSE IF Len(input) < 6              THEN failed("Truncated")
      ELSE IF SubSeq(input, 1, 4) # Magic THEN failed("BadMagic")
      ELSE IF input[5] # Version          THEN failed("UnsupportedVersion")
      ELSE Finished(input, ReadFields(input))

Accepted(input) == Decode(input).error = "None"
=============================================================================
