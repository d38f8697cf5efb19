----------------------------- MODULE AudioCodec -----------------------------
(***************************************************************************)
(* What becomes of audio on its way between the microphone, the server and *)
(* the speaker: samples to bytes and their volume (pcm_audio.h), bytes to  *)
(* base64 text and back (realtime_voice_protocol.h), and the length in     *)
(* front of a WebSocket frame (createHeader(), sendFrame() and             *)
(* handleWebsocketCb() of WebSockets.cpp).                                 *)
(***************************************************************************)
EXTENDS Integers, Sequences

Byte == 0 .. 255

Abs(n) == IF n < 0 THEN -n ELSE n

-----------------------------------------------------------------------------
(* Samples.  A word of the microphone is its four bytes, the lowest first. *)

Word == [1 .. 4 -> Byte]

\* convertI2s32ToPcm16Le(): the upper half of each word.
Pcm16(words) == [i \in 1 .. 2 * Len(words) |->
                   words[(i + 1) \div 2][IF i % 2 = 1 THEN 3 ELSE 4]]

SampleOf(low, high) ==
  LET n == low + 256 * high IN IF n < 32768 THEN n ELSE n - 65536

\* Mutant of Scaled: the sample is taken as unsigned.
ScaledUnsigned(sample, volume) == ((sample % 65536) * volume) \div 100

\* The division of C++ rounds towards zero.
Scaled(sample, volume) ==
  LET v == IF volume > 100 THEN 100 ELSE volume
  IN  IF sample >= 0 THEN (sample * v) \div 100 ELSE -((-sample * v) \div 100)

\* scalePcm16Le().
ScalePcm(pcm, volume) ==
  [i \in 1 .. Len(pcm) |->
     IF i = Len(pcm) /\ i % 2 = 1 THEN pcm[i]
     ELSE LET k == i + (i % 2)
              n == Scaled(SampleOf(pcm[k - 1], pcm[k]), volume) % 65536
          IN  IF i % 2 = 1 THEN n % 256 ELSE n \div 256]

-----------------------------------------------------------------------------
(* Base64.  A character is its value, or one of the two below.             *)

Symbol == 0 .. 63
Pad    == 64
Alien  == 65 \* any character outside the alphabet
Char   == Symbol \cup {Pad, Alien}

At(s, i) == IF i <= Len(s) THEN s[i] ELSE 0

Pow64  == <<262144, 4096, 64, 1>>
Pow256 == <<65536, 256, 1>>

Sum3(b1, b2, b3) == b1 * 65536 + b2 * 256 + b3
Sum4(v1, v2, v3, v4) == v1 * 262144 + v2 * 4096 + v3 * 64 + v4

\* The bytes of group g, counted from 0, as one number.
Block(bytes, g) ==
  Sum3(At(bytes, 3 * g + 1), At(bytes, 3 * g + 2), At(bytes, 3 * g + 3))

\* encodeBase64(): p is the place of a character in its group.
EncodeBase64(bytes) ==
  [k \in 1 .. 4 * ((Len(bytes) + 2) \div 3) |->
     LET g == (k - 1) \div 4
         p == (k - 1) % 4
     IN  IF 3 * g + p > Len(bytes) THEN Pad
         ELSE (Block(bytes, g) \div Pow64[p + 1]) % 64]

\* Mutant of WellFormed: padding is taken in any group.
WellFormedGroups(text) ==
  /\ Len(text) % 4 = 0
  /\ \A k \in 1 .. Len(text) :
       IF k % 4 \in {1, 2} THEN text[k] \in Symbol
       ELSE /\ text[k] # Alien
            /\ (text[k] = Pad /\ k % 4 = 3) => text[k + 1] = Pad

\* What decodeBase64() takes: padding ends the last group only.
WellFormed(text) ==
  /\ Len(text) % 4 = 0
  /\ \A k \in 1 .. Len(text) :
       \/ text[k] \in Symbol
       \/ text[k] = Pad /\ k = Len(text)
       \/ text[k] = Pad /\ k = Len(text) - 1 /\ text[k + 1] = Pad

Padding(text) == IF text = <<>> \/ text[Len(text)] # Pad THEN 0
                 ELSE IF text[Len(text) - 1] = Pad THEN 2 ELSE 1

Value(char) == IF char = Pad THEN 0 ELSE char

Quad(text, g) ==
  Sum4(Value(text[4 * g + 1]), Value(text[4 * g + 2]),
       Value(text[4 * g + 3]), Value(text[4 * g + 4]))

\* decodeBase64() of a text that is WellFormed.
DecodeBase64(text) ==
  [j \in 1 .. 3 * (Len(text) \div 4) - Padding(text) |->
     (Quad(text, (j - 1) \div 3) \div Pow256[((j - 1) % 3) + 1]) % 256]

-----------------------------------------------------------------------------
(* Frames.                                                                 *)

MaxHeaderSize == 14

KeySize(masked) == IF masked THEN 4 ELSE 0

\* Mutant of HeaderSize: one more length fits in two bytes.
HeaderSizeUpTo(length, masked) ==
  (IF length < 126 THEN 2 ELSE IF length <= 65535 THEN 4 ELSE 10)
  + KeySize(masked)

\* As sendFrame() computes it, to leave as much room in front of the payload.
HeaderSize(length, masked) ==
  (IF length < 126 THEN 2 ELSE IF length < 65535 THEN 4 ELSE 10)
  + KeySize(masked)

\* createHeader(): the second byte and the length, without the key.
LengthBytes(length, masked) ==
  LET mask == IF masked THEN 128 ELSE 0
  IN  IF length < 126 THEN <<mask + length>>
      ELSE IF length < 65535
        THEN <<mask + 126, (length \div 256) % 256, length % 256>>
      ELSE <<mask + 127, 0, 0, 0, 0, (length \div 16777216) % 256,
             (length \div 65536) % 256, (length \div 256) % 256, length % 256>>

\* handleWebsocketCb(): the length in the bytes after the first, and how many
\* bytes the header has.
TooLong == 65535 * 65536 + 65535 \* the largest size_t

ReadLength(b) ==
  LET short == b[1] % 128
  IN  IF short = 126 THEN b[2] * 256 + b[3]
      ELSE IF short # 127 THEN short
      ELSE IF \E i \in 2 .. 5 : b[i] # 0 THEN TooLong
      ELSE b[6] * 16777216 + b[7] * 65536 + b[8] * 256 + b[9]

ReadHeaderSize(b) ==
  2 + (IF b[1] % 128 = 126 THEN 2 ELSE IF b[1] % 128 = 127 THEN 8 ELSE 0)
    + KeySize(b[1] >= 128)
=============================================================================
