--------------------------- MODULE Formats_proofs ---------------------------
(***************************************************************************)
(* What the runs of Formats find of a few inputs holds of every            *)
(* configuration, whatever happens to its packet, of every length of a     *)
(* frame, every word of the microphone, every volume and every audio,      *)
(* wherever it was cut and whatever character was damaged, and of every    *)
(* text in a message.                                                      *)
(*                                                                         *)
(* Audio comes first, with what its operators do; then the bytes of a      *)
(* configuration; then messages, how their texts are escaped and read,     *)
(* where names stand in them and which strings they have; then the         *)
(* behaviours of Formats.  What goes by induction over the digits of a     *)
(* number, the fields of a packet or the characters of a text is stated as *)
(* a set of numbers, of which lemma UpTo finds that it has them all.       *)
(***************************************************************************)
EXTENDS Formats, SequenceTheorems, FiniteSetTheorems, WellFoundedInduction, TLAPS

-----------------------------------------------------------------------------
(* The length of a frame.                                                  *)

LEMMA LengthBack ==
  ASSUME NEW n \in Nat, n \div 65536 < 65536
  PROVE  /\ n < 65535 => ((n \div 256) % 256) * 256 + (n % 256) = n
         /\ ((n \div 16777216) % 256) * 16777216 + ((n \div 65536) % 256) * 65536
              + ((n \div 256) % 256) * 256 + (n % 256) = n
<1> DEFINE n1 == n \div 256
           n2 == n \div 65536
           n3 == n \div 16777216
<1>1. n2 = n1 \div 256 /\ n3 = n2 \div 256 /\ n3 \in 0 .. 255
  OBVIOUS
<1>2. n < 65535 => n1 % 256 = n1
  OBVIOUS
<1>3. /\ n = 256 * n1 + (n % 256)
      /\ n1 = 256 * n2 + (n1 % 256)
      /\ n2 = 256 * n3 + (n2 % 256)
      /\ n3 % 256 = n3
  BY <1>1
<1>4. /\ n1 \in Int /\ n2 \in Int /\ n3 \in Int /\ n % 256 \in Int
      /\ n1 % 256 \in Int /\ n2 % 256 \in Int
  OBVIOUS
<1> HIDE DEF n1, n2, n3
<1>5. n < 65535 => (n1 % 256) * 256 + (n % 256) = n
  BY <1>2, <1>3, <1>4
<1>6. (n3 % 256) * 16777216 + (n2 % 256) * 65536 + (n1 % 256) * 256 + (n % 256) = n
  BY <1>3, <1>4
<1> QED BY <1>5, <1>6 DEF n1, n2, n3

\* The length that is read is the one that was written, and the three
\* computations of the header's size agree.
LEMMA FrameLength ==
  ASSUME NEW n \in Nat, n \div 65536 < 65536,
         NEW masked \in BOOLEAN
  PROVE  LET b      == LengthBytes(n, masked)
             filled == 1 + Len(b) + KeySize(masked)
         IN  /\ ReadLength(b) = n
             /\ HeaderSize(n, masked) = filled
             /\ ReadHeaderSize(b) = filled
             /\ filled <= MaxHeaderSize
<1>1. PICK mask \in Int : mask = IF masked THEN 128 ELSE 0
  OBVIOUS
<1>2. PICK keys \in Int : keys = KeySize(masked) /\ keys <= 4
  BY DEF KeySize
<1> DEFINE b == LengthBytes(n, masked)
<1>3. CASE n < 126
  <2>1. Len(b) = 1 /\ b[1] = mask + n
    BY <1>1, <1>3 DEF LengthBytes
  <2>2. (mask + n) % 128 = n /\ (mask + n >= 128 <=> masked)
    BY <1>1, <1>3
  <2> HIDE DEF b
  <2>3. ReadLength(b) = n
    BY <1>3, <2>1, <2>2 DEF ReadLength
  <2>4. HeaderSize(n, masked) = 2 + keys /\ ReadHeaderSize(b) = 2 + keys
    <3>1. KeySize(b[1] >= 128) = keys
      BY <1>2, <2>1, <2>2 DEF KeySize
    <3> QED BY <1>2, <1>3, <2>1, <2>2, <3>1 DEF HeaderSize, ReadHeaderSize
  <2> QED BY <1>1, <1>2, <2>1, <2>3, <2>4 DEF b, MaxHeaderSize
<1>4. CASE n >= 126 /\ n < 65535
  <2>1. /\ Len(b) = 3 /\ b[1] = mask + 126
        /\ b[2] = (n \div 256) % 256 /\ b[3] = n % 256
    BY <1>1, <1>4 DEF LengthBytes
  <2>2. (mask + 126) % 128 = 126 /\ (mask + 126 >= 128 <=> masked)
    BY <1>1
  <2> HIDE DEF b
  <2>3. ReadLength(b) = n
    BY <1>4, <2>1, <2>2, LengthBack DEF ReadLength
  <2>4. HeaderSize(n, masked) = 4 + keys /\ ReadHeaderSize(b) = 4 + keys
    <3>1. KeySize(b[1] >= 128) = keys
      BY <1>2, <2>1, <2>2 DEF KeySize
    <3> QED BY <1>2, <1>4, <2>1, <2>2, <3>1 DEF HeaderSize, ReadHeaderSize
  <2> QED BY <1>1, <1>2, <2>1, <2>3, <2>4 DEF b, MaxHeaderSize
<1>5. CASE n >= 65535
  <2>1. /\ Len(b) = 9 /\ b[1] = mask + 127
        /\ b[2] = 0 /\ b[3] = 0 /\ b[4] = 0 /\ b[5] = 0
        /\ b[6] = (n \div 16777216) % 256 /\ b[7] = (n \div 65536) % 256
        /\ b[8] = (n \div 256) % 256      /\ b[9] = n % 256
    BY <1>1, <1>5 DEF LengthBytes
  <2>2. (mask + 127) % 128 = 127 /\ (mask + 127 >= 128 <=> masked)
    BY <1>1
  <2> HIDE DEF b
  <2>3. ~ \E i \in 2 .. 5 : b[i] # 0
    BY <2>1
  <2>4. ReadLength(b) = b[6] * 16777216 + b[7] * 65536 + b[8] * 256 + b[9]
    BY <2>1, <2>2, <2>3 DEF ReadLength
  <2>5. ReadLength(b) = n
    BY <2>1, <2>4, LengthBack
  <2>6. HeaderSize(n, masked) = 10 + keys /\ ReadHeaderSize(b) = 10 + keys
    <3>1. KeySize(b[1] >= 128) = keys
      BY <1>2, <2>1, <2>2 DEF KeySize
    <3> QED BY <1>2, <1>5, <2>1, <2>2, <3>1 DEF HeaderSize, ReadHeaderSize
  <2> QED BY <1>1, <1>2, <2>1, <2>5, <2>6 DEF b, MaxHeaderSize
<1> QED BY <1>3, <1>4, <1>5

-----------------------------------------------------------------------------
(* Samples.                                                                *)

LEMMA CaptureSigned ==
  ASSUME NEW w \in Word
  PROVE  LET top == IF w[4] >= 128 THEN w[4] - 256 ELSE w[4]
             word == top * 16777216 + w[3] * 65536 + w[2] * 256 + w[1]
         IN  SampleOf(w[3], w[4]) = word \div 65536
<1>1. PICK w1 \in Byte, w2 \in Byte, w3 \in Byte, w4 \in Byte :
        w[1] = w1 /\ w[2] = w2 /\ w[3] = w3 /\ w[4] = w4
  BY DEF Word
<1>2. \A t \in -128 .. 127 :
        (t * 16777216 + w3 * 65536 + w2 * 256 + w1) \div 65536 = t * 256 + w3
  BY DEF Byte
<1> QED BY <1>1, <1>2 DEF SampleOf, Byte

LEMMA Product ==
  ASSUME NEW n \in Int, 0 <= n, n <= 32768, NEW v \in Int, 0 <= v, v <= 100
  PROVE  LET q == (n * v) \div 100
         IN  /\ q \in Int /\ 0 <= q /\ q <= n
             /\ 100 * q <= v * n
             /\ v * n < 100 * (q + 1)
<1>1. n * v \in Int /\ 0 <= n * v /\ n * v <= 100 * n /\ n * v = v * n
  OBVIOUS
<1>2. \A p \in Int : 0 <= p => /\ p \div 100 \in Int /\ 0 <= p \div 100
                               /\ 100 * (p \div 100) <= p
                               /\ p < 100 * (p \div 100 + 1)
  OBVIOUS
<1> DEFINE p == n * v
           q == p \div 100
<1>3. q \in Int /\ 0 <= q /\ 100 * q <= p /\ p < 100 * (q + 1)
  BY <1>1, <1>2
<1> HIDE DEF p, q
<1>4. p \in Int /\ p <= 100 * n /\ p = v * n
  BY <1>1 DEF p
<1>5. q <= n /\ 100 * q <= v * n /\ v * n < 100 * (q + 1)
  BY <1>3, <1>4
<1> QED BY <1>3, <1>5 DEF p, q

IsSample(s) == s \in Int /\ -32768 <= s /\ s <= 32767

LEMMA ScaledIsSafe ==
  ASSUME NEW s, IsSample(s), NEW v \in Int, 0 <= v, v <= 100
  PROVE  /\ IsSample(Scaled(s, v))
         /\ s * Scaled(s, v) >= 0
         /\ 100 * Abs(Scaled(s, v)) <= v * Abs(s)
         /\ 100 * (Abs(Scaled(s, v)) + 1) > v * Abs(s)
<1>0. (IF v > 100 THEN 100 ELSE v) = v
  OBVIOUS
<1> USE DEF IsSample
<1>1. CASE s >= 0
  <2> DEFINE q == (s * v) \div 100
  <2>1. /\ q \in Int /\ 0 <= q /\ q <= s
        /\ 100 * q <= v * s /\ v * s < 100 * (q + 1)
    BY <1>1, Product
  <2>2. Scaled(s, v) = q
    BY <1>0, <1>1 DEF Scaled
  <2> HIDE DEF q
  <2>3. Abs(q) = q /\ Abs(s) = s
    BY <2>1, <1>1 DEF Abs
  <2>4. s * q >= 0
    BY <2>1, <1>1
  <2> QED BY <2>1, <2>2, <2>3, <2>4
<1>2. CASE s < 0
  <2> DEFINE n == -s
             q == (n * v) \div 100
  <2>0. n \in Int /\ 0 < n /\ n <= 32768 /\ s = -n
    BY <1>2
  <2>1. Scaled(s, v) = -q
    BY <1>0, <1>2 DEF Scaled
  <2> HIDE DEF n
  <2>2. /\ q \in Int /\ 0 <= q /\ q <= n
        /\ 100 * q <= v * n /\ v * n < 100 * (q + 1)
    BY <2>0, Product
  <2> HIDE DEF q
  <2>3. Abs(-q) = q /\ Abs(s) = n
    BY <2>0, <2>2 DEF Abs
  <2>4. n * q >= 0
    BY <2>0, <2>2
  <2>5. s * (-q) = n * q
    BY <2>0, <2>2
  <2> QED BY <2>0, <2>1, <2>2, <2>3, <2>4, <2>5
<1> QED BY <1>1, <1>2

\* The two bytes that a sample is stored in are that sample.
LEMMA BytesOfSample ==
  ASSUME NEW s \in Int, IsSample(s), NEW low \in Int, NEW high \in Int,
         low = (s % 65536) % 256, high = (s % 65536) \div 256
  PROVE  SampleOf(low, high) = s
<1>1. s \in Int /\ -32768 <= s /\ s <= 32767
  BY DEF IsSample
<1>2. PICK m \in Int : m = s % 65536
  BY <1>1
<1>3. low + 256 * high = m
  BY <1>2
<1>4. CASE s < 0
  <2>1. m = s + 65536
    BY <1>1, <1>2, <1>4
  <2> QED BY <1>1, <1>3, <1>4, <2>1 DEF SampleOf
<1>5. CASE s >= 0
  <2>1. m = s
    BY <1>1, <1>2, <1>5
  <2> QED BY <1>1, <1>3, <1>5, <2>1 DEF SampleOf
<1> QED BY <1>1, <1>4, <1>5

LEMMA SampleType ==
  ASSUME NEW low \in Byte, NEW high \in Byte
  PROVE  IsSample(SampleOf(low, high))
BY DEF IsSample, SampleOf, Byte

LEMMA PlayedSafely ==
  ASSUME NEW pcm \in Seq(Byte), NEW v \in Int, 0 <= v, v <= 100,
         NEW i \in 1 .. Len(pcm) \div 2
  PROVE  LET out    == ScalePcm(pcm, v)
             before == SampleOf(pcm[2 * i - 1], pcm[2 * i])
             after  == SampleOf(out[2 * i - 1], out[2 * i])
         IN  /\ before * after >= 0
             /\ 100 * Abs(after) <= v * Abs(before)
             /\ 100 * (Abs(after) + 1) > v * Abs(before)
<1> DEFINE out    == ScalePcm(pcm, v)
           before == SampleOf(pcm[2 * i - 1], pcm[2 * i])
           n      == Scaled(before, v)
<1>1. 2 * i - 1 \in 1 .. Len(pcm) /\ 2 * i \in 1 .. Len(pcm) /\ 2 * i - 1 # Len(pcm)
  OBVIOUS
<1>2. pcm[2 * i - 1] \in Byte /\ pcm[2 * i] \in Byte
  BY <1>1
<1>3. IsSample(before)
  BY <1>2, SampleType
<1>4. (2 * i - 1) % 2 = 1 /\ (2 * i) % 2 = 0
  OBVIOUS
<1>5. (2 * i - 1) + ((2 * i - 1) % 2) = 2 * i /\ 2 * i + ((2 * i) % 2) = 2 * i
  BY <1>4
<1>6. out[2 * i - 1] = (n % 65536) % 256
  BY <1>1, <1>4, <1>5 DEF ScalePcm
<1>7. out[2 * i] = (n % 65536) \div 256
  BY <1>1, <1>4, <1>5 DEF ScalePcm
<1> HIDE DEF before, out
<1>8. /\ IsSample(n)
      /\ before * n >= 0
      /\ 100 * Abs(n) <= v * Abs(before)
      /\ 100 * (Abs(n) + 1) > v * Abs(before)
  BY <1>3, ScaledIsSafe
<1> HIDE DEF n
<1>9. PICK low \in Int, high \in Int :
        /\ out[2 * i - 1] = low  /\ low = (n % 65536) % 256
        /\ out[2 * i] = high     /\ high = (n % 65536) \div 256
  BY <1>6, <1>7, <1>8 DEF IsSample
<1>10. n \in Int
  BY <1>8 DEF IsSample
<1>11. SampleOf(low, high) = n
  BY <1>8, <1>9, <1>10, BytesOfSample
<1> QED BY <1>8, <1>9, <1>11 DEF before, out

-----------------------------------------------------------------------------
(* Base64.                                                                 *)

\* The arithmetic: of four characters with the sum q, and three bytes with the
\* sum n, any two neighbouring characters that are those of the bytes give the
\* byte that they share.
LEMMA SharedByte ==
  ASSUME NEW b1 \in Byte, NEW b2 \in Byte, NEW b3 \in Byte,
         NEW v1 \in Symbol, NEW v2 \in Symbol,
         NEW v3 \in Symbol, NEW v4 \in Symbol,
         NEW n, n = Sum3(b1, b2, b3), NEW q, q = Sum4(v1, v2, v3, v4)
  PROVE  /\ /\ v1 = (n \div Pow64[1]) % 64 /\ v2 = (n \div Pow64[2]) % 64
            => (q \div Pow256[1]) % 256 = b1
         /\ /\ v2 = (n \div Pow64[2]) % 64 /\ v3 = (n \div Pow64[3]) % 64
            => (q \div Pow256[2]) % 256 = b2
         /\ /\ v3 = (n \div Pow64[3]) % 64 /\ v4 = (n \div Pow64[4]) % 64
            => (q \div Pow256[3]) % 256 = b3
<1> USE DEF Byte, Symbol
<1>n. n \in Int /\ n = b1 * 65536 + b2 * 256 + b3
  BY DEF Sum3
<1>q. q \in Int /\ q = v1 * 262144 + v2 * 4096 + v3 * 64 + v4
  BY DEF Sum4
<1>1. PICK c1 \in 0 .. 63, d1 \in 0 .. 3 : b1 = c1 * 4 + d1
  <2>1. b1 \div 4 \in 0 .. 63 /\ b1 % 4 \in 0 .. 3 /\ b1 = (b1 \div 4) * 4 + (b1 % 4)
    OBVIOUS
  <2> QED BY <2>1
<1>2. PICK c2 \in 0 .. 15, d2 \in 0 .. 15 : b2 = c2 * 16 + d2
  <2>1. b2 \div 16 \in 0 .. 15 /\ b2 % 16 \in 0 .. 15 /\ b2 = (b2 \div 16) * 16 + (b2 % 16)
    OBVIOUS
  <2> QED BY <2>1
<1>3. PICK c3 \in 0 .. 3, d3 \in 0 .. 63 : b3 = c3 * 64 + d3
  <2>1. b3 \div 64 \in 0 .. 3 /\ b3 % 64 \in 0 .. 63 /\ b3 = (b3 \div 64) * 64 + (b3 % 64)
    OBVIOUS
  <2> QED BY <2>1
<1>4. PICK e2 \in 0 .. 63, e3 \in 0 .. 63 : e2 = d1 * 16 + c2 /\ e3 = d2 * 4 + c3
  BY <1>1, <1>2, <1>3
<1>5. n \in Int /\ n = c1 * 262144 + e2 * 4096 + e3 * 64 + d3
  BY <1>n, <1>1, <1>2, <1>3, <1>4
<1>6. /\ (n \div 262144) % 64 = c1 /\ (n \div 4096) % 64 = e2
      /\ (n \div 64) % 64 = e3     /\ n % 64 = d3
  <2>1. n \div 64 = c1 * 4096 + e2 * 64 + e3 /\ n % 64 = d3
    BY <1>5
  <2>2. n \div 4096 = c1 * 64 + e2 /\ n \div 262144 = c1
    BY <1>5
  <2>3. (c1 * 4096 + e2 * 64 + e3) % 64 = e3 /\ (c1 * 64 + e2) % 64 = e2 /\ c1 % 64 = c1
    OBVIOUS
  <2> QED BY <2>1, <2>2, <2>3
<1>7. ASSUME v1 = c1, v2 = e2
      PROVE  (q \div 65536) % 256 = b1
  <2>1. q = b1 * 65536 + (c2 * 4096 + v3 * 64 + v4)
    BY <1>q, <1>1, <1>2, <1>4, <1>7
  <2>2. 0 <= c2 * 4096 + v3 * 64 + v4 /\ c2 * 4096 + v3 * 64 + v4 < 65536
    BY <1>2
  <2>3. q \div 65536 = b1
    BY <1>2, <2>1, <2>2
  <2> QED BY <2>3
<1>8. ASSUME v2 = e2, v3 = e3
      PROVE  (q \div 256) % 256 = b2
  <2>1. q = (v1 * 4 + d1) * 65536 + b2 * 256 + (c3 * 64 + v4)
    BY <1>q, <1>1, <1>2, <1>3, <1>4, <1>8
  <2>2. c3 * 64 + v4 \in 0 .. 255
    BY <1>3
  <2>3. q \div 256 = (v1 * 4 + d1) * 256 + b2
    BY <1>1, <1>3, <2>1, <2>2
  <2> QED BY <2>3
<1>9. ASSUME v3 = e3, v4 = d3
      PROVE  q % 256 = b3
  <2>1. q = (v1 * 1024 + v2 * 16 + d2) * 256 + b3
    BY <1>q, <1>2, <1>3, <1>4, <1>9
  <2> QED BY <2>1
<1>10. /\ Pow64[1] = 262144 /\ Pow64[2] = 4096 /\ Pow64[3] = 64 /\ Pow64[4] = 1
       /\ Pow256[1] = 65536 /\ Pow256[2] = 256 /\ Pow256[3] = 1
       /\ n \div 1 = n /\ q \div 1 = q
  BY <1>n, <1>q DEF Pow64, Pow256
<1> QED BY <1>n, <1>q, <1>6, <1>7, <1>8, <1>9, <1>10

\* What is known of a text that is well formed.
LEMMA WellFormedText ==
  ASSUME NEW text \in Seq(Char), WellFormed(text)
  PROVE  /\ Len(text) % 4 = 0 /\ Padding(text) \in 0 .. 2
         /\ \A k \in 1 .. Len(text) :
              /\ Value(text[k]) \in Symbol
              /\ text[k] \in Symbol => Value(text[k]) = text[k]
              /\ text[k] \notin Symbol =>
                   \/ k = Len(text) /\ Padding(text) >= 1
                   \/ k = Len(text) - 1 /\ Padding(text) = 2
<1>1. Len(text) \in Nat /\ Len(text) % 4 = 0
  BY DEF WellFormed
<1>2. \A k \in 1 .. Len(text) : text[k] \in Char
  OBVIOUS
<1>3. Padding(text) \in 0 .. 2
  BY DEF Padding
<1>4. ASSUME NEW k \in 1 .. Len(text)
      PROVE  /\ Value(text[k]) \in Symbol
             /\ text[k] \in Symbol => Value(text[k]) = text[k]
  <2>1. text[k] \in Symbol \/ text[k] = Pad
    BY DEF WellFormed
  <2>2. CASE text[k] \in Symbol
    <3>1. \A c \in Char : c \in Symbol => c # Pad
      BY DEF Char, Symbol, Pad
    <3>2. text[k] # Pad
      BY <1>2, <2>2, <3>1
    <3> QED BY <2>2, <3>2 DEF Value, Symbol
  <2>3. CASE text[k] = Pad
    <3>1. Value(text[k]) = 0
      BY <2>3 DEF Value
    <3>2. text[k] \notin Symbol
      BY <2>3 DEF Symbol, Pad
    <3>3. 0 \in Symbol
      BY DEF Symbol
    <3> QED BY <3>1, <3>2, <3>3
  <2> QED BY <2>1, <2>2, <2>3
<1>5. ASSUME NEW k \in 1 .. Len(text), text[k] \notin Symbol
      PROVE  \/ k = Len(text) /\ Padding(text) >= 1
             \/ k = Len(text) - 1 /\ Padding(text) = 2
  <2>1. \/ text[k] = Pad /\ k = Len(text)
        \/ text[k] = Pad /\ k = Len(text) - 1 /\ text[k + 1] = Pad
    BY <1>5 DEF WellFormed
  <2>2. text # <<>>
    OBVIOUS
  <2>3. CASE k = Len(text)
    BY <2>1, <2>2, <2>3 DEF Padding
  <2>4. CASE k = Len(text) - 1 /\ text[k] = Pad /\ text[k + 1] = Pad
    <3>1. text[Len(text)] = Pad /\ text[Len(text) - 1] = Pad
      BY <1>1, <2>4
    <3> QED BY <2>2, <2>4, <3>1 DEF Padding
  <2> QED BY <2>1, <2>3, <2>4
<1> QED BY <1>1, <1>3, <1>4, <1>5

\* A character that EncodeBase64() took from the alphabet.
LEMMA EncodedSymbol ==
  ASSUME NEW pcm \in Seq(Byte), NEW g \in Nat, NEW p \in 0 .. 3,
         4 * g + p + 1 <= Len(EncodeBase64(pcm)),
         EncodeBase64(pcm)[4 * g + p + 1] \in Symbol
  PROVE  /\ 3 * g + p <= Len(pcm)
         /\ EncodeBase64(pcm)[4 * g + p + 1] = (Block(pcm, g) \div Pow64[p + 1]) % 64
<1> DEFINE k == 4 * g + p + 1
<1>1. Len(EncodeBase64(pcm)) = 4 * ((Len(pcm) + 2) \div 3)
  BY DEF EncodeBase64
<1>2. k \in 1 .. 4 * ((Len(pcm) + 2) \div 3)
  BY <1>1
<1>3. (k - 1) \div 4 = g /\ (k - 1) % 4 = p
  OBVIOUS
<1>4. EncodeBase64(pcm)[k] = IF 3 * g + p > Len(pcm) THEN Pad
                             ELSE (Block(pcm, g) \div Pow64[p + 1]) % 64
  BY <1>2, <1>3 DEF EncodeBase64
<1>5. Pad \notin Symbol
  BY DEF Pad, Symbol
<1> QED BY <1>4, <1>5

LEMMA AtType ==
  ASSUME NEW pcm \in Seq(Byte), NEW i \in Nat \ {0}
  PROVE  At(pcm, i) \in Byte
<1>1. CASE i <= Len(pcm)
  <2>1. pcm[i] \in Byte
    BY <1>1
  <2> QED BY <1>1, <2>1 DEF At
<1>2. CASE ~(i <= Len(pcm))
  BY <1>2 DEF At, Byte
<1> QED BY <1>1, <1>2

LEMMA Thirds ==
  ASSUME NEW j \in Int, j >= 1
  PROVE  \E g \in Nat, r \in 0 .. 2 : g = (j - 1) \div 3 /\ r = (j - 1) % 3
<1>1. (j - 1) \div 3 \in Nat /\ (j - 1) % 3 \in 0 .. 2
  OBVIOUS
<1> QED
  BY <1>1

\* No character of group g became another of the alphabet.
Kept(text, pcm, g) ==
  \A k \in 1 .. Len(text) : (k - 1) \div 4 = g =>
    text[k] = EncodeBase64(pcm)[k] \/ text[k] \notin Symbol

\* Whatever became of the others, the characters of a group that are still those
\* of the audio are decoded into its bytes.
LEMMA DecodedByte ==
  ASSUME NEW pcm \in Seq(Byte), NEW text \in Seq(Char), WellFormed(text),
         Len(text) <= Len(EncodeBase64(pcm)),
         NEW j \in 1 .. 3 * (Len(text) \div 4) - Padding(text),
         Kept(text, pcm, (j - 1) \div 3)
  PROVE  j <= Len(pcm) /\ DecodeBase64(text)[j] = pcm[j]
<1>0. j \in Int /\ j >= 1
  OBVIOUS
<1>1. PICK g \in Nat, r \in 0 .. 2 : g = (j - 1) \div 3 /\ r = (j - 1) % 3
  BY <1>0, Thirds
<1>2. j = 3 * g + r + 1
  BY <1>1
<1>3. /\ Len(text) \in Nat /\ Len(text) % 4 = 0 /\ Padding(text) \in 0 .. 2
      /\ 4 * g + 4 <= Len(text)
  <2>1. Len(text) \in Nat /\ Len(text) % 4 = 0 /\ Padding(text) \in 0 .. 2
    BY WellFormedText
  <2> QED BY <1>2, <2>1
\* The two characters that the byte is taken from.
<1>4. ASSUME NEW p \in {r, r + 1}
      PROVE  /\ text[4 * g + p + 1] \in Symbol
             /\ Value(text[4 * g + p + 1]) = (Block(pcm, g) \div Pow64[p + 1]) % 64
             /\ 3 * g + p <= Len(pcm)
  <2> DEFINE k == 4 * g + p + 1
  <2>1. p \in 0 .. 3 /\ k \in 1 .. Len(text)
    BY <1>3
  <2>2. text[k] \in Symbol
    <3>1. CASE k = Len(text) /\ Padding(text) >= 1
      BY <1>2, <1>3, <3>1
    <3>2. CASE k = Len(text) - 1 /\ Padding(text) = 2
      BY <1>2, <1>3, <3>2
    <3> QED BY <2>1, <3>1, <3>2, WellFormedText
  <2>3. text[k] = EncodeBase64(pcm)[k] /\ Value(text[k]) = text[k]
    <3>1. (k - 1) \div 4 = g
      BY <2>1
    <3>2. Kept(text, pcm, g)
      BY <1>1
    <3>3. text[k] = EncodeBase64(pcm)[k]
      BY <2>1, <2>2, <3>1, <3>2 DEF Kept
    <3> QED BY <2>1, <2>2, <3>3, WellFormedText
  <2>4. k <= Len(EncodeBase64(pcm)) /\ EncodeBase64(pcm)[k] \in Symbol
    <3>1. Len(EncodeBase64(pcm)) \in Nat
      BY DEF EncodeBase64
    <3> QED BY <1>3, <2>1, <2>2, <2>3, <3>1
  <2>5. /\ 3 * g + p <= Len(pcm)
        /\ EncodeBase64(pcm)[k] = (Block(pcm, g) \div Pow64[p + 1]) % 64
    BY <2>1, <2>4, EncodedSymbol
  <2> QED BY <2>2, <2>3, <2>5
<1>5. j <= Len(pcm)
  <2>1. r + 1 \in {r, r + 1}
    OBVIOUS
  <2>2. 3 * g + (r + 1) <= Len(pcm)
    BY <1>4, <2>1
  <2> QED BY <1>2, <2>2
\* The group as a whole.
<1>6. PICK v1 \in Symbol, v2 \in Symbol, v3 \in Symbol, v4 \in Symbol :
        /\ v1 = Value(text[4 * g + 1]) /\ v2 = Value(text[4 * g + 2])
        /\ v3 = Value(text[4 * g + 3]) /\ v4 = Value(text[4 * g + 4])
  <2>1. /\ 4 * g + 1 \in 1 .. Len(text) /\ 4 * g + 2 \in 1 .. Len(text)
        /\ 4 * g + 3 \in 1 .. Len(text) /\ 4 * g + 4 \in 1 .. Len(text)
    BY <1>3
  <2> QED BY <2>1, WellFormedText
<1>7. PICK b1 \in Byte, b2 \in Byte, b3 \in Byte :
        b1 = At(pcm, 3 * g + 1) /\ b2 = At(pcm, 3 * g + 2) /\ b3 = At(pcm, 3 * g + 3)
  <2>2. /\ 3 * g + 1 \in Nat \ {0} /\ 3 * g + 2 \in Nat \ {0}
        /\ 3 * g + 3 \in Nat \ {0}
    BY <1>1
  <2>3. /\ At(pcm, 3 * g + 1) \in Byte /\ At(pcm, 3 * g + 2) \in Byte
        /\ At(pcm, 3 * g + 3) \in Byte
    BY <2>2, AtType
  <2> QED BY <2>3
<1>8. PICK n : n = Block(pcm, g) /\ n = Sum3(b1, b2, b3)
  BY <1>7 DEF Block
<1>9. PICK q : q = Quad(text, g) /\ q = Sum4(v1, v2, v3, v4)
  BY <1>6 DEF Quad
<1>10. DecodeBase64(text)[j] = (q \div Pow256[r + 1]) % 256
  BY <1>1, <1>9 DEF DecodeBase64
<1>11. pcm[j] = At(pcm, 3 * g + r + 1)
  BY <1>2, <1>5 DEF At
<1>12. /\ /\ v1 = (n \div Pow64[1]) % 64 /\ v2 = (n \div Pow64[2]) % 64
          => (q \div Pow256[1]) % 256 = b1
       /\ /\ v2 = (n \div Pow64[2]) % 64 /\ v3 = (n \div Pow64[3]) % 64
          => (q \div Pow256[2]) % 256 = b2
       /\ /\ v3 = (n \div Pow64[3]) % 64 /\ v4 = (n \div Pow64[4]) % 64
          => (q \div Pow256[3]) % 256 = b3
  <2>1. /\ b1 \in Byte /\ b2 \in Byte /\ b3 \in Byte
        /\ v1 \in Symbol /\ v2 \in Symbol /\ v3 \in Symbol /\ v4 \in Symbol
    BY <1>6, <1>7
  <2> QED BY <1>8, <1>9, <2>1, SharedByte
<1>13. ASSUME NEW p \in {r, r + 1}
       PROVE  Value(text[4 * g + p + 1]) = (n \div Pow64[p + 1]) % 64
  BY <1>4, <1>8
<1>14. CASE r = 0
  <2>1. v1 = (n \div Pow64[1]) % 64 /\ v2 = (n \div Pow64[2]) % 64
    BY <1>1, <1>6, <1>13, <1>14
  <2>2. DecodeBase64(text)[j] = b1
    BY <1>10, <1>12, <1>14, <2>1
  <2> QED BY <1>1, <1>5, <1>7, <1>11, <1>14, <2>2
<1>15. CASE r = 1
  <2>1. v2 = (n \div Pow64[2]) % 64 /\ v3 = (n \div Pow64[3]) % 64
    BY <1>1, <1>6, <1>13, <1>15
  <2>2. DecodeBase64(text)[j] = b2
    BY <1>10, <1>12, <1>15, <2>1
  <2> QED BY <1>1, <1>5, <1>7, <1>11, <1>15, <2>2
<1>16. CASE r = 2
  <2>1. v3 = (n \div Pow64[3]) % 64 /\ v4 = (n \div Pow64[4]) % 64
    BY <1>1, <1>6, <1>13, <1>16
  <2>2. DecodeBase64(text)[j] = b3
    BY <1>10, <1>12, <1>16, <2>1
  <2>3. pcm[j] = b3
    <3>1. 3 * g + r + 1 = 3 * g + 3
      BY <1>1, <1>16
    <3> QED BY <1>7, <1>11, <3>1
  <2> QED BY <1>5, <2>2, <2>3
<1> QED BY <1>1, <1>14, <1>15, <1>16

\* The text of undamaged audio is well formed and has all of it.
LEMMA EncodedWhole ==
  ASSUME NEW pcm \in Seq(Byte)
  PROVE  LET text == EncodeBase64(pcm)
         IN  /\ text \in Seq(Char) /\ WellFormed(text)
             /\ 3 * (Len(text) \div 4) - Padding(text) = Len(pcm)
<1> DEFINE text   == EncodeBase64(pcm)
           groups == (Len(pcm) + 2) \div 3
           last(g, p) == 3 * g + p > Len(pcm)
           tail(k) == \/ k = Len(text) /\ 3 * groups > Len(pcm)
                      \/ k = Len(text) - 1 /\ 3 * groups = Len(pcm) + 2
<1>1. /\ Len(pcm) \in Nat /\ groups \in Nat
      /\ Len(pcm) <= 3 * groups /\ 3 * groups <= Len(pcm) + 2
  OBVIOUS
<1>2. Len(text) = 4 * groups
  BY DEF EncodeBase64
<1>3. ASSUME NEW k \in 1 .. Len(text)
      PROVE  /\ text[k] \in Char
             /\ text[k] \notin Symbol <=> last((k - 1) \div 4, (k - 1) % 4)
             /\ text[k] \notin Symbol => text[k] = Pad
  <2> DEFINE g == (k - 1) \div 4
             p == (k - 1) % 4
             v == (Block(pcm, g) \div Pow64[p + 1]) % 64
  <2>1. text[k] = IF last(g, p) THEN Pad ELSE v
    BY <1>2 DEF EncodeBase64
  <2>2. v \in Symbol
    <3>1. g \in Nat /\ p + 1 \in 1 .. 4
      OBVIOUS
    <3>2. /\ At(pcm, 3 * g + 1) \in Byte /\ At(pcm, 3 * g + 2) \in Byte
          /\ At(pcm, 3 * g + 3) \in Byte
      <4> HIDE DEF g
      <4>1. /\ 3 * g + 1 \in Nat \ {0} /\ 3 * g + 2 \in Nat \ {0}
            /\ 3 * g + 3 \in Nat \ {0}
        BY <3>1
      <4> QED BY <4>1, AtType
    <3>3. Block(pcm, g) \in Int
      <4>1. \A b1, b2, b3 \in Byte : Sum3(b1, b2, b3) \in Int
        BY DEF Sum3, Byte
      <4> QED BY <3>2, <4>1 DEF Block
    <3>4. Pow64[p + 1] \in {1, 64, 4096, 262144}
      BY <3>1 DEF Pow64
    <3>5. \A n \in Int, d \in {1, 64, 4096, 262144} : (n \div d) % 64 \in Symbol
      BY DEF Symbol
    <3> HIDE DEF g, p
    <3> QED BY <3>3, <3>4, <3>5
  <2>3. Pad \in Char /\ Pad \notin Symbol /\ Symbol \subseteq Char
    BY DEF Pad, Char, Symbol
  <2> QED BY <2>1, <2>2, <2>3
<1>4. text \in Seq(Char)
  <2>1. 4 * groups \in Nat
    BY <1>1
  <2>2. text = [k \in 1 .. 4 * groups |-> text[k]]
    BY DEF EncodeBase64
  <2>3. text \in [1 .. 4 * groups -> Char]
    BY <1>2, <1>3, <2>2
  <2> QED BY <2>1, <2>3, SeqDef
\* Padding stands in the last group, at its end.
<1>5. ASSUME NEW k \in 1 .. Len(text)
      PROVE  last((k - 1) \div 4, (k - 1) % 4) <=> tail(k)
  <2> DEFINE g == (k - 1) \div 4
             p == (k - 1) % 4
  <2>1. /\ g \in Nat /\ p \in 0 .. 3 /\ k = 4 * g + p + 1
        /\ g + 1 <= groups
    BY <1>1, <1>2
  <2> HIDE DEF g, p
  <2>2. 3 * g + p > Len(pcm) <=>
               \/ k = Len(text) /\ 3 * groups > Len(pcm)
               \/ k = Len(text) - 1 /\ 3 * groups = Len(pcm) + 2
    <3> HIDE DEF groups, text
    <3>1. CASE g + 1 < groups
      BY <1>1, <1>2, <2>1, <3>1
    <3>2. CASE g + 1 = groups
      BY <1>1, <1>2, <2>1, <3>2
    <3> QED BY <1>1, <2>1, <3>1, <3>2
  <2> QED BY <2>2 DEF g, p
<1> HIDE DEF last, tail
<1>6. ASSUME NEW k \in 1 .. Len(text)
      PROVE  /\ text[k] \notin Symbol => text[k] = Pad
             /\ text[k] = Pad <=> tail(k)
  <2>1. Pad \notin Symbol
    BY DEF Pad, Symbol
  <2>2. text[k] = Pad <=> last((k - 1) \div 4, (k - 1) % 4)
    BY <1>3, <2>1
  <2>3. text[k] \notin Symbol => text[k] = Pad
    BY <1>3
  <2> QED BY <1>5, <2>2, <2>3
<1> HIDE DEF text, groups
<1>7. WellFormed(text)
  <2>1. Len(text) % 4 = 0
    BY <1>1, <1>2
  <2>2. ASSUME NEW k \in 1 .. Len(text)
        PROVE  \/ text[k] \in Symbol
               \/ text[k] = Pad /\ k = Len(text)
               \/ text[k] = Pad /\ k = Len(text) - 1 /\ text[k + 1] = Pad
    <3>1. CASE k = Len(text)
      BY <1>6, <3>1 DEF tail
    <3>2. CASE k = Len(text) - 1
      <4>1. k + 1 \in 1 .. Len(text) /\ k + 1 = Len(text)
        BY <1>1, <1>2, <3>2
      <4>2. text[k] = Pad => 3 * groups > Len(pcm)
        BY <1>1, <1>2, <1>6, <3>2 DEF tail
      <4>3. text[k] = Pad => text[k + 1] = Pad
        <5>1. tail(k + 1) <=> 3 * groups > Len(pcm)
          BY <1>1, <1>2, <4>1 DEF tail
        <5> QED BY <1>6, <4>1, <4>2, <5>1
      <4> QED BY <1>6, <3>2, <4>3
    <3>3. CASE k # Len(text) /\ k # Len(text) - 1
      BY <1>6, <3>3 DEF tail
    <3> QED BY <3>1, <3>2, <3>3
  <2> QED BY <2>1, <2>2 DEF WellFormed
<1>8. 3 * (Len(text) \div 4) - Padding(text) = Len(pcm)
  <2>1. CASE groups = 0
    <3>1. text = <<>>
      BY <1>2, <1>4, <2>1
    <3> QED BY <1>1, <1>2, <2>1, <3>1 DEF Padding
  <2>2. CASE groups > 0
    <3>1. Len(text) \in 1 .. Len(text) /\ Len(text) - 1 \in 1 .. Len(text) /\ text # <<>>
      BY <1>1, <1>2, <2>2
    <3>2. /\ text[Len(text)] = Pad <=> 3 * groups > Len(pcm)
          /\ text[Len(text) - 1] = Pad <=> 3 * groups = Len(pcm) + 2
      <4>1. text[Len(text)] = Pad <=> tail(Len(text))
        BY <1>6, <3>1
      <4>2. text[Len(text) - 1] = Pad <=> tail(Len(text) - 1)
        BY <1>6, <3>1
      <4>3. Len(text) # Len(text) - 1
        BY <1>1, <1>2
      <4>4. tail(Len(text)) <=> 3 * groups > Len(pcm)
        BY <4>3 DEF tail
      <4>5. tail(Len(text) - 1) <=> 3 * groups = Len(pcm) + 2
        BY <4>3 DEF tail
      <4> QED BY <4>1, <4>2, <4>4, <4>5
    <3>3. Padding(text) = 3 * groups - Len(pcm)
      BY <1>1, <3>1, <3>2 DEF Padding
    <3>4. Len(text) \div 4 = groups
      BY <1>1, <1>2
    <3> QED BY <1>1, <3>3, <3>4
  <2> QED BY <1>1, <2>1, <2>2
<1> QED BY <1>4, <1>7, <1>8 DEF text

-----------------------------------------------------------------------------
(* Induction.  A set of numbers stands for what is claimed of them.        *)

LEMMA BelowIsWellFounded ==
  \E R : /\ IsWellFoundedOn(R, Nat)
         /\ \A m, n \in Nat : m < n => <<m, n>> \in R
<1> DEFINE R == {p \in Nat \X Nat : p[1] < p[2]}
<1>1. IsWellFoundedOn(R, Nat)
  BY NatLessThanWellFounded DEF OpToRel
<1>2. \A m, n \in Nat : m < n => <<m, n>> \in R
  OBVIOUS
<1> QED
  BY <1>1, <1>2

LEMMA LeastExists ==
  ASSUME NEW S \in SUBSET Nat, S # {}
  PROVE  \E m \in S : \A k \in S : m <= k
<1>1. \A R : IsWellFoundedOn(R, Nat) =>
               \E m \in S : \A k \in S : ~ (<<k, m>> \in R)
  <2> TAKE R
  <2> HAVE IsWellFoundedOn(R, Nat)
  <2> QED
    BY WFMin
<1>2. PICK m \in S : \A k \in S : ~ (k < m)
  BY <1>1, BelowIsWellFounded
<1> QED
  BY <1>2

\* What holds of 0, and of each number up to a limit if of the one before,
\* holds up to that limit.
LEMMA UpTo ==
  ASSUME NEW N \in Nat, NEW S, 0 \in S,
         \A i \in 1 .. N : i - 1 \in S => i \in S
  PROVE  \A i \in 0 .. N : i \in S
<1> DEFINE T == {i \in 0 .. N : i \notin S}
<1> SUFFICES ASSUME T # {} PROVE FALSE
  OBVIOUS
<1>1. T \in SUBSET Nat
  OBVIOUS
<1> HIDE DEF T
<1>2. PICK m \in T : \A k \in T : m <= k
  BY <1>1, LeastExists
<1>3. m \in 1 .. N /\ m \notin S /\ m - 1 \notin T
  BY <1>2 DEF T
<1> QED
  BY <1>3 DEF T

\* f starts with `first', and goes on from i - 1 to i as step[i] says.
Recursive(f, N, V, first, step) ==
  /\ f \in [0 .. N -> V] /\ f[0] = first
  /\ \A i \in 1 .. N : f[i] = step[i][f[i - 1]]

Steps(N, V, step) == step \in [1 .. N -> [V -> V]]

LEMMA RecursionExists ==
  ASSUME NEW N \in Nat, NEW V, NEW first \in V, NEW step, Steps(N, V, step)
  PROVE  \E f : Recursive(f, N, V, first, step)
<1> DEFINE Upto(k, f) == f[0] = first /\ \A i \in 1 .. k : f[i] = step[i][f[i - 1]]
           S == {k \in 0 .. N : \E f \in [0 .. k -> V] : Upto(k, f)}
<1>1. 0 \in S
  <2> DEFINE g == [i \in 0 .. 0 |-> first]
  <2>1. g \in [0 .. 0 -> V] /\ g[0] = first
    OBVIOUS
  <2> HIDE DEF g
  <2> QED
    BY <2>1
<1>2. ASSUME NEW k \in 1 .. N, k - 1 \in S
      PROVE  k \in S
  <2>1. PICK f \in [0 .. k - 1 -> V] : Upto(k - 1, f)
    BY <1>2
  <2> DEFINE g == [i \in 0 .. k |-> IF i = k THEN step[k][f[k - 1]] ELSE f[i]]
  <2>2. step[k][f[k - 1]] \in V
    <3>1. f[k - 1] \in V
      BY <2>1
    <3> QED
      BY <3>1 DEF Steps
  <2>3. g \in [0 .. k -> V]
    BY <2>2
  <2>4. \A i \in 0 .. k - 1 : g[i] = f[i]
    OBVIOUS
  <2>5. g[k] = step[k][f[k - 1]]
    OBVIOUS
  <2> HIDE DEF g
  <2>6. Upto(k, g)
    <3>1. g[0] = first
      BY <2>1, <2>4
    <3>2. ASSUME NEW i \in 1 .. k, i # k
          PROVE  g[i] = step[i][g[i - 1]]
      BY <2>1, <2>4, <3>2
    <3>3. g[k] = step[k][g[k - 1]]
      BY <2>4, <2>5
    <3> QED
      BY <3>1, <3>2, <3>3
  <2> QED
    BY <2>3, <2>6
<1> HIDE DEF S
<1>3. N \in S
  BY <1>1, <1>2, UpTo
<1> QED
  BY <1>3 DEF S, Recursive

-----------------------------------------------------------------------------
(* The number in a text.                                                   *)

LEMMA ParsedNumber ==
  ASSUME NEW text \in Seq(Byte), IsNumber(text)
  PROVE \E p \in [0 .. Len(text) -> 0 .. NotANumber] :
           /\ p[0] = 0 /\ ParseUnsigned(text, 255) = p[Len(text)]
           /\ \A i \in 1 .. Len(text) :
                p[i] = IF p[i - 1] = NotANumber \/ p[i - 1] > (255 - (text[i] - 48)) \div 10
                         THEN NotANumber ELSE p[i - 1] * 10 + (text[i] - 48)
<1> DEFINE Step(n, digit) == IF n = NotANumber \/ n > (255 - digit) \div 10
                               THEN NotANumber ELSE n * 10 + digit
           parsed == CHOOSE g : g = [i \in 0 .. Len(text) |-> IF i = 0 THEN 0 ELSE Step(g[i - 1], text[i] - 48)]
<1>1. ParseUnsigned(text, 255) = parsed[Len(text)]
  BY DEF ParseUnsigned
<1> HIDE DEF parsed
<1> DEFINE V == 0 .. NotANumber
           N == Len(text)
           step == [i \in 1 .. N |-> [v \in V |-> Step(v, text[i] - 48)]]
<1>2. N \in Nat /\ \A i \in 1 .. N : text[i] - 48 \in 0 .. 9
  BY DEF IsNumber
<1>3. \A n \in V, d \in 0 .. 9 : Step(n, d) \in V
  <2> SUFFICES ASSUME NEW n \in V, NEW d \in 0 .. 9, n # NotANumber, n <= (255 - d) \div 10
               PROVE  n * 10 + d \in V
    BY DEF NotANumber
  <2> QED
    BY DEF NotANumber
<1> HIDE DEF Step
<1>4. 0 \in V
  BY DEF NotANumber
<1> HIDE DEF V, N
<1>5. Steps(N, V, step)
  BY <1>2, <1>3 DEF Steps
<1>6. PICK f : Recursive(f, N, V, 0, step)
  <2> HIDE DEF step
  <2> QED
    BY <1>2, <1>4, <1>5, RecursionExists
<1>7. f = [i \in 0 .. N |-> IF i = 0 THEN 0 ELSE Step(f[i - 1], text[i] - 48)]
  <2>1. ASSUME NEW i \in 1 .. N
        PROVE  f[i] = Step(f[i - 1], text[i] - 48)
    <3>1. f[i - 1] \in V /\ f[i] = step[i][f[i - 1]]
      BY <1>2, <1>6 DEF Recursive
    <3> QED
      BY <3>1
  <2> QED
    BY <1>2, <1>6, <2>1 DEF Recursive
<1>8. parsed = [i \in 0 .. N |-> IF i = 0 THEN 0 ELSE Step(parsed[i - 1], text[i] - 48)]
  BY <1>7 DEF parsed, N
<1>9. parsed[0] = 0 /\ \A i \in 1 .. N : parsed[i] = Step(parsed[i - 1], text[i] - 48)
  BY <1>2, <1>8
<1>10. \A i \in 0 .. N : parsed[i] \in V
  <2> DEFINE S == {i \in 0 .. N : parsed[i] \in V}
  <2>1. 0 \in S
    BY <1>2, <1>4, <1>9
  <2>2. ASSUME NEW i \in 1 .. N, i - 1 \in S
        PROVE  i \in S
    <3>1. parsed[i - 1] \in V /\ parsed[i] = Step(parsed[i - 1], text[i] - 48)
      BY <1>9, <2>2
    <3>2. text[i] - 48 \in 0 .. 9
      BY <1>2
    <3>3. parsed[i] \in V
      BY <1>3, <3>1, <3>2
    <3> QED
      BY <1>2, <3>3
  <2> HIDE DEF S
  <2>3. \A i \in 0 .. N : i \in S
    BY <1>2, <2>1, <2>2, UpTo
  <2> QED
    BY <2>3 DEF S
<1>11. parsed \in [0 .. N -> V]
  BY <1>8, <1>10
<1> QED
  BY <1>1, <1>9, <1>11 DEF Step, N, V

LEMMA NotEmpty ==
  ASSUME NEW text, Len(text) # 0
  PROVE  text # <<>>
<1>1. Len(<<>>) = 0
  OBVIOUS
<1> QED
  BY <1>1

LEMMA ParsedInRange ==
  ASSUME NEW text \in Seq(Byte)
  PROVE  ParseUnsigned(text, 255) \in 0 .. NotANumber
<1>1. CASE IsNumber(text)
  <2>1. Len(text) \in Nat
    OBVIOUS
  <2> QED
    BY <1>1, <2>1, ParsedNumber
<1>2. CASE ~ IsNumber(text)
  BY <1>2 DEF ParseUnsigned, NotANumber
<1> QED
  BY <1>1, <1>2

\* What std::to_string() writes is read as the number it was.
LEMMA DigitsParsed ==
  ASSUME NEW v \in 0 .. 255
  PROVE  /\ Digits(v) \in Seq(Byte) /\ IsNumber(Digits(v))
         /\ Len(Digits(v)) = IF v < 10 THEN 1 ELSE IF v < 100 THEN 2 ELSE 3
         /\ ParseUnsigned(Digits(v), 255) = v
<1> DEFINE text == Digits(v)
           Digit(n, d) == IF n = NotANumber \/ n > (255 - d) \div 10
                           THEN NotANumber ELSE n * 10 + d
<1>1. CASE v < 10
  <2>1. text \in Seq(Byte) /\ Len(text) = 1 /\ text[1] = 48 + v
    BY <1>1 DEF Digits, Byte
  <2> HIDE DEF text
  <2>2. IsNumber(text)
    <3>1. \A i \in 1 .. 1 : text[i] \in 48 .. 57
      BY <1>1, <2>1
    <3>2. text # <<>>
      BY <2>1, NotEmpty
    <3> QED
      BY <2>1, <3>1, <3>2 DEF IsNumber
  <2>3. PICK p : p[0] = 0 /\ ParseUnsigned(text, 255) = p[1] /\ p[1] = Digit(p[0], v)
    BY <1>1, <2>1, <2>2, ParsedNumber
  <2>4. Digit(0, v) = v
    BY <1>1 DEF NotANumber
  <2> QED
    BY <1>1, <2>1, <2>2, <2>3, <2>4 DEF text
<1>2. CASE v >= 10 /\ v < 100
  <2> DEFINE a == v \div 10
             b == v % 10
  <2>0. a \in 1 .. 9 /\ b \in 0 .. 9 /\ v = 10 * a + b
    BY <1>2
  <2>1. text \in Seq(Byte) /\ Len(text) = 2 /\ text[1] = 48 + a /\ text[2] = 48 + b
    <3>1. text = <<48 + a, 48 + b>>
      BY <1>2 DEF Digits
    <3> HIDE DEF text, a, b
    <3> QED
      BY <2>0, <3>1 DEF Byte
  <2>2. IsNumber(text)
    <3> HIDE DEF text, a, b
    <3>1. \A i \in 1 .. 2 : text[i] \in 48 .. 57
      BY <2>0, <2>1
    <3>2. text # <<>>
      BY <2>1, NotEmpty
    <3> QED
      BY <2>1, <3>1, <3>2 DEF IsNumber
  <2> HIDE DEF text, a, b
  <2>3. PICK p : /\ p[0] = 0 /\ ParseUnsigned(text, 255) = p[2]
                 /\ p[1] = Digit(p[0], a) /\ p[2] = Digit(p[1], b)
    <3>1. text[1] - 48 = a /\ text[2] - 48 = b
      BY <2>0, <2>1
    <3>2. 1 \in 1 .. Len(text) /\ 2 \in 1 .. Len(text) /\ 1 - 1 = 0 /\ 2 - 1 = 1
      BY <2>1
    <3>p. PICK p \in [0 .. Len(text) -> 0 .. NotANumber] :
            /\ p[0] = 0 /\ ParseUnsigned(text, 255) = p[Len(text)]
            /\ \A i \in 1 .. Len(text) : p[i] = Digit(p[i - 1], text[i] - 48)
      BY <2>1, <2>2, ParsedNumber
    <3> HIDE DEF Digit
    <3> QED
      BY <2>1, <3>p, <3>1, <3>2
  <2>4. Digit(0, a) = a /\ Digit(a, b) = v
    BY <2>0 DEF NotANumber
  <2> QED
    BY <1>2, <2>1, <2>2, <2>3, <2>4 DEF text
<1>3. CASE v >= 100
  <2> DEFINE a == v \div 100
             b == (v \div 10) % 10
             c == v % 10
  <2>0. a \in 1 .. 2 /\ b \in 0 .. 9 /\ c \in 0 .. 9 /\ v = 100 * a + 10 * b + c
    BY <1>3
  <2>1. /\ text \in Seq(Byte) /\ Len(text) = 3
        /\ text[1] = 48 + a /\ text[2] = 48 + b /\ text[3] = 48 + c
    <3>1. text = <<48 + a, 48 + b, 48 + c>>
      BY <1>3 DEF Digits
    <3> HIDE DEF text, a, b, c
    <3> QED
      BY <2>0, <3>1 DEF Byte
  <2>2. IsNumber(text)
    <3> HIDE DEF text, a, b, c
    <3>1. \A i \in 1 .. 3 : text[i] \in 48 .. 57
      BY <2>0, <2>1
    <3>2. text # <<>>
      BY <2>1, NotEmpty
    <3> QED
      BY <2>1, <3>1, <3>2 DEF IsNumber
  <2> HIDE DEF text, a, b, c
  <2>3. PICK p : /\ p[0] = 0 /\ ParseUnsigned(text, 255) = p[3]
                 /\ p[1] = Digit(p[0], a) /\ p[2] = Digit(p[1], b) /\ p[3] = Digit(p[2], c)
    <3>1. text[1] - 48 = a /\ text[2] - 48 = b /\ text[3] - 48 = c
      BY <2>0, <2>1
    <3>2. /\ 1 \in 1 .. Len(text) /\ 2 \in 1 .. Len(text) /\ 3 \in 1 .. Len(text)
          /\ 1 - 1 = 0 /\ 2 - 1 = 1 /\ 3 - 1 = 2
      BY <2>1
    <3>p. PICK p \in [0 .. Len(text) -> 0 .. NotANumber] :
            /\ p[0] = 0 /\ ParseUnsigned(text, 255) = p[Len(text)]
            /\ \A i \in 1 .. Len(text) : p[i] = Digit(p[i - 1], text[i] - 48)
      BY <2>1, <2>2, ParsedNumber
    <3> HIDE DEF Digit
    <3> QED
      BY <2>1, <3>p, <3>1, <3>2
  <2>4. Digit(0, a) = a /\ Digit(a, b) = 10 * a + b /\ Digit(10 * a + b, c) = v
    BY <2>0 DEF NotANumber
  <2> QED
    BY <1>3, <2>1, <2>2, <2>3, <2>4 DEF text
<1> QED
  BY <1>1, <1>2, <1>3

\* No number takes more digits than it was read from.
LEMMA DigitsAreShort ==
  ASSUME NEW text \in Seq(Byte), ParseUnsigned(text, 255) # NotANumber
  PROVE  /\ ParseUnsigned(text, 255) \in 0 .. 255
         /\ Len(Digits(ParseUnsigned(text, 255))) <= Len(text)
<1> DEFINE v == ParseUnsigned(text, 255)
<1>1. IsNumber(text)
  BY DEF ParseUnsigned
<1>2. v \in 0 .. 255
  BY ParsedInRange DEF NotANumber
<1>3. Len(text) \in Nat /\ Len(text) # 0 /\ \A i \in 1 .. Len(text) : text[i] - 48 \in 0 .. 9
  BY <1>1 DEF IsNumber
<1>4. PICK p \in [0 .. Len(text) -> 0 .. NotANumber] :
           /\ p[0] = 0 /\ ParseUnsigned(text, 255) = p[Len(text)]
           /\ \A i \in 1 .. Len(text) :
                p[i] = IF p[i - 1] = NotANumber \/ p[i - 1] > (255 - (text[i] - 48)) \div 10
                         THEN NotANumber ELSE p[i - 1] * 10 + (text[i] - 48)
  BY <1>1, ParsedNumber
<1>5. Len(text) = 1 => v < 10
  <2> SUFFICES ASSUME Len(text) = 1 PROVE v < 10
    OBVIOUS
  <2>1. 1 \in 1 .. Len(text) /\ 1 - 1 = 0
    OBVIOUS
  <2> QED
    BY <1>3, <1>4, <2>1
<1>6. Len(text) = 2 => v < 100
  <2> SUFFICES ASSUME Len(text) = 2 PROVE v < 100
    OBVIOUS
  <2>1. 1 \in 1 .. Len(text) /\ 1 - 1 = 0 /\ 2 \in 1 .. Len(text) /\ 2 - 1 = 1
    OBVIOUS
  <2>2. p[1] = NotANumber \/ p[1] = text[1] - 48
    BY <1>3, <1>4, <2>1
  <2>3. p[2] = NotANumber \/ (p[2] = p[1] * 10 + (text[2] - 48) /\ p[1] # NotANumber)
    BY <1>4, <2>1
  <2>4. v = p[2] /\ text[1] - 48 \in 0 .. 9 /\ text[2] - 48 \in 0 .. 9
    BY <1>3, <1>4, <2>1
  <2>5. v # NotANumber
    OBVIOUS
  <2> HIDE DEF v
  <2>6. v = (text[1] - 48) * 10 + (text[2] - 48)
    BY <2>2, <2>3, <2>4, <2>5
  <2>7. PICK a \in 0 .. 9, b \in 0 .. 9 : text[1] - 48 = a /\ text[2] - 48 = b
    BY <2>4
  <2>8. v = a * 10 + b
    BY <2>6, <2>7
  <2> QED
    BY <2>8
<1>7. Len(Digits(v)) = IF v < 10 THEN 1 ELSE IF v < 100 THEN 2 ELSE 3
  BY <1>2, DigitsParsed
<1> HIDE DEF v
<1> QED
  BY <1>2, <1>3, <1>5, <1>6, <1>7 DEF v

\* A number that is read is the one that is written.
LEMMA ParsedIsWritten ==
  ASSUME NEW text \in Seq(Byte), ParseUnsigned(text, 255) # NotANumber
  PROVE  IsNumber(text) /\ ParseUnsigned(text, 255) = NumberIn(text)
<1> DEFINE N == Len(text)
           number == CHOOSE g : g = [i \in 0 .. N |-> IF i = 0 THEN 0 ELSE g[i - 1] * 10 + (text[i] - 48)]
           step == [i \in 1 .. N |-> [n \in Nat |-> n * 10 + (text[i] - 48)]]
<1>0. IsNumber(text)
  BY DEF ParseUnsigned
<1>1. NumberIn(text) = number[N]
  BY DEF NumberIn
<1>2. N \in Nat /\ \A i \in 1 .. N : text[i] - 48 \in Nat
  BY <1>0 DEF IsNumber
<1> HIDE DEF number, N
<1>3. Steps(N, Nat, step)
  <2>1. \A n, d \in Nat : n * 10 + d \in Nat
    OBVIOUS
  <2> QED
    BY <1>2, <2>1 DEF Steps
<1>4. PICK f : Recursive(f, N, Nat, 0, step)
  <2> HIDE DEF step
  <2> QED
    BY <1>2, <1>3, RecursionExists
<1>5. f = [i \in 0 .. N |-> IF i = 0 THEN 0 ELSE f[i - 1] * 10 + (text[i] - 48)]
  <2>1. ASSUME NEW i \in 1 .. N
        PROVE  f[i] = f[i - 1] * 10 + (text[i] - 48)
    <3>1. f[i - 1] \in Nat /\ f[i] = step[i][f[i - 1]]
      <4>1. i - 1 \in 0 .. N
        BY <1>2
      <4> HIDE DEF step
      <4>2. f \in [0 .. N -> Nat] /\ f[i] = step[i][f[i - 1]]
        BY <1>4 DEF Recursive
      <4> QED
        BY <4>1, <4>2
    <3> QED
      BY <3>1
  <2> QED
    BY <1>2, <1>4, <2>1 DEF Recursive
<1>6. number = [i \in 0 .. N |-> IF i = 0 THEN 0 ELSE number[i - 1] * 10 + (text[i] - 48)]
  BY <1>5 DEF number
<1>7. PICK p \in [0 .. N -> 0 .. NotANumber] :
           /\ p[0] = 0 /\ ParseUnsigned(text, 255) = p[N]
           /\ \A i \in 1 .. N :
                p[i] = IF p[i - 1] = NotANumber \/ p[i - 1] > (255 - (text[i] - 48)) \div 10
                         THEN NotANumber ELSE p[i - 1] * 10 + (text[i] - 48)
  BY <1>0, ParsedNumber DEF N
<1> DEFINE S == {i \in 0 .. N : p[i] # NotANumber => p[i] = number[i]}
<1>8. 0 \in S
  BY <1>2, <1>6, <1>7
<1>9. ASSUME NEW i \in 1 .. N, i - 1 \in S
      PROVE  i \in S
  <2> SUFFICES ASSUME p[i] # NotANumber
               PROVE  p[i] = number[i]
    OBVIOUS
  <2>1. p[i - 1] # NotANumber /\ p[i] = p[i - 1] * 10 + (text[i] - 48)
    BY <1>7
  <2>2. number[i] = number[i - 1] * 10 + (text[i] - 48)
    BY <1>2, <1>6
  <2> QED
    BY <1>9, <2>1, <2>2
<1> HIDE DEF S
<1>10. \A i \in 0 .. N : i \in S
  BY <1>2, <1>8, <1>9, UpTo
<1>11. p[N] = number[N]
  BY <1>2, <1>7, <1>10 DEF S
<1> QED
  BY <1>0, <1>1, <1>7, <1>11

LEMMA Increasing ==
  ASSUME NEW n \in Nat, NEW o \in [0 .. n -> Nat],
         \A i \in 1 .. n : o[i - 1] <= o[i]
  PROVE  \A i, j \in 0 .. n : i <= j => o[i] <= o[j]
<1> SUFFICES ASSUME NEW i \in 0 .. n, NEW j \in i .. n
             PROVE  o[i] <= o[j]
  OBVIOUS
<1> DEFINE S == {k \in 0 .. n - i : o[i] <= o[i + k]}
<1>1. 0 \in S
  OBVIOUS
<1>2. ASSUME NEW k \in 1 .. n - i, k - 1 \in S
      PROVE  k \in S
  <2>1. i + k \in 1 .. n /\ i + (k - 1) \in 0 .. n /\ (i + k) - 1 = i + (k - 1)
    OBVIOUS
  <2>2. o[i + (k - 1)] <= o[i + k] /\ o[i] <= o[i + (k - 1)]
    BY <1>2, <2>1
  <2>3. o[i + (k - 1)] \in Nat /\ o[i + k] \in Nat /\ o[i] \in Nat
    BY <2>1
  <2> QED
    BY <2>2, <2>3
<1> HIDE DEF S
<1>3. n - i \in Nat /\ j - i \in 0 .. n - i /\ i + (j - i) = j
  OBVIOUS
<1>4. \A k \in 0 .. n - i : k \in S
  BY <1>1, <1>2, <1>3, UpTo
<1> QED
  BY <1>3, <1>4 DEF S

-----------------------------------------------------------------------------
(* Packets.                                                                *)

\* Where the sequences that are put one after the other begin.
IsFlat(u, E, n, fields) ==
  \E off \in [0 .. n -> Nat] :
     /\ off[0] = 0 /\ \A i \in 1 .. n : off[i] = off[i - 1] + Len(fields[i])
     /\ u \in Seq(E) /\ Len(u) = off[n]
     /\ \A i \in 1 .. n : \A j \in 1 .. Len(fields[i]) : u[off[i - 1] + j] = fields[i][j]

LEMMA Flattened ==
  ASSUME NEW E, NEW n \in Nat \ {0}, NEW fields \in [1 .. n -> Seq(E)]
  PROVE  IsFlat(FlattenSeq(fields), E, n, fields)
<1> DEFINE flatten == CHOOSE g : g = [i \in 1 .. n |->
                        IF i = 1 THEN fields[i] ELSE g[i - 1] \o fields[i]]
           V == Seq(E)
           N == n - 1
           step == [i \in 1 .. N |-> [s \in V |-> s \o fields[i + 1]]]
<1>0. Len(fields) = n /\ N \in Nat
  OBVIOUS
<1>1. FlattenSeq(fields) = flatten[n]
  BY <1>0 DEF FlattenSeq
<1>2. \A s, t \in V : s \o t \in V /\ Len(s \o t) = Len(s) + Len(t)
                      /\ (\A j \in 1 .. Len(s) : (s \o t)[j] = s[j])
                      /\ (\A j \in 1 .. Len(t) : (s \o t)[Len(s) + j] = t[j])
  OBVIOUS
<1> HIDE DEF flatten
<1>3. \A i \in 0 .. N : i + 1 \in 1 .. n /\ fields[i + 1] \in V
  OBVIOUS
<1> HIDE DEF V
<1>4. Steps(N, V, step)
  BY <1>2, <1>3 DEF Steps
<1>5. PICK f : Recursive(f, N, V, fields[1], step)
  <2>1. fields[1] \in V
    <3>1. 1 \in 1 .. n
      OBVIOUS
    <3> QED
      BY <3>1 DEF V
  <2> HIDE DEF step, N
  <2> QED
    BY <1>0, <1>4, <2>1, RecursionExists
<1> DEFINE g == [i \in 1 .. n |-> f[i - 1]]
<1>6. ASSUME NEW i \in 2 .. n
      PROVE  g[i] = g[i - 1] \o fields[i]
  <2>1. i - 1 \in 1 .. N /\ (i - 1) + 1 = i /\ i - 1 \in 1 .. n
    OBVIOUS
  <2>2. f[(i - 1) - 1] \in V
    BY <2>1, <1>5 DEF Recursive
  <2>3. f[i - 1] = step[i - 1][f[(i - 1) - 1]]
    BY <2>1, <1>5 DEF Recursive
  <2>4. step[i - 1][f[(i - 1) - 1]] = f[(i - 1) - 1] \o fields[i]
    BY <2>1, <2>2
  <2>5. g[i] = f[i - 1] /\ g[i - 1] = f[(i - 1) - 1]
    BY <2>1
  <2> QED
    BY <2>3, <2>4, <2>5
<1>7. \A i \in 1 .. n : g[i] \in V
  BY <1>5 DEF Recursive
<1>8. g[1] = fields[1]
  BY <1>5 DEF Recursive
<1> HIDE DEF g
<1>9. g = [i \in 1 .. n |-> IF i = 1 THEN fields[i] ELSE g[i - 1] \o fields[i]]
  <2>1. g = [i \in 1 .. n |-> g[i]]
    BY DEF g
  <2>2. \A i \in 1 .. n : g[i] = IF i = 1 THEN fields[i] ELSE g[i - 1] \o fields[i]
    <3> SUFFICES ASSUME NEW i \in 1 .. n
                 PROVE  g[i] = IF i = 1 THEN fields[i] ELSE g[i - 1] \o fields[i]
      OBVIOUS
    <3>1. i # 1 => i \in 2 .. n
      BY SMTT(30)
    <3> QED
      BY <1>6, <1>8, <3>1
  <2> QED
    BY <2>1, <2>2
<1>10. flatten = [i \in 1 .. n |-> IF i = 1 THEN fields[i] ELSE flatten[i - 1] \o fields[i]]
  BY <1>9, ZenonT(30) DEF flatten
<1>11. flatten[1] = fields[1] /\ \A i \in 2 .. n : flatten[i] = flatten[i - 1] \o fields[i]
  <2>1. 1 \in 1 .. n
    OBVIOUS
  <2>2. \A i \in 2 .. n : i \in 1 .. n /\ i # 1
    OBVIOUS
  <2> QED
    BY <1>10, <2>1, <2>2
<1>12. \A i \in 1 .. n : flatten[i] \in V
  <2> DEFINE S == {k \in 0 .. N : flatten[k + 1] \in V}
  <2>1. 0 \in S
    BY <1>3, <1>11
  <2>2. ASSUME NEW k \in 1 .. N, k - 1 \in S
        PROVE  k \in S
    <3>1. flatten[k] \in V
      BY <2>2
    <3>2. flatten[k + 1] = flatten[k] \o fields[k + 1]
      <4>1. k + 1 \in 2 .. n /\ (k + 1) - 1 = k
        OBVIOUS
      <4> QED
        BY <1>11, <4>1
    <3>3. fields[k + 1] \in V
      BY <1>3
    <3>4. flatten[k] \o fields[k + 1] \in V
      BY <1>2, <3>1, <3>3
    <3>5. flatten[k + 1] \in V /\ k \in 0 .. N
      BY <3>2, <3>4
    <3> QED
      BY <3>5
  <2> HIDE DEF S
  <2>3. \A k \in 0 .. N : k \in S
    BY <1>0, <2>1, <2>2, UpTo
  <2>4. ASSUME NEW i \in 1 .. n
        PROVE  flatten[i] \in V
    <3>1. i - 1 \in 0 .. N /\ (i - 1) + 1 = i
      OBVIOUS
    <3> QED
      BY <2>3, <3>1 DEF S
  <2> QED
    BY <2>4
<1> DEFINE off == [i \in 0 .. n |-> IF i = 0 THEN 0 ELSE Len(flatten[i])]
<1>13. off[0] = 0 /\ \A i \in 1 .. n : off[i] = Len(flatten[i])
  OBVIOUS
<1>l. \A s \in V : Len(s) \in Nat
  BY DEF V
<1>14. off \in [0 .. n -> Nat]
  BY <1>12, <1>l
<1> HIDE DEF off
<1>15. \A i \in 1 .. n : off[i] = off[i - 1] + Len(fields[i])
  <2>1. off[1] = off[1 - 1] + Len(fields[1])
    <3>1. Len(fields[1]) \in Nat
      BY <1>3, <1>l
    <3> QED
      BY <1>11, <1>13, <3>1
  <2>2. ASSUME NEW i \in 2 .. n
        PROVE  off[i] = off[i - 1] + Len(fields[i])
    <3>1. i - 1 \in 1 .. n /\ flatten[i - 1] \in V /\ fields[i] \in V
      BY <1>12, <1>3 DEF V
    <3>2. Len(flatten[i - 1] \o fields[i]) = Len(flatten[i - 1]) + Len(fields[i])
      BY <1>2, <3>1
    <3>3. off[i] = Len(flatten[i]) /\ off[i - 1] = Len(flatten[i - 1])
      BY <1>13, <3>1
    <3> QED
      BY <1>11, <3>2, <3>3
  <2>3. \A i \in 1 .. n : i = 1 \/ i \in 2 .. n
    OBVIOUS
  <2> QED
    BY <2>1, <2>2, <2>3
\* What was put there stays a beginning.
<1>16. ASSUME NEW i \in 1 .. n
       PROVE  \A x \in 1 .. off[i] : flatten[n][x] = flatten[i][x]
  <2> DEFINE S == {k \in 0 .. n - i : \A x \in 1 .. off[i] : flatten[i + k][x] = flatten[i][x]}
  <2>1. 0 \in S
    OBVIOUS
  <2>2. ASSUME NEW k \in 1 .. n - i, k - 1 \in S
        PROVE  k \in S
    <3>0. i + k \in 2 .. n /\ i + (k - 1) \in 1 .. n /\ (i + k) - 1 = i + (k - 1)
      OBVIOUS
    <3>1. flatten[i + k] = flatten[i + (k - 1)] \o fields[i + k]
      BY <1>11, <3>0
    <3>2. flatten[i + (k - 1)] \in V /\ fields[i + k] \in V
      BY <1>12, <3>0 DEF V
    <3>3. \A x \in 1 .. off[i] : flatten[i + (k - 1)][x] = flatten[i][x]
      BY <2>2
    <3>4. off[i] <= Len(flatten[i + (k - 1)])
      <4>1. \A q \in 1 .. n : off[q - 1] <= off[q]
        <5> SUFFICES ASSUME NEW q \in 1 .. n
                     PROVE  off[q - 1] <= off[q]
          OBVIOUS
        <5>1. off[q] \in Nat /\ off[q - 1] \in Nat /\ Len(fields[q]) \in Nat
          BY <1>14
        <5> QED
          BY <1>15, <5>1
      <4>5. off[i] <= off[i + (k - 1)]
        <5>1. i \in 0 .. n /\ i + (k - 1) \in 0 .. n /\ i <= i + (k - 1)
          OBVIOUS
        <5> QED
          BY <1>14, <4>1, <5>1, Increasing
      <4> QED
        BY <1>13, <3>0, <4>5
    <3>5. ASSUME NEW x \in 1 .. off[i]
          PROVE  flatten[i + k][x] = flatten[i][x]
      <4>1. x \in 1 .. Len(flatten[i + (k - 1)])
        BY <3>2, <3>4, <1>14, <1>l, SMTT(30)
      <4>2. (flatten[i + (k - 1)] \o fields[i + k])[x] = flatten[i + (k - 1)][x]
        BY <1>2, <3>2, <4>1
      <4> QED
        BY <3>1, <3>3, <4>2
    <3> QED
      BY <3>5
  <2> HIDE DEF S
  <2>3. n - i \in S
    <3>1. n - i \in Nat /\ n - i \in 0 .. n - i
      OBVIOUS
    <3>2. \A k \in 0 .. n - i : k \in S
      BY <2>1, <2>2, <3>1, UpTo
    <3> QED
      BY <3>1, <3>2
  <2>4. i + (n - i) = n
    OBVIOUS
  <2> QED
    BY <2>3, <2>4 DEF S
<1>17. ASSUME NEW i \in 1 .. n, NEW j \in 1 .. Len(fields[i])
       PROVE  flatten[n][off[i - 1] + j] = fields[i][j]
  <2>0. /\ fields[i] \in V /\ Len(fields[i]) \in Nat /\ off[i] \in Nat /\ off[i - 1] \in Nat
        /\ off[i] = off[i - 1] + Len(fields[i]) /\ j \in Nat
    BY <1>3, <1>14, <1>15, <1>l DEF V
  <2>1. flatten[n][off[i - 1] + j] = flatten[i][off[i - 1] + j]
    <3>1. off[i - 1] + j \in 1 .. off[i]
      BY <2>0
    <3> QED
      BY <1>16, <3>1
  <2>2. flatten[i][off[i - 1] + j] = fields[i][j]
    <3>1. CASE i = 1
      BY <1>11, <1>13, <2>0, <3>1
    <3>2. CASE i # 1
      <4>1. i \in 2 .. n /\ i - 1 \in 1 .. n /\ flatten[i - 1] \in V
        BY <1>12, <3>2
      <4>2. (flatten[i - 1] \o fields[i])[Len(flatten[i - 1]) + j] = fields[i][j]
        BY <1>2, <2>0, <4>1
      <4>3. off[i - 1] = Len(flatten[i - 1]) /\ flatten[i] = flatten[i - 1] \o fields[i]
        BY <1>11, <1>13, <4>1
      <4> QED
        BY <4>2, <4>3
    <3> QED
      BY <3>1, <3>2
  <2> QED
    BY <2>1, <2>2
<1>18. FlattenSeq(fields) \in Seq(E) /\ Len(FlattenSeq(fields)) = off[n]
  BY <1>1, <1>12, <1>13 DEF V
<1> QED
  BY <1>1, <1>13, <1>14, <1>15, <1>17, <1>18 DEF IsFlat

\* Where the fields of a packet begin.
Laid(packet, n, fields, off) ==
  /\ off \in [0 .. n -> Nat] /\ off[0] = 6 /\ off[n] = Len(packet)
  /\ \A i \in 1 .. n : off[i] = off[i - 1] + Len(fields[i])
  /\ \A i \in 1 .. n : \A j \in 1 .. Len(fields[i]) :
       packet[off[i - 1] + j] = fields[i][j]

Headed(packet, n) ==
  /\ \A k \in 1 .. 4 : packet[k] = Magic[k]
  /\ packet[5] = Version /\ packet[6] = n

LEMMA Joined ==
  ASSUME NEW s \in Seq(Byte), NEW t \in Seq(Byte)
  PROVE  /\ s \o t \in Seq(Byte) /\ Len(s \o t) = Len(s) + Len(t)
         /\ \A j \in 1 .. Len(s) : (s \o t)[j] = s[j]
         /\ \A j \in 1 .. Len(t) : (s \o t)[Len(s) + j] = t[j]
OBVIOUS

LEMMA AfterHead ==
  ASSUME NEW head \in Seq(Byte), Len(head) = 6, NEW rest \in Seq(Byte)
  PROVE  /\ head \o rest \in Seq(Byte) /\ Len(head \o rest) = 6 + Len(rest)
         /\ \A k \in 1 .. 6 : (head \o rest)[k] = head[k]
         /\ \A x \in 1 .. Len(rest) : (head \o rest)[6 + x] = rest[x]
<1>1. /\ head \o rest \in Seq(Byte) /\ Len(head \o rest) = Len(head) + Len(rest)
      /\ \A j \in 1 .. Len(head) : (head \o rest)[j] = head[j]
      /\ \A j \in 1 .. Len(rest) : (head \o rest)[Len(head) + j] = rest[j]
  BY Joined
<1> QED
  BY <1>1

LEMMA PacketLaid ==
  ASSUME NEW n \in 1 .. 255, NEW fields \in [1 .. n -> Seq(Byte)]
  PROVE  /\ Packet(fields) \in Seq(Byte) /\ Headed(Packet(fields), n)
         /\ \E off : Laid(Packet(fields), n, fields, off)
<1> DEFINE flat == FlattenSeq(fields)
           head == Magic \o <<Version, Len(fields)>>
           packet == Packet(fields)
<1>1. PICK o \in [0 .. n -> Nat] :
           /\ o[0] = 0 /\ \A i \in 1 .. n : o[i] = o[i - 1] + Len(fields[i])
           /\ flat \in Seq(Byte) /\ Len(flat) = o[n]
           /\ \A i \in 1 .. n : \A j \in 1 .. Len(fields[i]) :
                flat[o[i - 1] + j] = fields[i][j]
  <2>1. n \in Nat \ {0}
    OBVIOUS
  <2> HIDE DEF flat
  <2>2. IsFlat(flat, Byte, n, fields)
    BY <2>1, Flattened DEF flat
  <2> QED
    BY <2>2 DEF IsFlat
<1>2. Len(fields) = n /\ n \in Nat /\ n \in Byte
  BY DEF Byte
<1>3. /\ head \in Seq(Byte) /\ Len(head) = 6 /\ head[5] = Version /\ head[6] = n
      /\ \A k \in 1 .. 4 : head[k] = Magic[k]
  BY <1>2 DEF Magic, Version, Byte
<1>4. packet = head \o flat
  <2>1. Magic \in Seq(Byte) /\ <<Version, Len(fields)>> \in Seq(Byte)
    BY <1>2 DEF Magic, Version, Byte
  <2> HIDE DEF flat
  <2> QED
    BY <1>1, <2>1 DEF Packet, flat
<1> HIDE DEF packet, head, flat
<1>5. /\ packet \in Seq(Byte) /\ Len(packet) = 6 + Len(flat)
      /\ \A k \in 1 .. 6 : packet[k] = head[k]
      /\ \A x \in 1 .. Len(flat) : packet[6 + x] = flat[x]
  <2>1. flat \in Seq(Byte)
    BY <1>1
  <2>2. head \in Seq(Byte) /\ Len(head) = 6
    BY <1>3
  <2> QED
    BY <1>4, <2>1, <2>2, AfterHead
<1>6. Headed(packet, n)
  BY <1>3, <1>5 DEF Headed
<1> DEFINE off == [i \in 0 .. n |-> 6 + o[i]]
<1>7. \A i \in 1 .. n : /\ i - 1 \in 0 .. n /\ i \in 0 .. n
                        /\ o[i - 1] \in Nat /\ o[i] \in Nat
                        /\ Len(fields[i]) \in Nat
  <2>1. \A i \in 1 .. n : i - 1 \in 0 .. n /\ i \in 0 .. n
    OBVIOUS
  <2>2. \A i \in 1 .. n : Len(fields[i]) \in Nat
    OBVIOUS
  <2> QED
    BY <1>1, <2>1, <2>2
<1>8. \A i \in 1 .. n : o[i] <= o[n]
  <2>1. \A i \in 1 .. n : o[i - 1] <= o[i]
    BY <1>1, <1>7
  <2>2. n \in 0 .. n /\ \A i \in 1 .. n : i \in 0 .. n /\ i <= n
    BY <1>2
  <2> QED
    BY <1>1, <1>2, <2>1, <2>2, Increasing
<1>9. Laid(packet, n, fields, off)
  <2>1. off \in [0 .. n -> Nat] /\ off[0] = 6 /\ off[n] = Len(packet)
    <3>1. n \in 0 .. n /\ 0 \in 0 .. n
      BY <1>2
    <3> QED
      BY <1>1, <1>5, <3>1
  <2>2. ASSUME NEW i \in 1 .. n
        PROVE  off[i] = off[i - 1] + Len(fields[i])
    <3>1. o[i] = o[i - 1] + Len(fields[i])
      BY <1>1
    <3> QED
      BY <1>7, <3>1
  <2>3. ASSUME NEW i \in 1 .. n, NEW j \in 1 .. Len(fields[i])
        PROVE  packet[off[i - 1] + j] = fields[i][j]
    <3>1. o[i] = o[i - 1] + Len(fields[i]) /\ o[i] <= o[n] /\ Len(flat) = o[n]
      BY <1>1, <1>8
    <3>2. j \in Nat /\ j >= 1 /\ j <= Len(fields[i])
      BY <1>7
    <3>3. o[i - 1] + j \in 1 .. Len(flat) /\ off[i - 1] + j = 6 + (o[i - 1] + j)
      <4>1. o[n] \in Nat /\ o[i] \in Nat /\ o[i - 1] \in Nat /\ Len(fields[i]) \in Nat
        BY <1>1, <1>2, <1>7
      <4>2. off[i - 1] = 6 + o[i - 1]
        BY <1>7
      <4> HIDE DEF off
      <4>3. off[i - 1] + j = 6 + (o[i - 1] + j)
        BY <3>2, <4>1, <4>2
      <4>4. o[i - 1] + j <= o[n] /\ o[i - 1] + j >= 1 /\ o[i - 1] + j \in Nat
        BY <3>1, <3>2, <4>1
      <4> QED
        BY <3>1, <4>1, <4>3, <4>4
    <3>4. flat[o[i - 1] + j] = fields[i][j]
      BY <1>1
    <3> HIDE DEF off
    <3> QED
      BY <1>5, <3>3, <3>4
  <2> HIDE DEF off
  <2> QED
    BY <2>1, <2>2, <2>3 DEF Laid
<1> HIDE DEF off
<1> QED
  BY <1>5, <1>6, <1>9 DEF packet

\* Each field of a packet ends within it.
LEMMA LaidWithin ==
  ASSUME NEW n \in Nat, NEW fields \in [1 .. n -> Seq(Byte)], NEW packet \in Seq(Byte),
         NEW off, Laid(packet, n, fields, off)
  PROVE  \A i \in 1 .. n : off[i] <= Len(packet)
<1>1. \A i \in 1 .. n : /\ i - 1 \in 0 .. n /\ i \in 0 .. n
                        /\ off[i - 1] \in Nat /\ off[i] \in Nat
                        /\ Len(fields[i]) \in Nat
  BY DEF Laid
<1>2. \A i \in 1 .. n : off[i - 1] <= off[i]
  BY <1>1 DEF Laid
<1>3. n \in 0 .. n /\ \A i \in 1 .. n : i \in 0 .. n /\ i <= n
  OBVIOUS
<1> QED
  BY <1>2, <1>3, Increasing DEF Laid

-----------------------------------------------------------------------------
(* The rounds of the decoder.                                              *)

ValueSet(f) == IF f \in Booleans THEN BOOLEAN
               ELSE IF f = Volume THEN 0 .. 255 ELSE Seq(Byte)
Values == BOOLEAN \cup (0 .. 255) \cup Seq(Byte)

Reads == {r \in UNION {[F -> Values] : F \in SUBSET Fields} :
            \A f \in DOMAIN r : r[f] \in ValueSet(f)}

\* The bytes that what was read would take.
RoomOf(r, f) == IF f \in DOMAIN r THEN 3 + Len(TextOf(f, r[f])) ELSE 0
Room(r) == RoomOf(r, 1) + RoomOf(r, 2) + RoomOf(r, 3) + RoomOf(r, 4) + RoomOf(r, 5)
           + RoomOf(r, 6) + RoomOf(r, 7) + RoomOf(r, 8) + RoomOf(r, 9) + RoomOf(r, 10)
           + RoomOf(r, 11) + RoomOf(r, 12) + RoomOf(r, 13)

Errors == {"None", "Truncated", "UnknownField", "DuplicateField", "InvalidNumber"}

RoundStates(input) ==
  {s \in [cursor : Nat, read : Reads, error : Errors] :
     /\ s.cursor <= Len(input) /\ 6 + Room(s.read) <= s.cursor}

FirstRound == [cursor |-> 6, read |-> <<>>, error |-> "None"]

IdAt(input, c)   == input[c + 1]
SizeAt(input, c) == input[c + 2] * 256 + input[c + 3]
TextAt(input, c) == SubSeq(input, c + 4, c + 3 + SizeAt(input, c))

CanRead(input, s) ==
  LET id == IdAt(input, s.cursor)
  IN  /\ Len(input) - s.cursor >= 3
      /\ id \in Fields /\ id \notin DOMAIN s.read
      /\ SizeAt(input, s.cursor) <= Len(input) - s.cursor - 3
      /\ Readable(id, TextAt(input, s.cursor))

With(r, id, v) == [f \in DOMAIN r \cup {id} |-> IF f = id THEN v ELSE r[f]]

RoundAfter(input, s) ==
  LET id == IdAt(input, s.cursor)
  IN  [s EXCEPT !.cursor = @ + 3 + SizeAt(input, s.cursor),
                !.read   = With(@, id, ValueOf(id, TextAt(input, s.cursor)))]

LEMMA TextTyped ==
  ASSUME NEW f \in Fields, NEW v \in ValueSet(f)
  PROVE  /\ TextOf(f, v) \in Seq(Byte)
         /\ Readable(f, TextOf(f, v)) /\ ValueOf(f, TextOf(f, v)) = v
<1>0. Volume \notin Booleans /\ <<48>> # <<49>>
  <2>1. <<48>>[1] # <<49>>[1]
    OBVIOUS
  <2> QED
    BY <2>1 DEF Booleans, Volume, Enabled
<1>1. CASE f \in Booleans
  <2>1. TextOf(f, v) = IF v THEN <<49>> ELSE <<48>>
    BY <1>0, <1>1 DEF TextOf
  <2>2. v \in BOOLEAN
    BY <1>1 DEF ValueSet
  <2>3. <<48>> \in Seq(Byte) /\ <<49>> \in Seq(Byte)
    BY DEF Byte
  <2> QED
    BY <1>0, <1>1, <2>1, <2>2, <2>3 DEF Readable, ValueOf
<1>2. CASE f = Volume
  <2>1. v \in 0 .. 255 /\ TextOf(f, v) = Digits(v)
    BY <1>0, <1>2 DEF TextOf, ValueSet
  <2>2. Digits(v) \in Seq(Byte) /\ ParseUnsigned(Digits(v), 255) = v /\ v # NotANumber
    <3>1. v # NotANumber
      BY <2>1 DEF NotANumber
    <3>2. v \in 0 .. 255
      BY <2>1
    <3> QED
      BY <3>1, <3>2, DigitsParsed
  <2> QED
    BY <1>0, <1>2, <2>1, <2>2 DEF Readable, ValueOf
<1>3. CASE f \notin Booleans /\ f # Volume
  BY <1>3 DEF TextOf, Readable, ValueOf, ValueSet
<1> QED
  BY <1>1, <1>2, <1>3

LEMMA ValueTyped ==
  ASSUME NEW f \in Fields, NEW text \in Seq(Byte), Readable(f, text)
  PROVE  /\ ValueOf(f, text) \in ValueSet(f)
         /\ Len(TextOf(f, ValueOf(f, text))) <= Len(text)
<1>0. Volume \notin Booleans
  BY DEF Booleans, Volume, Enabled
<1>1. CASE f \in Booleans
  <2>1. text = <<48>> \/ text = <<49>>
    BY <1>0, <1>1 DEF Readable
  <2>2. ValueOf(f, text) = (text = <<49>>)
    BY <1>0, <1>1 DEF ValueOf
  <2>3. TextOf(f, ValueOf(f, text)) \in {<<48>>, <<49>>}
    BY <1>0, <1>1, <2>2 DEF TextOf
  <2> QED
    BY <1>1, <2>1, <2>2, <2>3 DEF ValueSet
<1>2. CASE f = Volume
  <2>1. /\ ParseUnsigned(text, 255) # NotANumber
        /\ ValueOf(f, text) = ParseUnsigned(text, 255)
    BY <1>0, <1>2 DEF Readable, ValueOf
  <2>2. TextOf(f, ValueOf(f, text)) = Digits(ParseUnsigned(text, 255))
    BY <1>0, <1>2, <2>1 DEF TextOf
  <2> QED
    BY <1>0, <1>2, <2>1, <2>2, DigitsAreShort DEF ValueSet
<1>3. CASE f \notin Booleans /\ f # Volume
  BY <1>3 DEF TextOf, ValueOf, ValueSet
<1> QED
  BY <1>1, <1>2, <1>3

LEMMA ReadsGrow ==
  ASSUME NEW r \in Reads, NEW id \in Fields, id \notin DOMAIN r,
         NEW v \in ValueSet(id)
  PROVE  /\ With(r, id, v) \in Reads
         /\ Room(r) \in Nat /\ Room(With(r, id, v)) = Room(r) + 3 + Len(TextOf(id, v))
<1> DEFINE t == With(r, id, v)
<1>1. /\ DOMAIN r \subseteq Fields /\ r = [f \in DOMAIN r |-> r[f]]
      /\ \A f \in DOMAIN r : r[f] \in ValueSet(f)
  BY DEF Reads
<1>2. /\ DOMAIN t = DOMAIN r \cup {id} /\ t[id] = v
      /\ \A f \in DOMAIN r : t[f] = r[f]
  BY DEF With
<1>3. t \in Reads
  <2>1. \A f \in DOMAIN t : t[f] \in ValueSet(f)
    BY <1>1, <1>2
  <2>2. \A f \in Fields : ValueSet(f) \subseteq Values
    BY DEF ValueSet, Values
  <2>3. t \in [DOMAIN r \cup {id} -> Values]
    BY <1>1, <1>2, <2>1, <2>2 DEF With
  <2>4. DOMAIN r \cup {id} \in SUBSET Fields
    BY <1>1
  <2>5. t \in UNION {[F -> Values] : F \in SUBSET Fields}
    BY <2>3, <2>4
  <2> HIDE DEF t
  <2> QED
    BY <2>1, <2>5 DEF Reads
<1> HIDE DEF t
<1>4. \A f \in Fields : f # id => RoomOf(t, f) = RoomOf(r, f)
  BY <1>2 DEF RoomOf
<1>5. RoomOf(r, id) = 0 /\ RoomOf(t, id) = 3 + Len(TextOf(id, v))
  BY <1>2 DEF RoomOf
<1>6. \A f \in Fields : RoomOf(r, f) \in Nat
  <2> SUFFICES ASSUME NEW f \in Fields
               PROVE  RoomOf(r, f) \in Nat
    OBVIOUS
  <2>1. f \in DOMAIN r => Len(TextOf(f, r[f])) \in Nat
    BY <1>1, TextTyped
  <2> QED
    BY <2>1 DEF RoomOf
<1>7. Len(TextOf(id, v)) \in Nat
  BY TextTyped
<1>8. Fields = {1, 2, 3, 4, 5, 6, 7, 8, 9, 10, 11, 12, 13}
  BY DEF Fields, FieldCount
<1>9. /\ RoomOf(r, 1) \in Nat /\ RoomOf(r, 2) \in Nat /\ RoomOf(r, 3) \in Nat
      /\ RoomOf(r, 4) \in Nat /\ RoomOf(r, 5) \in Nat /\ RoomOf(r, 6) \in Nat
      /\ RoomOf(r, 7) \in Nat /\ RoomOf(r, 8) \in Nat /\ RoomOf(r, 9) \in Nat
      /\ RoomOf(r, 10) \in Nat /\ RoomOf(r, 11) \in Nat /\ RoomOf(r, 12) \in Nat
      /\ RoomOf(r, 13) \in Nat
  BY <1>6, <1>8
<1> DEFINE c == 3 + Len(TextOf(id, v))
           More(f) == IF f = id THEN c ELSE 0
<1>10. \A f \in Fields : RoomOf(t, f) = RoomOf(r, f) + More(f)
  BY <1>4, <1>5, <1>6, <1>7
<1>11. /\ RoomOf(t, 1) = RoomOf(r, 1) + More(1) /\ RoomOf(t, 2) = RoomOf(r, 2) + More(2)
      /\ RoomOf(t, 3) = RoomOf(r, 3) + More(3) /\ RoomOf(t, 4) = RoomOf(r, 4) + More(4)
      /\ RoomOf(t, 5) = RoomOf(r, 5) + More(5) /\ RoomOf(t, 6) = RoomOf(r, 6) + More(6)
      /\ RoomOf(t, 7) = RoomOf(r, 7) + More(7) /\ RoomOf(t, 8) = RoomOf(r, 8) + More(8)
      /\ RoomOf(t, 9) = RoomOf(r, 9) + More(9) /\ RoomOf(t, 10) = RoomOf(r, 10) + More(10)
      /\ RoomOf(t, 11) = RoomOf(r, 11) + More(11) /\ RoomOf(t, 12) = RoomOf(r, 12) + More(12)
      /\ RoomOf(t, 13) = RoomOf(r, 13) + More(13)
  BY <1>8, <1>10
<1>12. c \in Nat
  BY <1>7
<1> HIDE DEF c
<1>13. /\ More(1) + More(2) + More(3) + More(4) + More(5) + More(6) + More(7) + More(8)
         + More(9) + More(10) + More(11) + More(12) + More(13) = c
      /\ \A f \in Fields : More(f) \in Nat
  BY <1>8, <1>12
<1> HIDE DEF More
<1>14. /\ More(1) \in Nat /\ More(2) \in Nat /\ More(3) \in Nat /\ More(4) \in Nat
      /\ More(5) \in Nat /\ More(6) \in Nat /\ More(7) \in Nat /\ More(8) \in Nat
      /\ More(9) \in Nat /\ More(10) \in Nat /\ More(11) \in Nat /\ More(12) \in Nat
      /\ More(13) \in Nat
  BY <1>8, <1>13
<1>15. Room(r) \in Nat /\ Room(t) = Room(r) + c
  <2>1. Room(r) \in Nat
    BY <1>9 DEF Room
  <2>2. RoomOf(t, 1) + RoomOf(t, 2) + RoomOf(t, 3) + RoomOf(t, 4) + RoomOf(t, 5)
        = (RoomOf(r, 1) + RoomOf(r, 2) + RoomOf(r, 3) + RoomOf(r, 4) + RoomOf(r, 5))
          + (More(1) + More(2) + More(3) + More(4) + More(5))
    BY <1>9, <1>11, <1>14
  <2>3. RoomOf(t, 6) + RoomOf(t, 7) + RoomOf(t, 8) + RoomOf(t, 9)
        = (RoomOf(r, 6) + RoomOf(r, 7) + RoomOf(r, 8) + RoomOf(r, 9))
          + (More(6) + More(7) + More(8) + More(9))
    BY <1>9, <1>11, <1>14
  <2>4. RoomOf(t, 10) + RoomOf(t, 11) + RoomOf(t, 12) + RoomOf(t, 13)
        = (RoomOf(r, 10) + RoomOf(r, 11) + RoomOf(r, 12) + RoomOf(r, 13))
          + (More(10) + More(11) + More(12) + More(13))
    BY <1>9, <1>11, <1>14
  <2>5. Room(t) = Room(r) + c
    BY <1>9, <1>11, <1>13, <1>14, <2>2, <2>3, <2>4, SMTT(60) DEF Room
  <2> QED
    BY <2>1, <2>5
<1> QED
  BY <1>3, <1>12, <1>15, <1>7 DEF t, c

LEMMA BytesAreNumbers ==
  ASSUME NEW s \in Seq(Byte)
  PROVE  Len(s) \in Nat /\ \A k \in 1 .. Len(s) : s[k] \in Nat /\ s[k] \in Byte
<1>1. \A k \in 1 .. Len(s) : s[k] \in Byte
  OBVIOUS
<1>2. \A b \in Byte : b \in Nat
  BY DEF Byte
<1> QED
  BY <1>1, <1>2

LEMMA Part ==
  ASSUME NEW S, NEW s \in Seq(S), NEW m \in Nat, NEW n \in Nat,
         1 <= m, m <= n + 1, n <= Len(s)
  PROVE  /\ SubSeq(s, m, n) \in Seq(S) /\ Len(SubSeq(s, m, n)) = n - m + 1
         /\ \A j \in 1 .. n - m + 1 : SubSeq(s, m, n)[j] = s[m + j - 1]
OBVIOUS

LEMMA ReadsTyped ==
  ASSUME NEW r \in Reads
  PROVE  /\ r = [f \in DOMAIN r |-> r[f]] /\ DOMAIN r \subseteq Fields
         /\ \A f \in DOMAIN r : r[f] \in ValueSet(f)
BY DEF Reads

LEMMA StartTyped ==
  ASSUME NEW input \in Seq(Byte), Len(input) >= 6
  PROVE  FirstRound \in RoundStates(input)
<1>1. <<>> \in [{} -> Values] /\ DOMAIN <<>> = {}
  OBVIOUS
<1>2. <<>> \in Reads
  <2>1. {} \in SUBSET Fields
    OBVIOUS
  <2> QED
    BY <1>1, <2>1 DEF Reads
<1>3. Room(<<>>) = 0
  BY <1>1 DEF Room, RoomOf
<1>4. FirstRound \in [cursor : Nat, read : Reads, error : Errors]
  <2> DEFINE none == <<>>
  <2>1. none \in Reads
    BY <1>2
  <2> HIDE DEF none
  <2>2. [cursor |-> 6, read |-> none, error |-> "None"] \in [cursor : Nat, read : Reads, error : Errors]
    BY <2>1 DEF Errors
  <2> QED
    BY <2>2 DEF FirstRound, none
<1>5. FirstRound.cursor = 6 /\ FirstRound.read = <<>>
  BY DEF FirstRound
<1>6. Len(input) \in Nat
  OBVIOUS
<1> QED
  BY <1>3, <1>4, <1>5, <1>6 DEF RoundStates

\* What a round does to a state without an error.
LEMMA RoundDoes ==
  ASSUME NEW input \in Seq(Byte), NEW s \in RoundStates(input)
  PROVE  /\ s.error # "None" => ReadField(input, s) = s
         /\ s.error = "None" /\ ~ CanRead(input, s) =>
              ReadField(input, s) \in RoundStates(input) /\ ReadField(input, s).error # "None"
         /\ s.error = "None" /\ CanRead(input, s) =>
              /\ ReadField(input, s) = RoundAfter(input, s)
              /\ RoundAfter(input, s) \in RoundStates(input)
<1> DEFINE c == s.cursor
           id == IdAt(input, c)
           size == SizeAt(input, c)
           text == TextAt(input, c)
           t == ReadField(input, s)
<1>1. /\ c \in Nat /\ s.read \in Reads /\ s.error \in Errors
      /\ c <= Len(input) /\ 6 + Room(s.read) <= c
      /\ s = [cursor |-> c, read |-> s.read, error |-> s.error]
  BY DEF RoundStates
<1>2. CASE s.error # "None"
  BY <1>2 DEF ReadField
<1>0. Len(input) \in Nat /\ \A k \in 1 .. Len(input) : input[k] \in Nat
  BY BytesAreNumbers
<1>s. Len(input) - c >= 3 => size \in Nat
  <2> SUFFICES ASSUME Len(input) - c >= 3
               PROVE  size \in Nat
    OBVIOUS
  <2>1. c + 2 \in 1 .. Len(input) /\ c + 3 \in 1 .. Len(input)
    <3> HIDE DEF c
    <3> QED
      BY <1>0, <1>1
  <2>2. input[c + 2] \in Nat /\ input[c + 3] \in Nat
    BY <1>0, <2>1
  <2> QED
    BY <2>2 DEF SizeAt
<1>3. CASE s.error = "None" /\ ~ CanRead(input, s)
  <2>1. \A e \in Errors : Error(s, e) \in RoundStates(input) /\ Error(s, e).error = e
    BY DEF RoundStates, Error
  <2>2. \E e \in {"Truncated", "UnknownField", "DuplicateField", "InvalidNumber"} :
          t = Error(s, e)
    <3>1. Len(input) - c < 3 => t = Error(s, "Truncated")
      BY <1>3 DEF ReadField
    <3>2. Len(input) - c >= 3 /\ id \notin Fields => t = Error(s, "UnknownField")
      BY <1>1, <1>3 DEF ReadField, IdAt
    <3>3. Len(input) - c >= 3 /\ id \in Fields /\ id \in DOMAIN s.read
          => t = Error(s, "DuplicateField")
      BY <1>1, <1>3 DEF ReadField, AlreadyRead, IdAt
    <3>4. Len(input) - c >= 3 /\ id \in Fields /\ id \notin DOMAIN s.read
          /\ size > Len(input) - c - 3 => t = Error(s, "Truncated")
      BY <1>1, <1>3 DEF ReadField, AlreadyRead, IdAt, SizeAt
    <3>5. Len(input) - c >= 3 /\ id \in Fields /\ id \notin DOMAIN s.read
          /\ ~ (size > Len(input) - c - 3) /\ ~ Readable(id, text)
          => t = Error(s, "InvalidNumber")
      BY <1>1, <1>3 DEF ReadField, AlreadyRead, IdAt, SizeAt, TextAt
    <3> QED
      BY <1>0, <1>1, <1>3, <1>s, <3>1, <3>2, <3>3, <3>4, <3>5 DEF CanRead
  <2>3. PICK e \in {"Truncated", "UnknownField", "DuplicateField", "InvalidNumber"} :
          t = Error(s, e)
    BY <2>2
  <2>4. e \in Errors /\ e # "None"
    <3>1. \A q \in {"Truncated", "UnknownField", "DuplicateField", "InvalidNumber"} :
            q \in Errors /\ q # "None"
      BY DEF Errors
    <3> QED
      BY <3>1
  <2> HIDE DEF t
  <2>5. t \in RoundStates(input) /\ t.error # "None"
    BY <2>1, <2>3, <2>4
  <2> QED
    BY <1>3, <2>5 DEF t
<1>4. CASE s.error = "None" /\ CanRead(input, s)
  <2>0. Len(input) \in Nat
    OBVIOUS
  <2>1. /\ Len(input) - c >= 3 /\ id \in Fields /\ id \notin DOMAIN s.read
        /\ size <= Len(input) - c - 3 /\ Readable(id, text)
    BY <1>4 DEF CanRead
  <2>2. size \in Nat
    BY <1>s, <2>1
  <2>3. text \in Seq(Byte) /\ Len(text) = size
    <3> DEFINE m == c + 4
               n == c + 3 + size
    <3>1. m \in Nat /\ n \in Nat /\ 1 <= m /\ m <= n + 1 /\ n <= Len(input) /\ n - m + 1 = size
      <4> HIDE DEF c, size
      <4> QED
        BY <1>1, <2>0, <2>1, <2>2, SMTT(30)
    <3>2. text = SubSeq(input, m, n)
      BY DEF TextAt
    <3> HIDE DEF m, n, text, size
    <3> QED
      BY <3>1, <3>2, Part
  <2>4. t = RoundAfter(input, s)
    BY <1>1, <1>4, <2>1, <2>0, <2>2 DEF ReadField, RoundAfter, With, AlreadyRead, IdAt, SizeAt, TextAt
  <2> DEFINE v == ValueOf(id, text)
  <2>5. v \in ValueSet(id) /\ Len(TextOf(id, v)) <= size
    BY <2>1, <2>3, ValueTyped
  <2>6. Len(TextOf(id, v)) \in Nat
    BY <2>1, <2>5, TextTyped
  <2>7. /\ With(s.read, id, v) \in Reads /\ Room(s.read) \in Nat
        /\ Room(With(s.read, id, v)) = Room(s.read) + 3 + Len(TextOf(id, v))
    BY <1>1, <2>1, <2>5, ReadsGrow
  <2>8. /\ RoundAfter(input, s) \in [cursor : Nat, read : Reads, error : Errors]
        /\ RoundAfter(input, s).cursor = c + 3 + size
        /\ RoundAfter(input, s).read = With(s.read, id, v)
    <3>1. s \in [cursor : Nat, read : Reads, error : Errors]
      BY DEF RoundStates
    <3> DEFINE q == c + 3 + size
               w == With(s.read, id, v)
    <3>2. RoundAfter(input, s) = [s EXCEPT !.cursor = q, !.read = w]
      BY DEF RoundAfter
    <3>3. q \in Nat /\ w \in Reads
      BY <1>1, <2>2, <2>7
    <3> HIDE DEF q, w
    <3>4. /\ [s EXCEPT !.cursor = q, !.read = w] \in [cursor : Nat, read : Reads, error : Errors]
          /\ [s EXCEPT !.cursor = q, !.read = w].cursor = q
          /\ [s EXCEPT !.cursor = q, !.read = w].read = w
      BY <3>1, <3>3
    <3> QED
      BY <3>2, <3>4 DEF q, w
  <2> HIDE DEF c, id, size, text, v, t
  <2>9. RoundAfter(input, s) \in RoundStates(input)
    BY <1>1, <2>0, <2>1, <2>2, <2>5, <2>6, <2>7, <2>8 DEF RoundStates
  <2> QED
    BY <1>4, <2>4, <2>9 DEF t
<1> QED
  BY <1>2, <1>3, <1>4

\* The loop as a whole.
LEMMA Looped ==
  ASSUME NEW input \in Seq(Byte), Len(input) >= 6
  PROVE  \E s \in [0 .. input[6] -> RoundStates(input)] :
           /\ s[0] = FirstRound /\ ReadFields(input) = s[input[6]]
           /\ \A i \in 1 .. input[6] : s[i] = ReadField(input, s[i - 1])
<1> DEFINE N == input[6]
           V == RoundStates(input)
           s == CHOOSE g : g = [i \in 0 .. input[6] |->
                  IF i = 0 THEN [cursor |-> 6, read |-> <<>>, error |-> "None"]
                  ELSE ReadField(input, g[i - 1])]
           step == [i \in 1 .. N |-> [q \in V |-> ReadField(input, q)]]
<1>1. ReadFields(input) = s[N]
  BY DEF ReadFields
<1>2. N \in Nat
  <2>1. 6 \in 1 .. Len(input)
    OBVIOUS
  <2> QED
    BY <2>1, BytesAreNumbers
<1>3. \A q \in V : ReadField(input, q) \in V
  BY RoundDoes
<1>4. FirstRound \in V
  BY StartTyped
<1> HIDE DEF s, N, V
<1>5. Steps(N, V, step)
  BY <1>3 DEF Steps
<1>6. PICK f : Recursive(f, N, V, FirstRound, step)
  <2> HIDE DEF step
  <2> QED
    BY <1>2, <1>4, <1>5, RecursionExists
<1>7. \A i \in 1 .. N : f[i] = ReadField(input, f[i - 1])
  <2> SUFFICES ASSUME NEW i \in 1 .. N
               PROVE  f[i] = ReadField(input, f[i - 1])
    OBVIOUS
  <2>1. f[i - 1] \in V /\ f[i] = step[i][f[i - 1]]
    <3>1. i - 1 \in 0 .. N
      BY <1>2
    <3> HIDE DEF step
    <3> QED
      BY <1>6, <3>1 DEF Recursive
  <2> QED
    BY <2>1
<1>8. f = [i \in 0 .. N |-> IF i = 0 THEN FirstRound ELSE ReadField(input, f[i - 1])]
  <2>1. f[0] = FirstRound /\ f \in [0 .. N -> V]
    BY <1>6 DEF Recursive
  <2>2. \A i \in 0 .. N : i # 0 => i \in 1 .. N
    BY <1>2
  <2> QED
    BY <1>7, <2>1, <2>2
<1>9. s = [i \in 0 .. N |-> IF i = 0 THEN FirstRound ELSE ReadField(input, s[i - 1])]
  BY <1>8 DEF s, FirstRound, N
<1>10. s[0] = FirstRound /\ \A i \in 1 .. N : s[i] = ReadField(input, s[i - 1])
  BY <1>2, <1>9
<1>11. \A i \in 0 .. N : s[i] \in V
  <2> DEFINE S == {i \in 0 .. N : s[i] \in V}
  <2>1. 0 \in S
    BY <1>2, <1>4, <1>10
  <2>2. ASSUME NEW i \in 1 .. N, i - 1 \in S
        PROVE  i \in S
    <3>1. s[i - 1] \in V
      BY <2>2
    <3>2. s[i] \in V
      BY <1>3, <1>10, <3>1
    <3> QED
      BY <1>2, <3>2
  <2> HIDE DEF S
  <2>3. \A i \in 0 .. N : i \in S
    BY <1>2, <2>1, <2>2, UpTo
  <2> QED
    BY <2>3 DEF S
<1>12. s \in [0 .. N -> V]
  BY <1>9, <1>11
<1> QED
  BY <1>1, <1>10, <1>12 DEF N, V

\* The rounds of decoding an input, one after the other.
Rounds(input, s) ==
  /\ s \in [0 .. input[6] -> RoundStates(input)]
  /\ s[0] = FirstRound /\ ReadFields(input) = s[input[6]]
  /\ \A i \in 1 .. input[6] : s[i] = ReadField(input, s[i - 1])

LEMMA RoundsExist ==
  ASSUME NEW input \in Seq(Byte), Len(input) >= 6
  PROVE  input[6] \in Nat /\ \E s : Rounds(input, s)
<1>1. \E s : Rounds(input, s)
  BY Looped DEF Rounds
<1>2. 6 \in 1 .. Len(input)
  OBVIOUS
<1> QED
  BY <1>1, <1>2, BytesAreNumbers

\* Without an error in the end, there was none before.
LEMMA NoErrorBefore ==
  ASSUME NEW input \in Seq(Byte), Len(input) >= 6, NEW s, Rounds(input, s),
         ReadFields(input).error = "None"
  PROVE  \A i \in 1 .. input[6] :
           /\ s[i - 1] \in RoundStates(input) /\ CanRead(input, s[i - 1])
           /\ s[i] = RoundAfter(input, s[i - 1])
<1> DEFINE m == input[6]
           S == {k \in 0 .. m : s[m - k].error = "None"}
<1>1. m \in Nat
  BY RoundsExist
<1>2. /\ \A i \in 0 .. m : s[i] \in RoundStates(input)
      /\ \A i \in 1 .. m : s[i] = ReadField(input, s[i - 1])
      /\ s[m].error = "None"
  BY DEF Rounds
<1> HIDE DEF m
<1>3. 0 \in S
  BY <1>1, <1>2
<1>4. ASSUME NEW k \in 1 .. m, k - 1 \in S
      PROVE  k \in S
  <2>1. m - k \in 0 .. m /\ m - (k - 1) \in 1 .. m /\ (m - (k - 1)) - 1 = m - k
    BY <1>1
  <2>2. s[m - (k - 1)].error = "None"
    BY <1>4
  <2>3. s[m - k] \in RoundStates(input) /\ s[m - (k - 1)] = ReadField(input, s[m - k])
    BY <1>2, <2>1
  <2>4. s[m - k].error = "None"
    BY <2>2, <2>3, RoundDoes
  <2> QED
    BY <1>1, <2>4
<1> HIDE DEF S
<1>5. \A k \in 0 .. m : k \in S
  BY <1>1, <1>3, <1>4, UpTo
<1>6. \A i \in 0 .. m : s[i].error = "None"
  <2> SUFFICES ASSUME NEW i \in 0 .. m
               PROVE  s[i].error = "None"
    OBVIOUS
  <2>1. m - i \in 0 .. m /\ m - (m - i) = i
    BY <1>1
  <2> QED
    BY <1>5, <2>1 DEF S
<1>7. ASSUME NEW i \in 1 .. m
      PROVE  /\ s[i - 1] \in RoundStates(input) /\ CanRead(input, s[i - 1])
             /\ s[i] = RoundAfter(input, s[i - 1])
  <2>1. i - 1 \in 0 .. m /\ i \in 0 .. m
    BY <1>1
  <2>2. /\ s[i - 1] \in RoundStates(input) /\ s[i] = ReadField(input, s[i - 1])
        /\ s[i - 1].error = "None" /\ s[i].error = "None"
    BY <1>2, <1>6, <2>1
  <2> QED
    BY <2>2, RoundDoes
<1> QED
  BY <1>7 DEF m

LEMMA AfterFields ==
  ASSUME NEW input \in Seq(Byte), NEW s \in RoundStates(input)
  PROVE  /\ RoundAfter(input, s).cursor = s.cursor + 3 + SizeAt(input, s.cursor)
         /\ RoundAfter(input, s).read = With(s.read, IdAt(input, s.cursor),
              ValueOf(IdAt(input, s.cursor), TextAt(input, s.cursor)))
         /\ RoundAfter(input, s).error = s.error
<1> DEFINE q == s.cursor + 3 + SizeAt(input, s.cursor)
           r == With(s.read, IdAt(input, s.cursor),
                     ValueOf(IdAt(input, s.cursor), TextAt(input, s.cursor)))
<1>1. RoundAfter(input, s) = [s EXCEPT !.cursor = q, !.read = r]
  BY DEF RoundAfter
<1>2. s \in [cursor : Nat, read : Reads, error : Errors]
  BY DEF RoundStates
<1> HIDE DEF q, r
<1>3. /\ [s EXCEPT !.cursor = q, !.read = r].cursor = q
      /\ [s EXCEPT !.cursor = q, !.read = r].read = r
      /\ [s EXCEPT !.cursor = q, !.read = r].error = s.error
  BY <1>2
<1> QED
  BY <1>1, <1>3 DEF q, r

-----------------------------------------------------------------------------
(* Packets, as the decoder goes through them.                              *)

\* Texts whose length has 16 bits.
Short(text) == Len(text) < 65536

LEMMA ShorterIsShort ==
  ASSUME NEW s, NEW t, Len(s) \in Nat, Len(t) \in Nat, Len(s) <= Len(t)
  PROVE  /\ Short(t) => Short(s)
         /\ Len(t) <= MaxWireBytes => Short(s)
         /\ MaxWireBytes \in Nat
BY SMT DEF Short, MaxWireBytes

LEMMA Halves ==
  ASSUME NEW n \in Nat
  PROVE  /\ (n \div 256) % 256 \in Byte /\ n % 256 \in Byte
         /\ n < 65536 => ((n \div 256) % 256) * 256 + (n % 256) = n
<1> DEFINE q == n \div 256
           r == n % 256
<1>1. q \in Nat /\ r \in 0 .. 255 /\ n = q * 256 + r
  OBVIOUS
<1> HIDE DEF q, r
<1>2. q % 256 \in 0 .. 255
  BY <1>1
<1>3. n < 65536 => q < 256
  BY <1>1, SMT
<1>4. q < 256 => q % 256 = q
  BY <1>1
<1>5. n < 65536 => (q % 256) * 256 + r = n
  BY <1>1, <1>3, <1>4, SMT
<1>6. q % 256 \in Byte /\ r \in Byte
  BY <1>1, <1>2 DEF Byte
<1> QED
  BY <1>5, <1>6, SMT DEF q, r

LEMMA SameText ==
  ASSUME NEW s \in Seq(Byte), NEW t \in Seq(Byte), Len(s) = Len(t),
         \A j \in 1 .. Len(t) : s[j] = t[j]
  PROVE  s = t
BY SeqEqual

LEMMA FieldLaid ==
  ASSUME NEW id \in Byte, NEW text \in Seq(Byte)
  PROVE  /\ Field(id, text) \in Seq(Byte) /\ Len(Field(id, text)) = 3 + Len(text)
         /\ Field(id, text)[1] = id
         /\ Short(text) =>
              Field(id, text)[2] * 256 + Field(id, text)[3] = Len(text)
         /\ \A j \in 1 .. Len(text) : Field(id, text)[3 + j] = text[j]
<1> DEFINE a == (Len(text) \div 256) % 256
           b == Len(text) % 256
           head == <<id, a, b>>
<1>1. Len(text) \in Nat
  OBVIOUS
<1>2. a \in Byte /\ b \in Byte /\ (Short(text) => a * 256 + b = Len(text))
  BY <1>1, Halves, SMT DEF Short
<1>3. Field(id, text) = head \o text
  BY DEF Field
<1> HIDE DEF a, b
<1>4. /\ head \in Seq(Byte) /\ Len(head) = 3
      /\ head[1] = id /\ head[2] = a /\ head[3] = b
  BY <1>2
<1> HIDE DEF head
<1>5. /\ head \o text \in Seq(Byte) /\ Len(head \o text) = Len(head) + Len(text)
      /\ \A j \in 1 .. Len(head) : (head \o text)[j] = head[j]
      /\ \A j \in 1 .. Len(text) : (head \o text)[Len(head) + j] = text[j]
  BY <1>4, Joined
<1>6. 1 \in 1 .. Len(head) /\ 2 \in 1 .. Len(head) /\ 3 \in 1 .. Len(head)
  BY <1>4
<1> QED
  BY <1>2, <1>3, <1>4, <1>5, <1>6

FieldAt(packet, i, ids, texts, off) ==
  /\ off[i] = off[i - 1] + 3 + Len(texts[i]) /\ off[i] <= Len(packet)
  /\ packet[off[i - 1] + 1] = ids[i]
  /\ Short(texts[i]) =>
       packet[off[i - 1] + 2] * 256 + packet[off[i - 1] + 3] = Len(texts[i])
  /\ \A j \in 1 .. Len(texts[i]) : packet[off[i - 1] + 3 + j] = texts[i][j]

\* The fields with those ids and texts follow one another.
Planned(packet, n, ids, texts, off) ==
  /\ off \in [0 .. n -> Nat] /\ off[0] = 6 /\ off[n] = Len(packet)
  /\ \A i \in 1 .. n : FieldAt(packet, i, ids, texts, off)

LEMMA PacketPlanned ==
  ASSUME NEW n \in 1 .. 255, NEW ids \in [1 .. n -> Fields],
         NEW texts \in [1 .. n -> Seq(Byte)]
  PROVE  LET packet == Packet([i \in 1 .. n |-> Field(ids[i], texts[i])])
         IN  /\ packet \in Seq(Byte) /\ Headed(packet, n) /\ Len(packet) >= 6
             /\ \A i \in 1 .. n : Len(texts[i]) <= Len(packet)
             /\ \E off : Planned(packet, n, ids, texts, off)
<1> DEFINE fields == [i \in 1 .. n |-> Field(ids[i], texts[i])]
           packet == Packet(fields)
<1>1. \A i \in 1 .. n : ids[i] \in Byte /\ texts[i] \in Seq(Byte) /\ Len(texts[i]) \in Nat
  BY DEF Fields, FieldCount, Byte
<1>2. \A i \in 1 .. n :
        /\ fields[i] \in Seq(Byte) /\ Len(fields[i]) = 3 + Len(texts[i])
        /\ fields[i][1] = ids[i]
        /\ Short(texts[i]) => fields[i][2] * 256 + fields[i][3] = Len(texts[i])
        /\ \A j \in 1 .. Len(texts[i]) : fields[i][3 + j] = texts[i][j]
  BY <1>1, FieldLaid, SMTT(30)
<1>3. fields \in [1 .. n -> Seq(Byte)]
  <2>1. \A i \in 1 .. n : Field(ids[i], texts[i]) \in Seq(Byte)
    BY <1>1, FieldLaid
  <2> QED
    BY <2>1
<1> HIDE DEF fields
<1>4. packet \in Seq(Byte) /\ Headed(packet, n)
  BY <1>3, PacketLaid, ZenonT(60)
<1>5. PICK off : Laid(packet, n, fields, off)
  BY <1>3, PacketLaid, ZenonT(60)
<1>6. n \in Nat /\ Len(packet) \in Nat
  BY <1>4
<1> HIDE DEF packet
<1>7. \A i \in 1 .. n : off[i] <= Len(packet)
  BY <1>3, <1>4, <1>5, <1>6, LaidWithin
<1>8. ASSUME NEW i \in 1 .. n
      PROVE  off[i] \in Nat /\ FieldAt(packet, i, ids, texts, off)
  <2>1. /\ off[i] = off[i - 1] + Len(fields[i])
        /\ \A j \in 1 .. Len(fields[i]) : packet[off[i - 1] + j] = fields[i][j]
    BY <1>5 DEF Laid
  <2>2. off[i] \in Nat /\ off[i - 1] \in Nat
    <3>1. i \in 0 .. n /\ i - 1 \in 0 .. n
      BY <1>6
    <3> QED
      BY <1>5, <3>1 DEF Laid
  <2>3. Len(fields[i]) = 3 + Len(texts[i]) /\ Len(texts[i]) \in Nat
    BY <1>1, <1>2
  <2>4. /\ packet[off[i - 1] + 1] = fields[i][1] /\ packet[off[i - 1] + 2] = fields[i][2]
        /\ packet[off[i - 1] + 3] = fields[i][3]
    <3>1. 1 \in 1 .. Len(fields[i]) /\ 2 \in 1 .. Len(fields[i]) /\ 3 \in 1 .. Len(fields[i])
      BY <2>3
    <3> QED
      BY <2>1, <3>1
  <2>5. ASSUME NEW j \in 1 .. Len(texts[i])
        PROVE  packet[off[i - 1] + 3 + j] = texts[i][j]
    <3>0. j \in Nat /\ 1 <= j /\ j <= Len(texts[i])
      BY <2>3
    <3>1. off[i - 1] + 3 + j = off[i - 1] + (3 + j)
      <4>1. \A a, b \in Nat : a + 3 + b = a + (3 + b)
        OBVIOUS
      <4> QED
        BY <2>2, <3>0, <4>1
    <3>4. 3 + j \in 1 .. Len(fields[i])
      BY <2>3, <3>0
    <3>2. packet[off[i - 1] + (3 + j)] = fields[i][3 + j]
      BY <2>1, <3>4
    <3>3. fields[i][3 + j] = texts[i][j]
      <4>1. \A k \in 1 .. Len(texts[i]) : fields[i][3 + k] = texts[i][k]
        BY <1>2
      <4> QED
        BY <4>1
    <3> QED
      BY <3>1, <3>2, <3>3
  <2>6. off[i] = off[i - 1] + 3 + Len(texts[i])
    <3>1. \A a, b \in Nat : a + (3 + b) = a + 3 + b
      OBVIOUS
    <3> QED
      BY <2>1, <2>2, <2>3, <3>1
  <2> QED
    BY <1>2, <1>7, <2>2, <2>4, <2>5, <2>6 DEF FieldAt
<1>9. off \in [0 .. n -> Nat] /\ off[0] = 6 /\ off[n] = Len(packet)
  BY <1>5 DEF Laid
<1>10. Planned(packet, n, ids, texts, off)
  BY <1>8, <1>9 DEF Planned
<1>11. Len(packet) >= 6 /\ \A i \in 1 .. n : Len(texts[i]) <= Len(packet)
  <2>1. ASSUME NEW i \in 1 .. n
        PROVE  Len(texts[i]) <= Len(packet)
    <3>1. i - 1 \in 0 .. n
      BY <1>6
    <3>2. off[i - 1] \in Nat /\ Len(texts[i]) \in Nat
      BY <1>1, <1>9, <3>1
    <3>3. off[i] = off[i - 1] + 3 + Len(texts[i]) /\ off[i] <= Len(packet)
      BY <1>8 DEF FieldAt
    <3> QED
      BY <1>6, <3>2, <3>3
  <2>2. 1 \in 1 .. n /\ 1 - 1 = 0
    OBVIOUS
  <2>3. off[1] = 6 + 3 + Len(texts[1]) /\ off[1] <= Len(packet)
    BY <1>8, <1>9, <2>2 DEF FieldAt
  <2> QED
    BY <1>1, <1>6, <2>1, <2>2, <2>3
<1> QED
  BY <1>4, <1>10, <1>11 DEF packet, fields

\* w is a packet as far as it goes.
Agrees(w, packet) == \A k \in 1 .. Len(w) : k <= Len(packet) => w[k] = packet[k]

\* An input in which the fields are found as they were put there.
Follows(w, n, ids, texts, packet, off) ==
  /\ n \in 1 .. 255 /\ ids \in [1 .. n -> Fields] /\ texts \in [1 .. n -> Seq(Byte)]
  /\ packet \in Seq(Byte) /\ Planned(packet, n, ids, texts, off)
  /\ w \in Seq(Byte) /\ Len(w) >= 6 /\ w[6] = n /\ Agrees(w, packet)
  /\ \A i \in 1 .. n : Short(texts[i])

LEMMA RoundReads ==
  ASSUME NEW w, NEW n, NEW ids, NEW texts, NEW packet, NEW off,
         Follows(w, n, ids, texts, packet, off),
         NEW i \in 1 .. n, off[i - 1] + 3 <= Len(w)
  PROVE  /\ IdAt(w, off[i - 1]) = ids[i] /\ SizeAt(w, off[i - 1]) = Len(texts[i])
         /\ off[i] = off[i - 1] + 3 + Len(texts[i])
         /\ off[i] <= Len(w) => TextAt(w, off[i - 1]) = texts[i]
<1> DEFINE c == off[i - 1]
<1>0. /\ n \in Nat /\ texts \in [1 .. n -> Seq(Byte)] /\ Short(texts[i])
      /\ packet \in Seq(Byte) /\ Planned(packet, n, ids, texts, off)
      /\ w \in Seq(Byte) /\ Agrees(w, packet)
  BY DEF Follows
<1>1. /\ off[i] = c + 3 + Len(texts[i]) /\ off[i] <= Len(packet)
      /\ packet[c + 1] = ids[i]
      /\ packet[c + 2] * 256 + packet[c + 3] = Len(texts[i])
      /\ \A j \in 1 .. Len(texts[i]) : packet[c + 3 + j] = texts[i][j]
  BY <1>0 DEF Planned, FieldAt
<1>2. c \in Nat /\ Len(texts[i]) \in Nat /\ texts[i] \in Seq(Byte) /\ Len(w) \in Nat
      /\ Len(packet) \in Nat
  <2>1. i - 1 \in 0 .. n
    BY <1>0
  <2> QED
    BY <1>0, <2>1 DEF Planned
<1> HIDE DEF c
<1>3. c + 3 <= Len(w)
  BY DEF c
<1>4. \A k \in 1 .. Len(w) : k <= c + 3 + Len(texts[i]) => w[k] = packet[k]
  BY <1>0, <1>1, <1>2 DEF Agrees
<1>5. w[c + 1] = packet[c + 1] /\ w[c + 2] = packet[c + 2] /\ w[c + 3] = packet[c + 3]
  <2>1. c + 1 \in 1 .. Len(w) /\ c + 2 \in 1 .. Len(w) /\ c + 3 \in 1 .. Len(w)
    BY <1>2, <1>3
  <2>2. /\ c + 1 <= c + 3 + Len(texts[i]) /\ c + 2 <= c + 3 + Len(texts[i])
        /\ c + 3 <= c + 3 + Len(texts[i])
    <3>1. \A a, b \in Nat : a + 1 <= a + 3 + b /\ a + 2 <= a + 3 + b /\ a + 3 <= a + 3 + b
      OBVIOUS
    <3> QED
      BY <1>2, <3>1
  <2>3. \A k : k \in 1 .. Len(w) /\ k <= c + 3 + Len(texts[i]) => w[k] = packet[k]
    BY <1>4
  <2>4. w[c + 1] = packet[c + 1]
    BY <2>1, <2>2, <2>3
  <2>5. w[c + 2] = packet[c + 2]
    BY <2>1, <2>2, <2>3
  <2>6. w[c + 3] = packet[c + 3]
    BY <2>1, <2>2, <2>3
  <2> QED
    BY <2>4, <2>5, <2>6
<1>6. IdAt(w, c) = ids[i] /\ SizeAt(w, c) = Len(texts[i])
  BY <1>1, <1>5 DEF IdAt, SizeAt
<1>7. ASSUME off[i] <= Len(w)
      PROVE  TextAt(w, c) = texts[i]
  <2> DEFINE m == c + 4
             e == c + 3 + Len(texts[i])
             t == SubSeq(w, m, e)
  <2>1. m \in Nat /\ e \in Nat /\ 1 <= m /\ m <= e + 1 /\ e <= Len(w)
        /\ e - m + 1 = Len(texts[i])
    <3>1. \A a, b, d \in Nat : a + 3 + b <= d =>
            /\ a + 4 \in Nat /\ a + 3 + b \in Nat /\ 1 <= a + 4 /\ a + 4 <= (a + 3 + b) + 1
            /\ a + 3 + b <= d /\ (a + 3 + b) - (a + 4) + 1 = b
      OBVIOUS
    <3>2. c + 3 + Len(texts[i]) <= Len(w)
      BY <1>1, <1>7
    <3> QED
      BY <1>2, <3>1, <3>2
  <2>2. /\ t \in Seq(Byte) /\ Len(t) = Len(texts[i])
        /\ \A j \in 1 .. Len(texts[i]) : t[j] = w[m + j - 1]
    <3>1. w \in Seq(Byte)
      BY <1>0
    <3> HIDE DEF m, e
    <3>2. /\ SubSeq(w, m, e) \in Seq(Byte) /\ Len(SubSeq(w, m, e)) = e - m + 1
          /\ \A j \in 1 .. e - m + 1 : SubSeq(w, m, e)[j] = w[m + j - 1]
      BY <2>1, <3>1, Part
    <3> QED
      BY <2>1, <3>2
  <2>4. TextAt(w, c) = t
    BY <1>6 DEF TextAt
  <2> HIDE DEF t
  <2>3. ASSUME NEW j \in 1 .. Len(texts[i])
        PROVE  t[j] = texts[i][j]
    <3>0. j \in Nat /\ 1 <= j /\ j <= Len(texts[i])
      BY <1>2
    <3>1. m + j - 1 = c + 3 + j /\ c + 3 + j \in 1 .. Len(w) /\ c + 3 + j <= c + 3 + Len(texts[i])
      <4>1. \A a, b, d, k \in Nat : a + 3 + b <= d /\ 1 <= k /\ k <= b =>
              /\ (a + 4) + k - 1 = a + 3 + k /\ a + 3 + k \in 1 .. d
              /\ a + 3 + k <= a + 3 + b
        OBVIOUS
      <4>2. c + 3 + Len(texts[i]) <= Len(w)
        BY <1>1, <1>7
      <4> QED
        BY <1>2, <3>0, <4>1, <4>2
    <3>2. w[c + 3 + j] = packet[c + 3 + j]
      BY <1>4, <3>1
    <3> HIDE DEF m
    <3> QED
      BY <1>1, <2>2, <3>1, <3>2
  <2>5. t = texts[i]
    BY <1>2, <2>2, <2>3, SameText
  <2> QED
    BY <2>4, <2>5
<1> QED
  BY <1>1, <1>6, <1>7 DEF c

\* The fields of ids, with values, are put one after the other into r.
Gathers(r, n, ids, values) ==
  /\ r[0] = <<>>
  /\ \A i \in 1 .. n : ids[i] \notin DOMAIN r[i - 1]
                       /\ r[i] = With(r[i - 1], ids[i], values[i])

LEMMA Gathered ==
  ASSUME NEW n \in Nat, NEW ids, NEW values, NEW r, Gathers(r, n, ids, values)
  PROVE  /\ \A i \in 0 .. n : DOMAIN r[i] = {ids[j] : j \in 1 .. i}
         /\ \A j \in 1 .. n : r[n][ids[j]] = values[j]
         /\ \A i, j \in 1 .. n : j < i => ids[j] # ids[i]
<1>1. /\ r[0] = <<>>
      /\ \A i \in 1 .. n : ids[i] \notin DOMAIN r[i - 1]
                           /\ r[i] = With(r[i - 1], ids[i], values[i])
  BY DEF Gathers
<1> DEFINE Upto(i) == {ids[j] : j \in 1 .. i}
           S == {i \in 0 .. n : /\ DOMAIN r[i] = Upto(i)
                                /\ \A j \in 1 .. i : r[i][ids[j]] = values[j]}
<1>2. 0 \in S
  <2>1. DOMAIN r[0] = {} /\ Upto(0) = {} /\ 1 .. 0 = {}
    BY <1>1
  <2> QED
    BY <2>1
<1>3. ASSUME NEW i \in 1 .. n, i - 1 \in S
      PROVE  i \in S
  <2>1. /\ DOMAIN r[i - 1] = Upto(i - 1)
        /\ \A j \in 1 .. i - 1 : r[i - 1][ids[j]] = values[j]
    BY <1>3
  <2>2. ids[i] \notin DOMAIN r[i - 1] /\ r[i] = With(r[i - 1], ids[i], values[i])
    BY <1>1
  <2>3. /\ DOMAIN r[i] = DOMAIN r[i - 1] \cup {ids[i]} /\ r[i][ids[i]] = values[i]
        /\ \A f \in DOMAIN r[i - 1] : r[i][f] = r[i - 1][f]
    BY <2>2 DEF With
  <2>4. \A j \in 1 .. i : j = i \/ j \in 1 .. i - 1
    OBVIOUS
  <2>5. Upto(i) = Upto(i - 1) \cup {ids[i]}
    <3>1. i \in 1 .. i /\ \A j \in 1 .. i - 1 : j \in 1 .. i
      OBVIOUS
    <3> QED
      BY <2>4, <3>1
  <2>6. ASSUME NEW j \in 1 .. i
        PROVE  r[i][ids[j]] = values[j]
    <3>1. CASE j = i
      BY <2>3, <3>1
    <3>2. CASE j \in 1 .. i - 1
      <4>1. ids[j] \in DOMAIN r[i - 1]
        BY <2>1, <3>2
      <4> QED
        BY <2>1, <2>3, <3>2, <4>1
    <3> QED
      BY <2>4, <3>1, <3>2
  <2>7. i \in 0 .. n /\ DOMAIN r[i] = Upto(i)
    BY <2>1, <2>3, <2>5
  <2> HIDE DEF Upto
  <2> QED
    BY <2>6, <2>7
<1> HIDE DEF S
<1>4. \A i \in 0 .. n : i \in S
  BY <1>2, <1>3, UpTo
<1>5. \A i \in 0 .. n : DOMAIN r[i] = Upto(i)
  BY <1>4 DEF S
<1>6. \A j \in 1 .. n : r[n][ids[j]] = values[j]
  <2>1. n \in 0 .. n
    OBVIOUS
  <2>2. n \in S
    BY <1>4, <2>1
  <2> QED
    BY <2>2 DEF S
<1>7. ASSUME NEW i \in 1 .. n, NEW j \in 1 .. n, j < i
      PROVE  ids[j] # ids[i]
  <2>1. i - 1 \in 0 .. n /\ j \in 1 .. i - 1
    BY <1>7
  <2>2. ids[j] \in DOMAIN r[i - 1]
    BY <1>5, <2>1
  <2> QED
    BY <1>1, <2>2
<1> QED
  BY <1>5, <1>6, <1>7

\* Without an error, the rounds read the fields one after the other, and none
\* is there twice.
LEMMA Followed ==
  ASSUME NEW w, NEW n, NEW ids, NEW texts, NEW packet, NEW off,
         Follows(w, n, ids, texts, packet, off), NEW s, Rounds(w, s),
         ReadFields(w).error = "None"
  PROVE  /\ s[n].cursor = Len(packet)
         /\ \A i \in 1 .. n : Readable(ids[i], texts[i])
         /\ Gathers([i \in 0 .. n |-> s[i].read], n, ids,
                    [i \in 1 .. n |-> ValueOf(ids[i], texts[i])])
<1>1. /\ n \in Nat /\ ids \in [1 .. n -> Fields] /\ texts \in [1 .. n -> Seq(Byte)]
      /\ packet \in Seq(Byte) /\ Planned(packet, n, ids, texts, off)
      /\ w \in Seq(Byte) /\ Len(w) >= 6 /\ w[6] = n /\ Agrees(w, packet)
      /\ \A i \in 1 .. n : Short(texts[i])
  BY DEF Follows
<1>2. \A i \in 1 .. n : /\ s[i - 1] \in RoundStates(w) /\ CanRead(w, s[i - 1])
                        /\ s[i] = RoundAfter(w, s[i - 1])
  <2>1. w \in Seq(Byte) /\ Len(w) >= 6
    BY <1>1
  <2>2. \A i \in 1 .. w[6] : /\ s[i - 1] \in RoundStates(w) /\ CanRead(w, s[i - 1])
                             /\ s[i] = RoundAfter(w, s[i - 1])
    BY <2>1, NoErrorBefore
  <2> QED
    BY <1>1, <2>2
<1>3. s[0] = FirstRound /\ off[0] = 6 /\ off[n] = Len(packet) /\ off \in [0 .. n -> Nat]
  BY <1>1 DEF Rounds, Planned
<1>l. Len(w) \in Nat /\ n \in Nat
  BY <1>1
<1>4. ASSUME NEW i \in 1 .. n, s[i - 1].cursor = off[i - 1]
      PROVE  /\ s[i].cursor = off[i]
             /\ ids[i] \notin DOMAIN s[i - 1].read /\ Readable(ids[i], texts[i])
             /\ s[i].read = With(s[i - 1].read, ids[i], ValueOf(ids[i], texts[i]))
  <2> DEFINE c == off[i - 1]
  <2>1. /\ Len(w) - c >= 3 /\ IdAt(w, c) \notin DOMAIN s[i - 1].read
        /\ SizeAt(w, c) <= Len(w) - c - 3 /\ Readable(IdAt(w, c), TextAt(w, c))
    BY <1>2, <1>4 DEF CanRead
  <2>2. /\ s[i].cursor = c + 3 + SizeAt(w, c)
        /\ s[i].read = With(s[i - 1].read, IdAt(w, c), ValueOf(IdAt(w, c), TextAt(w, c)))
    <3>1. /\ RoundAfter(w, s[i - 1]).cursor = c + 3 + SizeAt(w, c)
          /\ RoundAfter(w, s[i - 1]).read
               = With(s[i - 1].read, IdAt(w, c), ValueOf(IdAt(w, c), TextAt(w, c)))
      <4>0. w \in Seq(Byte)
        BY <1>1
      <4>1. s[i - 1] \in RoundStates(w)
        BY <1>2
      <4>2. PICK q \in RoundStates(w) : q = s[i - 1]
        BY <4>1
      <4>3. /\ RoundAfter(w, q).cursor = q.cursor + 3 + SizeAt(w, q.cursor)
            /\ RoundAfter(w, q).read = With(q.read, IdAt(w, q.cursor),
                                      ValueOf(IdAt(w, q.cursor), TextAt(w, q.cursor)))
        BY <4>0, AfterFields
      <4> QED
        BY <1>4, <4>2, <4>3
    <3> QED
      BY <1>2, <3>1
  <2>3. c \in Nat /\ texts[i] \in Seq(Byte) /\ Len(texts[i]) \in Nat
    <3>1. i - 1 \in 0 .. n
      BY <1>1
    <3> QED
      BY <1>1, <1>3, <3>1
  <2>4. c + 3 <= Len(w)
    BY <1>l, <2>1, <2>3
  <2>5. /\ IdAt(w, c) = ids[i] /\ SizeAt(w, c) = Len(texts[i])
        /\ off[i] = c + 3 + Len(texts[i])
        /\ off[i] <= Len(w) => TextAt(w, c) = texts[i]
    <3>3. off[i - 1] + 3 <= Len(w)
      BY <2>4
    <3> HIDE DEF c
    <3>4. /\ IdAt(w, off[i - 1]) = ids[i] /\ SizeAt(w, off[i - 1]) = Len(texts[i])
          /\ off[i] = off[i - 1] + 3 + Len(texts[i])
          /\ off[i] <= Len(w) => TextAt(w, off[i - 1]) = texts[i]
      BY <3>3, RoundReads
    <3> QED
      BY <3>4 DEF c
  <2> HIDE DEF c
  <2>6. off[i] <= Len(w)
    <3>1. \A a, b, d, e \in Nat : e = a + 3 + b /\ b <= d - a - 3 => e <= d
      OBVIOUS
    <3>2. off[i] \in Nat
      BY <1>1, <1>3
    <3> QED
      BY <1>l, <2>1, <2>3, <2>5, <3>1, <3>2
  <2> QED
    BY <2>1, <2>2, <2>5, <2>6
<1> DEFINE S == {i \in 0 .. n : s[i].cursor = off[i]}
<1>5. 0 \in S
  BY <1>1, <1>3 DEF FirstRound
<1>6. ASSUME NEW i \in 1 .. n, i - 1 \in S
      PROVE  i \in S
  BY <1>1, <1>4, <1>6
<1>7. \A i \in 0 .. n : i \in S
  <2> HIDE DEF S
  <2> QED
    BY <1>l, <1>5, <1>6, UpTo
<1>8. \A i \in 1 .. n : s[i - 1].cursor = off[i - 1]
  <2>1. \A i \in 1 .. n : i - 1 \in 0 .. n
    BY <1>1
  <2> QED
    BY <1>7, <2>1
<1>9. s[n].cursor = Len(packet)
  <2>1. n \in 0 .. n
    BY <1>1
  <2> QED
    BY <1>3, <1>7, <2>1
<1>10. \A i \in 1 .. n : Readable(ids[i], texts[i])
  BY <1>4, <1>8
<1>11. Gathers([i \in 0 .. n |-> s[i].read], n, ids,
               [i \in 1 .. n |-> ValueOf(ids[i], texts[i])])
  <2> DEFINE r == [i \in 0 .. n |-> s[i].read]
             values == [i \in 1 .. n |-> ValueOf(ids[i], texts[i])]
  <2>1. r[0] = <<>>
    BY <1>1, <1>3 DEF FirstRound
  <2>2. ASSUME NEW i \in 1 .. n
        PROVE  ids[i] \notin DOMAIN r[i - 1] /\ r[i] = With(r[i - 1], ids[i], values[i])
    <3>1. i \in 0 .. n /\ i - 1 \in 0 .. n
      BY <1>1
    <3>2. /\ ids[i] \notin DOMAIN s[i - 1].read
          /\ s[i].read = With(s[i - 1].read, ids[i], ValueOf(ids[i], texts[i]))
      BY <1>4, <1>8
    <3>3. r[i] = s[i].read /\ r[i - 1] = s[i - 1].read /\ values[i] = ValueOf(ids[i], texts[i])
      BY <3>1
    <3> QED
      BY <3>2, <3>3
  <2> HIDE DEF r, values
  <2>3. Gathers(r, n, ids, values)
    BY <2>1, <2>2 DEF Gathers
  <2> QED
    BY <2>3 DEF r, values
<1> QED
  BY <1>9, <1>10, <1>11

\* Fields that are all readable, and none of which is there twice, are read.
LEMMA NothingLost ==
  ASSUME NEW w, NEW n, NEW ids, NEW texts, NEW off, Follows(w, n, ids, texts, w, off),
         \A i \in 1 .. n : Readable(ids[i], texts[i]),
         \A i, j \in 1 .. n : j < i => ids[j] # ids[i]
  PROVE  ReadFields(w).error = "None"
<1>1. /\ n \in Nat /\ ids \in [1 .. n -> Fields] /\ texts \in [1 .. n -> Seq(Byte)]
      /\ w \in Seq(Byte) /\ Planned(w, n, ids, texts, off)
      /\ Len(w) >= 6 /\ w[6] = n /\ Agrees(w, w)
      /\ \A i \in 1 .. n : Short(texts[i])
  BY DEF Follows
<1>2. PICK s : Rounds(w, s)
  BY <1>1, RoundsExist
<1>3. /\ \A i \in 0 .. n : s[i] \in RoundStates(w)
      /\ s[0] = FirstRound /\ ReadFields(w) = s[n]
      /\ \A i \in 1 .. n : s[i] = ReadField(w, s[i - 1])
  BY <1>1, <1>2 DEF Rounds
<1>4. off[0] = 6 /\ off \in [0 .. n -> Nat]
  BY <1>1 DEF Planned
<1>l. Len(w) \in Nat /\ n \in Nat
  BY <1>1
<1> DEFINE S == {i \in 0 .. n : /\ s[i].error = "None" /\ s[i].cursor = off[i]
                                /\ DOMAIN s[i].read \subseteq {ids[j] : j \in 1 .. i}}
<1>5. 0 \in S
  <2>1. s[0].error = "None" /\ s[0].cursor = 6 /\ s[0].read = <<>>
    BY <1>3 DEF FirstRound
  <2>2. DOMAIN s[0].read = {}
    BY <2>1
  <2> QED
    BY <1>1, <1>4, <2>1, <2>2
<1>6. ASSUME NEW i \in 1 .. n, i - 1 \in S
      PROVE  i \in S
  <2> DEFINE c == off[i - 1]
             q == s[i - 1]
  <2>1. /\ q.error = "None" /\ q.cursor = c
        /\ DOMAIN q.read \subseteq {ids[j] : j \in 1 .. i - 1}
    BY <1>6
  <2>2. i \in 0 .. n /\ i - 1 \in 0 .. n
    BY <1>1
  <2>3. c \in Nat /\ texts[i] \in Seq(Byte) /\ Len(texts[i]) \in Nat /\ off[i] \in Nat
    BY <1>1, <1>4, <2>2
  <2>4. off[i] = c + 3 + Len(texts[i]) /\ off[i] <= Len(w)
    BY <1>1 DEF Planned, FieldAt
  <2>5. c + 3 <= Len(w) /\ Len(w) - c >= 3
    <3> HIDE DEF c
    <3> QED
      <4>1. \A a, b, d, e \in Nat : e = a + 3 + b /\ e <= d => a + 3 <= d /\ d - a >= 3
        OBVIOUS
      <4> QED
        BY <1>l, <2>3, <2>4, <4>1
  <2>6. IdAt(w, c) = ids[i] /\ SizeAt(w, c) = Len(texts[i]) /\ TextAt(w, c) = texts[i]
    <3>1. /\ IdAt(w, c) = ids[i] /\ SizeAt(w, c) = Len(texts[i])
          /\ off[i] <= Len(w) => TextAt(w, c) = texts[i]
      <4> QED
        BY <2>5, RoundReads
    <3> QED
      BY <2>4, <3>1
  <2>7. ids[i] \in Fields /\ ids[i] \notin DOMAIN q.read
    <3>1. \A j \in 1 .. i - 1 : j \in 1 .. n /\ j < i
      BY <1>1
    <3>2. \A j \in 1 .. i - 1 : ids[j] # ids[i]
      BY <3>1
    <3>3. ids[i] \in Fields
      BY <1>1
    <3>4. ids[i] \notin {ids[j] : j \in 1 .. i - 1}
      BY <3>2
    <3> HIDE DEF q
    <3> QED
      BY <2>1, <3>3, <3>4
  <2> HIDE DEF c, q
  <2>8. Len(texts[i]) <= Len(w) - c - 3
    <3>1. \A a, b, d, e \in Nat : e = a + 3 + b /\ e <= d => b <= d - a - 3
      OBVIOUS
    <3> QED
      BY <1>l, <2>3, <2>4, <3>1
  <2>9. CanRead(w, q)
    BY <2>1, <2>5, <2>6, <2>7, <2>8 DEF CanRead
  <2>10. q \in RoundStates(w) /\ s[i] = ReadField(w, q)
    BY <1>3, <2>2 DEF q
  <2>11. s[i] = RoundAfter(w, q)
    BY <1>1, <2>1, <2>9, <2>10, RoundDoes
  <2>12. /\ s[i].cursor = c + 3 + SizeAt(w, c) /\ s[i].error = "None"
         /\ s[i].read = With(q.read, IdAt(w, c), ValueOf(IdAt(w, c), TextAt(w, c)))
    BY <1>1, <2>1, <2>10, <2>11, AfterFields
  <2>13. DOMAIN s[i].read = DOMAIN q.read \cup {ids[i]}
    BY <2>6, <2>12 DEF With
  <2>14. DOMAIN s[i].read \subseteq {ids[j] : j \in 1 .. i}
    <3>1. i \in 1 .. i /\ \A j \in 1 .. i - 1 : j \in 1 .. i
      OBVIOUS
    <3> QED
      BY <2>1, <2>13, <3>1
  <2> QED
    BY <2>2, <2>4, <2>6, <2>12, <2>14
<1>7. n \in S
  <2>1. n \in 0 .. n
    BY <1>1
  <2> HIDE DEF S
  <2>2. \A i \in 0 .. n : i \in S
    BY <1>l, <1>5, <1>6, UpTo
  <2> QED
    BY <2>1, <2>2
<1> QED
  BY <1>3, <1>7

LEMMA HeadRead ==
  ASSUME NEW w \in Seq(Byte), Len(w) >= 6
  PROVE  SubSeq(w, 1, 4) = Magic <=> \A k \in 1 .. 4 : w[k] = Magic[k]
<1> DEFINE t == SubSeq(w, 1, 4)
<1>1. Magic \in Seq(Byte) /\ Len(Magic) = 4
  BY DEF Magic, Byte
<1>2. t \in Seq(Byte) /\ Len(t) = 4 /\ \A j \in 1 .. 4 : t[j] = w[j]
  <2>1. /\ t \in Seq(Byte) /\ Len(t) = 4 - 1 + 1
        /\ \A j \in 1 .. 4 - 1 + 1 : t[j] = w[1 + j - 1]
    <3>1. Len(w) \in Nat /\ 4 <= Len(w)
      OBVIOUS
    <3> QED
      BY <3>1, Part
  <2>2. \A j \in 1 .. 4 : 1 + j - 1 = j
    OBVIOUS
  <2> HIDE DEF t
  <2> QED
    BY <2>1, <2>2
<1> HIDE DEF t
<1>3. (\A k \in 1 .. 4 : t[k] = Magic[k]) => t = Magic
  BY <1>1, <1>2, SameText
<1>4. t = Magic <=> \A k \in 1 .. 4 : w[k] = Magic[k]
  BY <1>2, <1>3
<1> QED
  BY <1>4 DEF t

\* What the last round ends with, for an input that is accepted.
ReadWhole(input) ==
  LET s == ReadFields(input)
  IN  s.error = "None" /\ s.cursor = Len(input) /\ DOMAIN s.read = Fields /\ Valid(s.read)

LEMMA AcceptedMeans ==
  ASSUME NEW w \in Seq(Byte)
  PROVE  /\ Accepted(w) <=> /\ Len(w) <= MaxWireBytes /\ Len(w) >= 6
                            /\ SubSeq(w, 1, 4) = Magic /\ w[5] = Version /\ ReadWhole(w)
         /\ Accepted(w) => Decode(w) = ReadFields(w)
<1> DEFINE q == ReadFields(w)
<1>1. Len(w) \in Nat /\ MaxWireBytes \in Nat
  <2>1. Len(w) \in Nat
    OBVIOUS
  <2> QED
    BY <2>1, ShorterIsShort
<1>2. Len(w) >= 6 => q \in RoundStates(w)
  <2> SUFFICES ASSUME Len(w) >= 6 PROVE q \in RoundStates(w)
    OBVIOUS
  <2>1. w[6] \in Nat /\ \E s : Rounds(w, s)
    BY RoundsExist
  <2>2. w[6] \in 0 .. w[6]
    BY <2>1
  <2> QED
    BY <2>1, <2>2 DEF Rounds
<1>3. ASSUME Len(w) >= 6
      PROVE  /\ Finished(w, q).error = "None" <=> ReadWhole(w)
             /\ Finished(w, q).error = "None" => Finished(w, q) = q
  <2>1. \A e \in {"Truncated", "MissingField", "InvalidConfig"} :
          Error(q, e).error = e
    <3>1. q \in [cursor : Nat, read : Reads, error : Errors]
      BY <1>2, <1>3 DEF RoundStates
    <3> HIDE DEF q
    <3> QED
      BY <3>1 DEF Error
  <2> HIDE DEF q
  <2>2. \/ Finished(w, q) = q /\ (q.error # "None" \/ ReadWhole(w))
        \/ \E e \in {"Truncated", "MissingField", "InvalidConfig"} :
             Finished(w, q) = Error(q, e) /\ ~ ReadWhole(w)
    BY DEF Finished, ReadWhole, q
  <2>3. \A e \in {"Truncated", "MissingField", "InvalidConfig"} : e # "None"
    OBVIOUS
  <2>4. ReadWhole(w) => q.error = "None"
    BY DEF ReadWhole, q
  <2> QED
    BY <2>1, <2>2, <2>3, <2>4
<1>4. CASE /\ ~ (Len(w) > MaxWireBytes) /\ ~ (Len(w) < 6)
           /\ SubSeq(w, 1, 4) = Magic /\ w[5] = Version
  <2>1. Decode(w) = Finished(w, q)
    BY <1>4 DEF Decode
  <2>2. Len(w) >= 6 /\ Len(w) <= MaxWireBytes
    BY <1>1, <1>4
  <2> HIDE DEF q
  <2> QED
    BY <1>3, <1>4, <2>1, <2>2 DEF Accepted, q
<1>5. CASE ~ (/\ ~ (Len(w) > MaxWireBytes) /\ ~ (Len(w) < 6)
              /\ SubSeq(w, 1, 4) = Magic /\ w[5] = Version)
  <2>1. \E e \in {"TooLarge", "Truncated", "BadMagic", "UnsupportedVersion"} :
          Decode(w) = [cursor |-> 0, read |-> <<>>, error |-> e]
    BY <1>5 DEF Decode
  <2>2. \A e \in {"TooLarge", "Truncated", "BadMagic", "UnsupportedVersion"} :
          [cursor |-> 0, read |-> <<>>, error |-> e].error # "None"
    OBVIOUS
  <2>3. ~ Accepted(w)
    BY <2>1, <2>2 DEF Accepted
  <2>4. ~ (Len(w) <= MaxWireBytes /\ Len(w) >= 6 /\ SubSeq(w, 1, 4) = Magic /\ w[5] = Version)
    BY <1>1, <1>5
  <2> QED
    BY <2>3, <2>4
<1> QED
  BY <1>4, <1>5

LEMMA FieldSets ==
  /\ Fields = {1, 2, 3, 4, 5, 6, 7, 8, 9, 10, 11, 12, 13} /\ Fields = 1 .. 13
  /\ Volume \in Fields /\ Volume \notin Booleans /\ Booleans \subseteq Fields
  /\ \A f \in Fields : f \in Texts <=> f \notin Booleans /\ f # Volume
  /\ Texts \subseteq Fields
<1>1. Fields = {1, 2, 3, 4, 5, 6, 7, 8, 9, 10, 11, 12, 13} /\ Fields = 1 .. 13
  BY DEF Fields, FieldCount
<1> QED
  BY <1>1 DEF Volume, Booleans, Texts, Enabled

LEMMA ConfigTyped ==
  ASSUME NEW c
  PROVE  IsConfig(c) <=> /\ c = [f \in Fields |-> c[f]]
                         /\ \A f \in Fields : c[f] \in ValueSet(f)
<1>1. 0 .. 255 = Byte
  BY DEF Byte
<1>2. /\ Volume \notin Booleans /\ Volume \in Fields /\ Booleans \subseteq Fields
      /\ Texts \subseteq Fields
      /\ \A f \in Fields : f \in Texts <=> f \notin Booleans /\ f # Volume
  BY FieldSets
<1>3. \A f \in Booleans : ValueSet(f) = BOOLEAN
  BY DEF ValueSet
<1>4. ValueSet(Volume) = 0 .. 255
  BY <1>2 DEF ValueSet
<1>5. \A f \in Texts : ValueSet(f) = Seq(Byte)
  BY <1>2 DEF ValueSet
<1>6. (\A f \in Fields : c[f] \in ValueSet(f))
      <=> /\ \A f \in Texts : c[f] \in Seq(Byte)
          /\ \A f \in Booleans : c[f] \in BOOLEAN
          /\ c[Volume] \in 0 .. 255
  <2>1. (\A f \in Fields : c[f] \in ValueSet(f))
        <=> /\ \A f \in Texts : c[f] \in ValueSet(f)
            /\ \A f \in Booleans : c[f] \in ValueSet(f)
            /\ c[Volume] \in ValueSet(Volume)
    <3>1. \A f \in Fields : f \in Texts \/ f \in Booleans \/ f = Volume
      BY <1>2
    <3> QED
      BY <1>2, <3>1
  <2> QED
    BY <1>3, <1>4, <1>5, <2>1
<1> QED
  BY <1>1, <1>6 DEF IsConfig

\* What is accepted is a valid configuration, and what it would be encoded as
\* takes no more room.
LEMMA AcceptedConfig ==
  ASSUME NEW w \in Seq(Byte), Accepted(w)
  PROVE  /\ IsConfig(Decode(w).read) /\ Valid(Decode(w).read)
         /\ 6 + Room(Decode(w).read) <= Len(w) /\ Len(w) <= MaxWireBytes
<1> DEFINE q == ReadFields(w)
<1>1. Len(w) >= 6 /\ Len(w) <= MaxWireBytes /\ ReadWhole(w) /\ Decode(w) = q
  BY AcceptedMeans
<1>2. q \in RoundStates(w)
  <2>1. w[6] \in Nat /\ \E s : Rounds(w, s)
    BY <1>1, RoundsExist
  <2>2. w[6] \in 0 .. w[6]
    BY <2>1
  <2> QED
    BY <2>1, <2>2 DEF Rounds
<1>3. DOMAIN q.read = Fields /\ Valid(q.read) /\ q.cursor = Len(w)
  BY <1>1 DEF ReadWhole
<1> HIDE DEF q
<1>4. q.read \in Reads /\ 6 + Room(q.read) <= Len(w)
  BY <1>2, <1>3 DEF RoundStates
<1>5. IsConfig(q.read)
  BY <1>3, <1>4, ReadsTyped, ConfigTyped
<1> QED
  BY <1>1, <1>3, <1>4, <1>5

\* The text of each field of a configuration can be read, and as its value.
LEMMA ConfigTexts ==
  ASSUME NEW c, IsConfig(c), NEW f \in Fields
  PROVE  /\ TextOf(f, c[f]) \in Seq(Byte) /\ Readable(f, TextOf(f, c[f]))
         /\ ValueOf(f, TextOf(f, c[f])) = c[f]
<1>1. c[f] \in ValueSet(f)
  BY ConfigTyped
<1> QED
  BY <1>1, TextTyped

\* The fields of a configuration in some order.
Ordered(c, ids) ==
  [i \in 1 .. 13 |-> Field(ids[i], TextOf(ids[i], c[ids[i]]))]

Permutation(ids) ==
  /\ ids \in [1 .. 13 -> Fields] /\ {ids[i] : i \in 1 .. 13} = Fields
  /\ \A i, j \in 1 .. 13 : j < i => ids[j] # ids[i]

\* What the rounds end with has the values of those fields, each of which was
\* there once.
Carries(s, n, ids, texts) ==
  /\ s.read \in Reads /\ DOMAIN s.read = {ids[i] : i \in 1 .. n}
  /\ \A i, j \in 1 .. n : j < i => ids[j] # ids[i]
  /\ \A i \in 1 .. n : /\ Readable(ids[i], texts[i])
                       /\ s.read[ids[i]] = ValueOf(ids[i], texts[i])

\* A packet that is read to the end has the values that were put there.
LEMMA ReadAsSent ==
  ASSUME NEW w, NEW n, NEW ids, NEW texts, NEW packet, NEW off,
         Follows(w, n, ids, texts, packet, off), ReadFields(w).error = "None"
  PROVE  ReadFields(w).cursor = Len(packet) /\ Carries(ReadFields(w), n, ids, texts)
<1>1. n \in Nat /\ n \in 0 .. n /\ w \in Seq(Byte) /\ Len(w) >= 6 /\ w[6] = n
  BY DEF Follows
<1>2. PICK s : Rounds(w, s)
  BY <1>1, RoundsExist
<1>3. s[n] = ReadFields(w) /\ s[n] \in RoundStates(w)
  BY <1>1, <1>2 DEF Rounds
<1> DEFINE r == [i \in 0 .. n |-> s[i].read]
           values == [i \in 1 .. n |-> ValueOf(ids[i], texts[i])]
<1>4. /\ s[n].cursor = Len(packet) /\ Gathers(r, n, ids, values)
      /\ \A i \in 1 .. n : Readable(ids[i], texts[i])
  BY <1>2, Followed
<1>5. r[n] = ReadFields(w).read /\ \A i \in 1 .. n : values[i] = ValueOf(ids[i], texts[i])
  BY <1>1, <1>3
<1>9. ReadFields(w).read \in Reads
  BY <1>3 DEF RoundStates
<1> HIDE DEF r, values
<1>6. /\ \A i \in 0 .. n : DOMAIN r[i] = {ids[j] : j \in 1 .. i}
      /\ \A j \in 1 .. n : r[n][ids[j]] = values[j]
      /\ \A i, j \in 1 .. n : j < i => ids[j] # ids[i]
  BY <1>1, <1>4, Gathered, SMTT(30)
<1>7. DOMAIN r[n] = {ids[j] : j \in 1 .. n}
  BY <1>1, <1>6
<1> QED
  BY <1>3, <1>4, <1>5, <1>6, <1>7, <1>9 DEF Carries

LEMMA OrderedPlanned ==
  ASSUME NEW c, IsConfig(c), NEW ids \in [1 .. 13 -> Fields]
  PROVE  LET packet == Packet(Ordered(c, ids))
             texts  == [i \in 1 .. 13 |-> TextOf(ids[i], c[ids[i]])]
         IN  /\ packet \in Seq(Byte) /\ Headed(packet, 13) /\ Len(packet) >= 6
             /\ texts \in [1 .. 13 -> Seq(Byte)]
             /\ \A i \in 1 .. 13 : Len(texts[i]) <= Len(packet)
             /\ \E off : Planned(packet, 13, ids, texts, off)
<1> DEFINE texts == [i \in 1 .. 13 |-> TextOf(ids[i], c[ids[i]])]
<1>1. texts \in [1 .. 13 -> Seq(Byte)]
  BY ConfigTexts
<1>2. \A i \in 1 .. 13 : texts[i] = TextOf(ids[i], c[ids[i]])
  OBVIOUS
<1> HIDE DEF texts
<1>3. Ordered(c, ids) = [i \in 1 .. 13 |-> Field(ids[i], texts[i])]
  BY <1>2 DEF Ordered
<1>4. 13 \in 1 .. 255
  BY SMTT(30)
<1>5. LET packet == Packet([i \in 1 .. 13 |-> Field(ids[i], texts[i])])
      IN  /\ packet \in Seq(Byte) /\ Headed(packet, 13) /\ Len(packet) >= 6
          /\ \A i \in 1 .. 13 : Len(texts[i]) <= Len(packet)
          /\ \E off : Planned(packet, 13, ids, texts, off)
  BY <1>1, <1>4, PacketPlanned, ZenonT(30)
<1> QED
  BY <1>1, <1>3, <1>5, ZenonT(30) DEF texts

-----------------------------------------------------------------------------
(* A configuration as it is sent.                                          *)

IsPacket(packet, n, ids, texts) ==
  /\ n \in 1 .. 255 /\ ids \in [1 .. n -> Fields] /\ texts \in [1 .. n -> Seq(Byte)]
  /\ packet = Packet([i \in 1 .. n |-> Field(ids[i], texts[i])])

LEMMA PacketHas ==
  ASSUME NEW packet, NEW n, NEW ids, NEW texts, IsPacket(packet, n, ids, texts)
  PROVE  /\ packet \in Seq(Byte) /\ Headed(packet, n) /\ Len(packet) >= 6
         /\ \A i \in 1 .. n : Len(texts[i]) <= Len(packet)
         /\ \E off : Planned(packet, n, ids, texts, off)
<1>1. LET p == Packet([i \in 1 .. n |-> Field(ids[i], texts[i])])
      IN  /\ p \in Seq(Byte) /\ Headed(p, n) /\ Len(p) >= 6
          /\ \A i \in 1 .. n : Len(texts[i]) <= Len(p)
          /\ \E off : Planned(p, n, ids, texts, off)
  <2>1. n \in 1 .. 255 /\ ids \in [1 .. n -> Fields] /\ texts \in [1 .. n -> Seq(Byte)]
    BY DEF IsPacket
  <2> QED
    BY <2>1, PacketPlanned, ZenonT(30)
<1> QED
  BY <1>1, ZenonT(30) DEF IsPacket

\* Whatever agrees with a packet as far as it goes, and is accepted, is as long
\* and has its fields.
LEMMA AcceptedAsSent ==
  ASSUME NEW packet, NEW n, NEW ids, NEW texts, IsPacket(packet, n, ids, texts),
         NEW w \in Seq(Byte), Accepted(w), Agrees(w, packet), Short(packet)
  PROVE  /\ Len(w) = Len(packet) /\ Carries(Decode(w), n, ids, texts)
         /\ DOMAIN Decode(w).read = Fields
<1>1. /\ packet \in Seq(Byte) /\ Headed(packet, n) /\ Len(packet) >= 6
      /\ \A i \in 1 .. n : Len(texts[i]) <= Len(packet)
      /\ \E off : Planned(packet, n, ids, texts, off)
  BY PacketHas
<1>2. PICK off : Planned(packet, n, ids, texts, off)
  BY <1>1
<1>3. Len(w) >= 6 /\ ReadWhole(w) /\ Decode(w) = ReadFields(w)
  BY AcceptedMeans
<1>l. /\ n \in 1 .. 255 /\ ids \in [1 .. n -> Fields] /\ texts \in [1 .. n -> Seq(Byte)]
      /\ Len(w) \in Nat /\ Len(packet) \in Nat /\ \A i \in 1 .. n : Len(texts[i]) \in Nat
  BY <1>1 DEF IsPacket
<1>4. w[6] = n
  <2>1. 6 \in 1 .. Len(w)
    BY <1>3, <1>l
  <2>2. w[6] = packet[6]
    BY <1>1, <2>1 DEF Agrees
  <2> QED
    BY <1>1, <2>2 DEF Headed
<1>5. \A i \in 1 .. n : Short(texts[i])
  BY <1>1, <1>l, ShorterIsShort
<1>6. Follows(w, n, ids, texts, packet, off)
  BY <1>1, <1>2, <1>3, <1>4, <1>5, <1>l DEF Follows
<1>7. /\ ReadFields(w).error = "None" /\ ReadFields(w).cursor = Len(w)
      /\ DOMAIN ReadFields(w).read = Fields
  BY <1>3 DEF ReadWhole
<1>8. ReadFields(w).cursor = Len(packet) /\ Carries(ReadFields(w), n, ids, texts)
  BY <1>6, <1>7, ReadAsSent
<1> QED
  BY <1>3, <1>7, <1>8

LEMMA AgreesWithItself ==
  ASSUME NEW w
  PROVE  Agrees(w, w)
BY DEF Agrees

\* A configuration is read as it was sent, in whatever order its fields come.
LEMMA SentInOrder ==
  ASSUME NEW c, IsConfig(c), NEW ids, Permutation(ids),
         NEW w, w = Packet(Ordered(c, ids))
  PROVE  /\ w \in Seq(Byte)
         /\ Accepted(w) <=> Valid(c) /\ Len(w) <= MaxWireBytes
         /\ Accepted(w) => Decode(w).read = c
<1> DEFINE texts == [i \in 1 .. 13 |-> TextOf(ids[i], c[ids[i]])]
<1>1. /\ ids \in [1 .. 13 -> Fields] /\ {ids[i] : i \in 1 .. 13} = Fields
      /\ \A i, j \in 1 .. 13 : j < i => ids[j] # ids[i]
  BY DEF Permutation
<1>2. /\ w \in Seq(Byte) /\ Headed(w, 13) /\ Len(w) >= 6
      /\ texts \in [1 .. 13 -> Seq(Byte)]
      /\ \A i \in 1 .. 13 : Len(texts[i]) <= Len(w)
      /\ \E off : Planned(w, 13, ids, texts, off)
  BY <1>1, OrderedPlanned
<1>3. PICK off : Planned(w, 13, ids, texts, off)
  BY <1>2
<1>4. ASSUME NEW i \in 1 .. 13
      PROVE  Readable(ids[i], texts[i]) /\ ValueOf(ids[i], texts[i]) = c[ids[i]]
  <2>1. ids[i] \in Fields /\ texts[i] = TextOf(ids[i], c[ids[i]])
    BY <1>1
  <2> HIDE DEF texts
  <2> QED
    BY <2>1, ConfigTexts
<1> HIDE DEF texts
<1>5. ASSUME Len(w) <= MaxWireBytes
      PROVE  /\ ReadFields(w).error = "None" /\ ReadFields(w).cursor = Len(w)
             /\ DOMAIN ReadFields(w).read = Fields /\ ReadFields(w).read = c
  <2>1. ASSUME NEW i \in 1 .. 13
        PROVE  Short(texts[i])
    <3>1. Len(w) \in Nat /\ Len(texts[i]) \in Nat /\ Len(texts[i]) <= Len(w)
      <4>1. texts \in [1 .. 13 -> Seq(Byte)] /\ w \in Seq(Byte)
        BY <1>2
      <4>2. \A k \in 1 .. 13 : Len(texts[k]) <= Len(w)
        BY <1>2
      <4>3. texts[i] \in Seq(Byte)
        BY <4>1
      <4>4. Len(texts[i]) <= Len(w)
        BY <4>2
      <4>5. Len(texts[i]) \in Nat
        BY <4>3
      <4>6. Len(w) \in Nat
        BY <4>1
      <4> QED
        BY <4>4, <4>5, <4>6
    <3> QED
      BY <1>5, <3>1, ShorterIsShort
  <2>2. Follows(w, 13, ids, texts, w, off)
    <3>1. w[6] = 13 /\ 13 \in 1 .. 255
      BY <1>2 DEF Headed
    <3> QED
      BY <1>1, <1>2, <1>3, <2>1, <3>1, AgreesWithItself DEF Follows
  <2>3. ReadFields(w).error = "None"
    BY <1>1, <1>4, <2>2, NothingLost
  <2>4. /\ ReadFields(w).cursor = Len(w) /\ ReadFields(w).read \in Reads
        /\ DOMAIN ReadFields(w).read = {ids[i] : i \in 1 .. 13}
        /\ \A i \in 1 .. 13 : ReadFields(w).read[ids[i]] = ValueOf(ids[i], texts[i])
    <3>1. ReadFields(w).cursor = Len(w) /\ Carries(ReadFields(w), 13, ids, texts)
      BY <2>2, <2>3, ReadAsSent
    <3> QED
      BY <3>1 DEF Carries
  <2> DEFINE r == ReadFields(w).read
  <2>5. \A f \in Fields : r[f] = c[f]
    <3>1. \A i \in 1 .. 13 : r[ids[i]] = c[ids[i]]
      BY <1>4, <2>4
    <3>2. \A f \in Fields : \E i \in 1 .. 13 : f = ids[i]
      BY <1>1
    <3> HIDE DEF r
    <3> QED
      BY <3>1, <3>2
  <2>6. r = [f \in Fields |-> r[f]]
    BY <1>1, <2>4, ReadsTyped
  <2>7. c = [f \in Fields |-> c[f]]
    BY DEF IsConfig
  <2> HIDE DEF r
  <2>8. r = c
    BY <2>5, <2>6, <2>7
  <2> QED
    BY <1>1, <2>3, <2>4, <2>8 DEF r
<1>6. SubSeq(w, 1, 4) = Magic /\ w[5] = Version
  BY <1>2, HeadRead DEF Headed
<1>7. Accepted(w) <=> Valid(c) /\ Len(w) <= MaxWireBytes
  <2>1. ASSUME Accepted(w)
        PROVE  Valid(c) /\ Len(w) <= MaxWireBytes
    <3>1. Len(w) <= MaxWireBytes /\ ReadWhole(w)
      BY <1>2, <2>1, AcceptedMeans
    <3> QED
      BY <1>5, <3>1 DEF ReadWhole
  <2>2. ASSUME Valid(c), Len(w) <= MaxWireBytes
        PROVE  Accepted(w)
    <3>1. ReadWhole(w)
      BY <1>5, <2>2 DEF ReadWhole
    <3> QED
      BY <1>2, <1>6, <2>2, <3>1, AcceptedMeans
  <2> QED
    BY <2>1, <2>2
<1>8. Accepted(w) => Decode(w).read = c
  <2> SUFFICES ASSUME Accepted(w) PROVE Decode(w).read = c
    OBVIOUS
  <2>1. Len(w) <= MaxWireBytes /\ Decode(w) = ReadFields(w)
    BY <1>2, AcceptedMeans
  <2> QED
    BY <1>5, <2>1
<1> QED
  BY <1>2, <1>7, <1>8

\* The order in which the device sends the fields, and two of them swapped.
InOrder == [i \in 1 .. 13 |-> i]
Swapped(f, g) == [i \in 1 .. 13 |-> IF i = g THEN f ELSE IF i = f THEN g ELSE i]

LEMMA InOrderPermutes == Permutation(InOrder)
<1>1. Fields = 1 .. 13
  BY FieldSets
<1>2. {InOrder[i] : i \in 1 .. 13} = 1 .. 13
  BY DEF InOrder
<1> QED
  BY <1>1, <1>2 DEF InOrder, Permutation

LEMMA SwappedPermutes ==
  ASSUME NEW f \in Fields, NEW g \in Fields
  PROVE  Permutation(Swapped(f, g))
<1> DEFINE ids == Swapped(f, g)
<1>0. Fields = 1 .. 13
  BY FieldSets
<1>1. f \in 1 .. 13 /\ g \in 1 .. 13
  BY <1>0
<1>2. \A i \in 1 .. 13 : ids[i] = IF i = g THEN f ELSE IF i = f THEN g ELSE i
  BY DEF Swapped
<1>3. ids \in [1 .. 13 -> 1 .. 13]
  BY <1>1 DEF Swapped
<1> HIDE DEF ids
<1>4. \A i, j \in 1 .. 13 : j < i => ids[j] # ids[i]
  BY <1>2
<1>5. \A i \in 1 .. 13 : \E j \in 1 .. 13 : ids[j] = i
  <2> SUFFICES ASSUME NEW i \in 1 .. 13
               PROVE  \E j \in 1 .. 13 : ids[j] = i
    OBVIOUS
  <2>1. CASE i = f
    BY <1>1, <1>2, <2>1
  <2>2. CASE i = g
    BY <1>1, <1>2, <2>2
  <2>3. CASE i # f /\ i # g
    BY <1>2, <2>3
  <2> QED
    BY <2>1, <2>2, <2>3
<1>6. {ids[i] : i \in 1 .. 13} = 1 .. 13
  BY <1>3, <1>5
<1>7. Permutation(ids)
  BY <1>0, <1>3, <1>4, <1>6 DEF Permutation
<1> QED
  BY <1>7 DEF ids

LEMMA FieldsInOrder ==
  ASSUME NEW c, IsConfig(c)
  PROVE  /\ FieldsOf(c) = Ordered(c, InOrder)
         /\ \A f, g \in Fields :
              [FieldsOf(c) EXCEPT ![f] = FieldsOf(c)[g], ![g] = FieldsOf(c)[f]]
                = Ordered(c, Swapped(f, g))
         /\ Encode(c) = Packet(Ordered(c, InOrder))
<1>1. Fields = 1 .. 13
  BY FieldSets
<1> DEFINE fields == FieldsOf(c)
<1>2. \A i \in 1 .. 13 : fields[i] = Field(i, TextOf(i, c[i]))
  BY <1>1 DEF FieldsOf
<1>3. fields = [i \in 1 .. 13 |-> fields[i]]
  BY <1>1 DEF FieldsOf
<1>4. fields = Ordered(c, InOrder)
  <2> HIDE DEF fields
  <2>1. \A i \in 1 .. 13 : InOrder[i] = i
    BY DEF InOrder
  <2> QED
    BY <1>2, <1>3, <2>1 DEF Ordered
<1>5. ASSUME NEW f \in Fields, NEW g \in Fields
      PROVE  [fields EXCEPT ![f] = fields[g], ![g] = fields[f]] = Ordered(c, Swapped(f, g))
  <2> DEFINE ids == Swapped(f, g)
  <2>0. f \in 1 .. 13 /\ g \in 1 .. 13
    BY <1>1
  <2>1. \A i \in 1 .. 13 : ids[i] = IF i = g THEN f ELSE IF i = f THEN g ELSE i
    BY DEF Swapped
  <2> HIDE DEF ids, fields
  <2> DEFINE swapped == [fields EXCEPT ![f] = fields[g], ![g] = fields[f]]
  <2>2. swapped = [i \in 1 .. 13 |-> swapped[i]]
    BY <1>3
  <2>3. \A i \in 1 .. 13 : swapped[i] = IF i = g THEN fields[f] ELSE IF i = f THEN fields[g] ELSE fields[i]
    BY <1>3, <2>0
  <2> HIDE DEF swapped
  <2>4. \A i \in 1 .. 13 : swapped[i] = fields[ids[i]] /\ ids[i] \in 1 .. 13
    BY <2>0, <2>1, <2>3
  <2>5. \A i \in 1 .. 13 : swapped[i] = Field(ids[i], TextOf(ids[i], c[ids[i]]))
    BY <1>2, <2>4
  <2>6. swapped = Ordered(c, ids)
    BY <2>2, <2>5 DEF Ordered
  <2> QED
    BY <2>6 DEF swapped, ids
<1> QED
  BY <1>4, <1>5 DEF Encode

-----------------------------------------------------------------------------
(* What is stored, and packets of another length.                          *)

\* Where the fields of a configuration end, one after the other.
Sized(off, c) ==
  /\ off \in [0 .. 13 -> Nat] /\ off[0] = 6
  /\ \A i \in 1 .. 13 : RoomOf(c, i) \in Nat /\ off[i] = off[i - 1] + RoomOf(c, i)

LEMMA SummedUp ==
  ASSUME NEW c, NEW off, Sized(off, c)
  PROVE  off[13] = 6 + Room(c)
<1>3. /\ off[1] = 6 + RoomOf(c, 1) /\ off[2] = off[1] + RoomOf(c, 2)
      /\ off[3] = off[2] + RoomOf(c, 3) /\ off[4] = off[3] + RoomOf(c, 4)
      /\ off[5] = off[4] + RoomOf(c, 5) /\ off[6] = off[5] + RoomOf(c, 6)
      /\ off[7] = off[6] + RoomOf(c, 7) /\ off[8] = off[7] + RoomOf(c, 8)
      /\ off[9] = off[8] + RoomOf(c, 9) /\ off[10] = off[9] + RoomOf(c, 10)
      /\ off[11] = off[10] + RoomOf(c, 11) /\ off[12] = off[11] + RoomOf(c, 12)
      /\ off[13] = off[12] + RoomOf(c, 13)
  BY DEF Sized
<1>4. /\ RoomOf(c, 1) \in Nat /\ RoomOf(c, 2) \in Nat /\ RoomOf(c, 3) \in Nat
      /\ RoomOf(c, 4) \in Nat /\ RoomOf(c, 5) \in Nat /\ RoomOf(c, 6) \in Nat
      /\ RoomOf(c, 7) \in Nat /\ RoomOf(c, 8) \in Nat /\ RoomOf(c, 9) \in Nat
      /\ RoomOf(c, 10) \in Nat /\ RoomOf(c, 11) \in Nat /\ RoomOf(c, 12) \in Nat
      /\ RoomOf(c, 13) \in Nat
  BY DEF Sized
<1>5. /\ off[5] = 6 + RoomOf(c, 1) + RoomOf(c, 2) + RoomOf(c, 3) + RoomOf(c, 4)
                 + RoomOf(c, 5)
      /\ off[5] \in Nat
  BY <1>3, <1>4
<1>6. /\ off[9] = off[5] + RoomOf(c, 6) + RoomOf(c, 7) + RoomOf(c, 8) + RoomOf(c, 9)
      /\ off[9] \in Nat
  BY <1>3, <1>4, <1>5
<1>7. off[13] = off[9] + RoomOf(c, 10) + RoomOf(c, 11) + RoomOf(c, 12) + RoomOf(c, 13)
  BY <1>3, <1>4, <1>6
<1> QED
  BY <1>4, <1>5, <1>6, <1>7, SMTT(60) DEF Room

LEMMA EncodedLength ==
  ASSUME NEW c, IsConfig(c)
  PROVE  Len(Encode(c)) = 6 + Room(c)
<1> DEFINE texts == [i \in 1 .. 13 |-> TextOf(InOrder[i], c[InOrder[i]])]
           packet == Packet(Ordered(c, InOrder))
<1>1. InOrder \in [1 .. 13 -> Fields] /\ \A i \in 1 .. 13 : InOrder[i] = i
  BY FieldSets DEF InOrder
<1>2. \E off : Planned(packet, 13, InOrder, texts, off)
  BY <1>1, OrderedPlanned
<1>3. \A i \in 1 .. 13 : texts[i] = TextOf(i, c[i])
  BY <1>1
<1> HIDE DEF texts, packet
<1>4. PICK off : Planned(packet, 13, InOrder, texts, off)
  BY <1>2
<1>5. /\ off \in [0 .. 13 -> Nat] /\ off[0] = 6 /\ off[13] = Len(packet)
      /\ \A i \in 1 .. 13 : off[i] = off[i - 1] + 3 + Len(texts[i])
  BY <1>4 DEF Planned, FieldAt
<1>6. Sized(off, c)
  <2>1. DOMAIN c = Fields /\ Fields = 1 .. 13
    BY FieldSets DEF IsConfig
  <2>2. ASSUME NEW i \in 1 .. 13
        PROVE  RoomOf(c, i) \in Nat /\ off[i] = off[i - 1] + RoomOf(c, i)
    <3>1. i \in DOMAIN c /\ i \in Fields
      BY <2>1
    <3>2. RoomOf(c, i) = 3 + Len(texts[i])
      BY <1>3, <3>1 DEF RoomOf
    <3>3. TextOf(i, c[i]) \in Seq(Byte)
      BY <3>1, ConfigTexts
    <3>4. texts[i] \in Seq(Byte)
      BY <1>3, <3>3
    <3>5. Len(texts[i]) \in Nat
      BY <3>4
    <3>6. off[i - 1] \in Nat
      <4>1. i - 1 \in 0 .. 13
        OBVIOUS
      <4> QED
        BY <1>5, <4>1
    <3>7. off[i] = off[i - 1] + 3 + Len(texts[i])
      BY <1>5
    <3>8. \A a, b \in Nat : a + 3 + b = a + (3 + b) /\ 3 + b \in Nat
      OBVIOUS
    <3> QED
      BY <3>2, <3>5, <3>6, <3>7, <3>8
  <2> QED
    BY <1>5, <2>2 DEF Sized
<1>7. off[13] = 6 + Room(c)
  BY <1>6, SummedUp
<1> QED
  BY <1>5, <1>7, FieldsInOrder DEF packet

\* What was accepted once is accepted again when it is stored.
LEMMA StoredAgain ==
  ASSUME NEW w \in Seq(Byte), Accepted(w)
  PROVE  LET config == Decode(w).read
         IN  /\ Valid(config) /\ Accepted(Encode(config))
             /\ Decode(Encode(config)).read = config
             /\ Len(Encode(config)) <= Len(w)
<1> DEFINE c == Decode(w).read
           e == Encode(c)
<1>1. /\ IsConfig(c) /\ Valid(c) /\ 6 + Room(c) <= Len(w) /\ Len(w) <= MaxWireBytes
  BY AcceptedConfig
<1> HIDE DEF c
<1>2. e = Packet(Ordered(c, InOrder)) /\ Len(e) = 6 + Room(c)
  BY <1>1, FieldsInOrder, EncodedLength
<1> HIDE DEF e
<1>3. /\ e \in Seq(Byte) /\ (Accepted(e) <=> Valid(c) /\ Len(e) <= MaxWireBytes)
      /\ Accepted(e) => Decode(e).read = c
  BY <1>1, <1>2, InOrderPermutes, SentInOrder
<1>4. Len(e) <= Len(w)
  BY <1>1, <1>2
<1>5. Len(e) <= MaxWireBytes
  <2>1. Len(e) \in Nat /\ Len(w) \in Nat
    BY <1>3
  <2>2. MaxWireBytes \in Nat
    BY <2>1, ShorterIsShort
  <2> QED
    BY <1>1, <1>4, <2>1, <2>2
<1> QED
  BY <1>1, <1>3, <1>4, <1>5 DEF c, e

-----------------------------------------------------------------------------
(* What happens to a packet on its way.                                    *)

LEMMA ConfigPacket ==
  ASSUME NEW c, IsConfig(c)
  PROVE  /\ Encode(c) \in Seq(Byte) /\ Len(Encode(c)) >= 6
         /\ \E ids, texts : IsPacket(Encode(c), 13, ids, texts)
         /\ FieldsOf(c) \in [1 .. 13 -> Seq(Byte)]
<1> DEFINE texts == [i \in 1 .. 13 |-> TextOf(i, c[i])]
<1>1. Fields = 1 .. 13 /\ 13 \in 1 .. 255
  BY FieldSets
<1>2. texts \in [1 .. 13 -> Seq(Byte)] /\ \A i \in 1 .. 13 : texts[i] = TextOf(i, c[i])
  BY <1>1, ConfigTexts
<1> HIDE DEF texts
<1>3. InOrder \in [1 .. 13 -> Fields] /\ \A i \in 1 .. 13 : InOrder[i] = i
  BY <1>1 DEF InOrder
<1>4. FieldsOf(c) = [i \in 1 .. 13 |-> Field(InOrder[i], texts[i])]
  BY <1>1, <1>2, <1>3 DEF FieldsOf
<1>5. IsPacket(Encode(c), 13, InOrder, texts)
  BY <1>1, <1>2, <1>3, <1>4 DEF IsPacket, Encode
<1>6. Encode(c) \in Seq(Byte) /\ Len(Encode(c)) >= 6
  BY <1>5, PacketHas
<1>7. FieldsOf(c) \in [1 .. 13 -> Seq(Byte)]
  <2>1. \A i \in 1 .. 13 : InOrder[i] \in Byte /\ texts[i] \in Seq(Byte)
    <3>1. \A f \in Fields : f \in Byte
      BY <1>1 DEF Byte
    <3> QED
      BY <1>2, <1>3, <3>1
  <2>2. \A i \in 1 .. 13 : Field(InOrder[i], texts[i]) \in Seq(Byte)
    BY <2>1, FieldLaid
  <2> QED
    BY <1>4, <2>2
<1> QED
  BY <1>5, <1>6, <1>7

\* Cut anywhere.
LEMMA CutIsRefused ==
  ASSUME NEW c, IsConfig(c), Short(Encode(c)), NEW n \in 0 .. Len(Encode(c)) - 1
  PROVE  /\ SubSeq(Encode(c), 1, n) \in Seq(Byte)
         /\ ~ Accepted(SubSeq(Encode(c), 1, n))
<1> DEFINE packet == Encode(c)
           w == SubSeq(packet, 1, n)
<1>1. packet \in Seq(Byte) /\ \E ids, texts : IsPacket(packet, 13, ids, texts)
  BY ConfigPacket
<1>2. PICK ids, texts : IsPacket(packet, 13, ids, texts)
  BY <1>1
<1> HIDE DEF packet
<1>3. w \in Seq(Byte) /\ Len(w) = n /\ \A j \in 1 .. n : w[j] = packet[j]
  <2>1. n \in Nat /\ 1 <= n + 1 /\ n <= Len(packet) /\ 1 \in Nat /\ 1 <= 1
    BY <1>1 DEF packet
  <2>2. /\ w \in Seq(Byte) /\ Len(w) = n - 1 + 1
        /\ \A j \in 1 .. n - 1 + 1 : w[j] = packet[1 + j - 1]
    BY <1>1, <2>1, Part
  <2>3. n - 1 + 1 = n /\ \A j \in 1 .. n : 1 + j - 1 = j
    BY <2>1
  <2> HIDE DEF w
  <2> QED
    BY <2>2, <2>3
<1> HIDE DEF w
<1>4. Agrees(w, packet)
  BY <1>3 DEF Agrees
<1>5. Len(w) # Len(packet)
  BY <1>1, <1>3 DEF packet
<1>6. Short(packet)
  BY DEF packet
<1>7. ~ Accepted(w)
  BY <1>2, <1>3, <1>4, <1>5, <1>6, AcceptedAsSent
<1> QED
  BY <1>3, <1>7 DEF w, packet

\* Longer than it should be.
LEMMA ExtendedIsRefused ==
  ASSUME NEW c, IsConfig(c), NEW b \in Byte
  PROVE  /\ Append(Encode(c), b) \in Seq(Byte)
         /\ ~ Accepted(Append(Encode(c), b))
<1> DEFINE packet == Encode(c)
           w == Append(packet, b)
<1>1. packet \in Seq(Byte) /\ \E ids, texts : IsPacket(packet, 13, ids, texts)
  BY ConfigPacket
<1>2. PICK ids, texts : IsPacket(packet, 13, ids, texts)
  BY <1>1
<1> HIDE DEF packet
<1>3. /\ w \in Seq(Byte) /\ Len(w) = Len(packet) + 1 /\ Len(packet) \in Nat
      /\ \A j \in 1 .. Len(packet) : w[j] = packet[j]
  BY <1>1
<1> HIDE DEF w
<1>4. Agrees(w, packet)
  BY <1>3 DEF Agrees
<1>5. Len(w) # Len(packet) /\ Len(packet) <= Len(w) /\ Len(w) \in Nat
  BY <1>3
<1>6. ASSUME Accepted(w)
      PROVE  FALSE
  <2>1. Len(w) <= MaxWireBytes
    BY <1>3, <1>6, AcceptedMeans
  <2>2. Short(packet)
    <3>1. Short(w)
      BY <1>5, <2>1, ShorterIsShort
    <3> QED
      BY <1>3, <1>5, <3>1, ShorterIsShort
  <2> QED
    BY <1>2, <1>3, <1>4, <1>5, <1>6, <2>2, AcceptedAsSent
<1> QED
  BY <1>3, <1>6 DEF w, packet

-----------------------------------------------------------------------------
(* A field twice, or missing; a volume that another program wrote.         *)

LEMMA AcceptedItself ==
  ASSUME NEW w, NEW n, NEW ids, NEW texts, IsPacket(w, n, ids, texts), Accepted(w)
  PROVE  Carries(Decode(w), n, ids, texts) /\ DOMAIN Decode(w).read = Fields
<1>1. w \in Seq(Byte)
  BY PacketHas
<1>2. Len(w) \in Nat /\ Len(w) <= Len(w) /\ Len(w) <= MaxWireBytes
  <2>1. Len(w) <= MaxWireBytes
    BY <1>1, AcceptedMeans
  <2> QED
    BY <1>1, <2>1
<1>3. Short(w)
  BY <1>2, ShorterIsShort
<1> QED
  BY <1>1, <1>3, AcceptedAsSent, AgreesWithItself

LEMMA Listed ==
  ASSUME NEW S, NEW n \in Nat, NEW s \in [1 .. n -> S]
  PROVE  s \in Seq(S) /\ Len(s) = n
OBVIOUS

LEMMA Appended ==
  ASSUME NEW S, NEW s \in Seq(S), NEW e \in S
  PROVE  /\ Append(s, e) = [i \in 1 .. Len(s) + 1 |-> Append(s, e)[i]]
         /\ \A i \in 1 .. Len(s) : Append(s, e)[i] = s[i]
         /\ Append(s, e)[Len(s) + 1] = e
<1>1. Append(s, e) \in Seq(S) /\ Len(Append(s, e)) = Len(s) + 1
  OBVIOUS
<1>2. Append(s, e) = [i \in 1 .. Len(s) + 1 |-> Append(s, e)[i]]
  <2> DEFINE u == Append(s, e)
  <2>1. u \in Seq(S) /\ Len(u) = Len(s) + 1
    BY <1>1
  <2> HIDE DEF u
  <2>2. u = [i \in 1 .. Len(s) + 1 |-> u[i]]
    BY <2>1
  <2> QED
    BY <2>2 DEF u
<1>3. \A i \in 1 .. Len(s) : Append(s, e)[i] = s[i]
  OBVIOUS
<1>4. Append(s, e)[Len(s) + 1] = e
  OBVIOUS
<1> QED
  BY <1>2, <1>3, <1>4

\* A field twice.
LEMMA RepeatedIsRefused ==
  ASSUME NEW c, IsConfig(c), NEW f \in Fields
  PROVE  /\ Packet(Append(FieldsOf(c), FieldsOf(c)[f])) \in Seq(Byte)
         /\ ~ Accepted(Packet(Append(FieldsOf(c), FieldsOf(c)[f])))
<1> DEFINE ids == [i \in 1 .. 14 |-> IF i = 14 THEN f ELSE i]
           texts == [i \in 1 .. 14 |-> TextOf(ids[i], c[ids[i]])]
           fields == Append(FieldsOf(c), FieldsOf(c)[f])
           w == Packet(fields)
<1>1. Fields = 1 .. 13 /\ 14 \in 1 .. 255 /\ f \in 1 .. 13
  BY FieldSets
<1>2. /\ ids \in [1 .. 14 -> Fields] /\ ids[14] = f /\ \A i \in 1 .. 13 : ids[i] = i
  BY <1>1
<1> HIDE DEF ids
<1>3. texts \in [1 .. 14 -> Seq(Byte)]
  <2>1. \A i \in 1 .. 14 : TextOf(ids[i], c[ids[i]]) \in Seq(Byte)
    <3>1. \A i \in 1 .. 14 : ids[i] \in Fields
      BY <1>2
    <3> QED
      BY <3>1, ConfigTexts
  <2> QED
    BY <2>1
<1>4. \A i \in 1 .. 14 : texts[i] = TextOf(ids[i], c[ids[i]])
  OBVIOUS
<1> HIDE DEF texts
<1>5. \A g \in 1 .. 13 : FieldsOf(c)[g] = Field(g, TextOf(g, c[g]))
  BY <1>1 DEF FieldsOf
<1>6. FieldsOf(c) \in [1 .. 13 -> Seq(Byte)]
  BY ConfigPacket
<1>7. /\ fields = [i \in 1 .. 14 |-> fields[i]] /\ fields[14] = FieldsOf(c)[f]
      /\ \A i \in 1 .. 13 : fields[i] = FieldsOf(c)[i]
  <2>1. /\ FieldsOf(c) \in Seq(Seq(Byte)) /\ Len(FieldsOf(c)) = 13
        /\ FieldsOf(c)[f] \in Seq(Byte)
    <3>1. FieldsOf(c)[f] \in Seq(Byte)
      BY <1>1, <1>6
    <3>2. 13 \in Nat
      OBVIOUS
    <3> QED
      BY <1>6, <3>1, <3>2, Listed, ZenonT(60)
  <2>2. /\ fields = [i \in 1 .. Len(FieldsOf(c)) + 1 |-> fields[i]]
        /\ \A i \in 1 .. Len(FieldsOf(c)) : fields[i] = FieldsOf(c)[i]
        /\ fields[Len(FieldsOf(c)) + 1] = FieldsOf(c)[f]
    BY <2>1, Appended, ZenonT(60)
  <2>3. Len(FieldsOf(c)) + 1 = 14
    BY <2>1
  <2> HIDE DEF fields
  <2> QED
    BY <2>1, <2>2, <2>3
<1> HIDE DEF fields
<1>8. \A i \in 1 .. 14 : fields[i] = Field(ids[i], texts[i])
  <2>1. fields[14] = Field(ids[14], texts[14])
    <3>1. 14 \in 1 .. 14
      OBVIOUS
    <3> QED
      BY <1>1, <1>2, <1>4, <1>5, <1>7, <3>1
  <2>2. ASSUME NEW i \in 1 .. 13
        PROVE  fields[i] = Field(ids[i], texts[i])
    <3>1. i \in 1 .. 14
      OBVIOUS
    <3> QED
      BY <1>2, <1>4, <1>5, <1>7, <3>1
  <2>3. \A i \in 1 .. 14 : i = 14 \/ i \in 1 .. 13
    OBVIOUS
  <2> QED
    BY <2>1, <2>2, <2>3
<1>9. fields = [i \in 1 .. 14 |-> Field(ids[i], texts[i])]
  BY <1>7, <1>8
<1>10. IsPacket(w, 14, ids, texts)
  BY <1>1, <1>2, <1>3, <1>9 DEF IsPacket
<1> HIDE DEF w
<1>11. ~ Accepted(w)
  <2> SUFFICES ASSUME Accepted(w) PROVE FALSE
    OBVIOUS
  <2>1. Carries(Decode(w), 14, ids, texts)
    BY <1>10, AcceptedItself
  <2>2. \A i, j \in 1 .. 14 : j < i => ids[j] # ids[i]
    BY <2>1 DEF Carries
  <2>3. f \in 1 .. 14 /\ 14 \in 1 .. 14 /\ f < 14 /\ ids[f] = f
    BY <1>1, <1>2
  <2> QED
    BY <1>2, <2>2, <2>3
<1>12. w \in Seq(Byte)
  BY <1>10, PacketHas
<1> QED
  BY <1>11, <1>12 DEF w, fields

IsJoined(u, S, s, t) ==
  /\ u \in Seq(S) /\ Len(u) = Len(s) + Len(t)
  /\ \A j \in 1 .. Len(s) : u[j] = s[j]
  /\ \A j \in 1 .. Len(t) : u[Len(s) + j] = t[j]

LEMMA JoinedIn ==
  ASSUME NEW S, NEW s \in Seq(S), NEW t \in Seq(S)
  PROVE  IsJoined(s \o t, S, s, t)
BY DEF IsJoined

LEMMA Removed ==
  ASSUME NEW S, NEW s \in Seq(S), NEW i \in 1 .. Len(s)
  PROVE  RemoveAt(s, i) = [j \in 1 .. Len(s) - 1 |-> IF j < i THEN s[j] ELSE s[j + 1]]
<1> DEFINE a == SubSeq(s, 1, i - 1)
           b == SubSeq(s, i + 1, Len(s))
           n == Len(s)
<1>1. n \in Nat /\ i \in Nat /\ 1 <= i /\ i <= n
  OBVIOUS
<1>2. /\ a \in Seq(S) /\ Len(a) = i - 1 /\ \A j \in 1 .. i - 1 : a[j] = s[j]
  <2>1. i - 1 \in Nat /\ 1 \in Nat /\ 1 <= 1 /\ 1 <= (i - 1) + 1 /\ i - 1 <= n
        /\ (i - 1) - 1 + 1 = i - 1
    BY <1>1
  <2>2. /\ a \in Seq(S) /\ Len(a) = (i - 1) - 1 + 1
        /\ \A j \in 1 .. (i - 1) - 1 + 1 : a[j] = s[1 + j - 1]
    BY <2>1, Part
  <2>3. \A j \in 1 .. i - 1 : 1 + j - 1 = j
    BY <1>1
  <2> HIDE DEF a
  <2> QED
    BY <2>1, <2>2, <2>3
<1>3. /\ b \in Seq(S) /\ Len(b) = n - i /\ \A j \in 1 .. n - i : b[j] = s[i + j]
  <2>1. i + 1 \in Nat /\ i + 1 <= n + 1 /\ 1 <= i + 1 /\ n - (i + 1) + 1 = n - i /\ n <= n
    BY <1>1
  <2>2. /\ b \in Seq(S) /\ Len(b) = n - (i + 1) + 1
        /\ \A j \in 1 .. n - (i + 1) + 1 : b[j] = s[(i + 1) + j - 1]
    BY <1>1, <2>1, Part
  <2>3. \A j \in 1 .. n - i : (i + 1) + j - 1 = i + j
    BY <1>1
  <2> HIDE DEF b, n
  <2> QED
    BY <2>1, <2>2, <2>3
<1>4. RemoveAt(s, i) = a \o b
  BY DEF RemoveAt
<1> HIDE DEF a, b, n
<1> DEFINE t == a \o b
<1>5. /\ t \in Seq(S) /\ Len(t) = Len(a) + Len(b)
      /\ \A j \in 1 .. Len(a) : t[j] = a[j]
      /\ \A j \in 1 .. Len(b) : t[Len(a) + j] = b[j]
  <2>1. IsJoined(t, S, a, b)
    BY <1>2, <1>3, JoinedIn
  <2> HIDE DEF t
  <2> QED
    BY <2>1 DEF IsJoined
<1> HIDE DEF t
<1>6. Len(t) = n - 1
  BY <1>1, <1>2, <1>3, <1>5
<1>7. ASSUME NEW j \in 1 .. n - 1
      PROVE  t[j] = IF j < i THEN s[j] ELSE s[j + 1]
  <2>1. CASE j < i
    <3>1. j \in 1 .. i - 1
      BY <1>1, <2>1
    <3> QED
      BY <1>2, <1>5, <2>1, <3>1
  <2>2. CASE ~ (j < i)
    <3>1. j - (i - 1) \in 1 .. n - i /\ (i - 1) + (j - (i - 1)) = j /\ i + (j - (i - 1)) = j + 1
      BY <1>1, <2>2
    <3>2. t[(i - 1) + (j - (i - 1))] = b[j - (i - 1)]
      BY <1>2, <1>3, <1>5, <3>1
    <3>3. b[j - (i - 1)] = s[i + (j - (i - 1))]
      BY <1>3, <3>1
    <3> QED
      BY <2>2, <3>1, <3>2, <3>3
  <2> QED
    BY <2>1, <2>2
<1>8. t = [j \in 1 .. n - 1 |-> t[j]]
  BY <1>5, <1>6
<1>9. t = [j \in 1 .. n - 1 |-> IF j < i THEN s[j] ELSE s[j + 1]]
  BY <1>7, <1>8
<1> QED
  BY <1>4, <1>9 DEF t, n

\* A field too few.
LEMMA OmittedIsRefused ==
  ASSUME NEW c, IsConfig(c), NEW f \in Fields
  PROVE  /\ Packet(RemoveAt(FieldsOf(c), f)) \in Seq(Byte)
         /\ ~ Accepted(Packet(RemoveAt(FieldsOf(c), f)))
<1> DEFINE ids == [i \in 1 .. 12 |-> IF i < f THEN i ELSE i + 1]
           texts == [i \in 1 .. 12 |-> TextOf(ids[i], c[ids[i]])]
           fields == RemoveAt(FieldsOf(c), f)
           w == Packet(fields)
<1>1. Fields = 1 .. 13 /\ 12 \in 1 .. 255 /\ f \in 1 .. 13
  BY FieldSets
<1>2. /\ ids \in [1 .. 12 -> Fields]
      /\ \A i \in 1 .. 12 : ids[i] = (IF i < f THEN i ELSE i + 1) /\ ids[i] # f
  BY <1>1
<1> HIDE DEF ids
<1>3. texts \in [1 .. 12 -> Seq(Byte)]
  <2>1. \A i \in 1 .. 12 : TextOf(ids[i], c[ids[i]]) \in Seq(Byte)
    <3>1. \A i \in 1 .. 12 : ids[i] \in Fields
      BY <1>2
    <3> QED
      BY <3>1, ConfigTexts
  <2> QED
    BY <2>1
<1>4. \A i \in 1 .. 12 : texts[i] = TextOf(ids[i], c[ids[i]])
  OBVIOUS
<1> HIDE DEF texts
<1>5. \A g \in 1 .. 13 : FieldsOf(c)[g] = Field(g, TextOf(g, c[g]))
  BY <1>1 DEF FieldsOf
<1>6. FieldsOf(c) \in Seq(Seq(Byte)) /\ Len(FieldsOf(c)) = 13
  <2>1. FieldsOf(c) \in [1 .. 13 -> Seq(Byte)] /\ 13 \in Nat
    BY ConfigPacket
  <2> QED
    BY <2>1, Listed, ZenonT(60)
<1>7. fields = [j \in 1 .. 12 |-> IF j < f THEN FieldsOf(c)[j] ELSE FieldsOf(c)[j + 1]]
  <2>1. f \in 1 .. Len(FieldsOf(c)) /\ Len(FieldsOf(c)) - 1 = 12
    BY <1>1, <1>6
  <2>2. fields = [j \in 1 .. Len(FieldsOf(c)) - 1 |->
                    IF j < f THEN FieldsOf(c)[j] ELSE FieldsOf(c)[j + 1]]
    BY <1>6, <2>1, Removed
  <2> QED
    BY <2>1, <2>2
<1> HIDE DEF fields
<1>8. ASSUME NEW i \in 1 .. 12
      PROVE  fields[i] = Field(ids[i], texts[i])
  <2>1. fields[i] = IF i < f THEN FieldsOf(c)[i] ELSE FieldsOf(c)[i + 1]
    BY <1>7
  <2>2. fields[i] = FieldsOf(c)[ids[i]]
    BY <1>2, <2>1
  <2>3. ids[i] \in 1 .. 13
    BY <1>1, <1>2
  <2> QED
    BY <1>4, <1>5, <2>2, <2>3
<1>9. fields = [i \in 1 .. 12 |-> Field(ids[i], texts[i])]
  <2>1. fields = [i \in 1 .. 12 |-> fields[i]]
    BY <1>7
  <2> QED
    BY <1>8, <2>1
<1>10. IsPacket(w, 12, ids, texts)
  BY <1>1, <1>2, <1>3, <1>9 DEF IsPacket
<1> HIDE DEF w
<1>11. ~ Accepted(w)
  <2> SUFFICES ASSUME Accepted(w) PROVE FALSE
    OBVIOUS
  <2>1. Carries(Decode(w), 12, ids, texts) /\ DOMAIN Decode(w).read = Fields
    BY <1>10, AcceptedItself
  <2>2. f \in {ids[i] : i \in 1 .. 12}
    BY <2>1 DEF Carries
  <2> QED
    BY <1>2, <2>2
<1>12. w \in Seq(Byte)
  BY <1>10, PacketHas
<1> QED
  BY <1>11, <1>12 DEF w, fields

\* A volume of another program.
LEMMA VolumeIsRead ==
  ASSUME NEW c, IsConfig(c), NEW text \in Seq(Byte)
  PROVE  LET w == Packet([FieldsOf(c) EXCEPT ![Volume] = Field(Volume, text)])
         IN  /\ w \in Seq(Byte)
             /\ Accepted(w) => /\ IsNumber(text)
                               /\ Decode(w).read[Volume] = NumberIn(text)
<1> DEFINE texts == [i \in 1 .. 13 |-> IF i = Volume THEN text ELSE TextOf(i, c[i])]
           fields == [FieldsOf(c) EXCEPT ![Volume] = Field(Volume, text)]
           w == Packet(fields)
<1>1. /\ Fields = 1 .. 13 /\ 13 \in 1 .. 255 /\ Volume \in 1 .. 13
      /\ Volume \notin Booleans
  BY FieldSets
<1>2. InOrder \in [1 .. 13 -> Fields] /\ \A i \in 1 .. 13 : InOrder[i] = i
  BY <1>1 DEF InOrder
<1>3. texts \in [1 .. 13 -> Seq(Byte)]
  <2>1. \A i \in 1 .. 13 : TextOf(i, c[i]) \in Seq(Byte)
    BY <1>1, ConfigTexts
  <2> QED
    BY <2>1
<1>4. \A i \in 1 .. 13 : texts[i] = IF i = Volume THEN text ELSE TextOf(i, c[i])
  OBVIOUS
<1> HIDE DEF texts
<1>5. /\ FieldsOf(c) = [i \in 1 .. 13 |-> FieldsOf(c)[i]]
      /\ \A i \in 1 .. 13 : FieldsOf(c)[i] = Field(i, TextOf(i, c[i]))
  BY <1>1 DEF FieldsOf
<1>6. /\ fields = [i \in 1 .. 13 |-> fields[i]]
      /\ \A i \in 1 .. 13 :
           fields[i] = IF i = Volume THEN Field(Volume, text) ELSE FieldsOf(c)[i]
  BY <1>1, <1>5
<1> HIDE DEF fields
<1>7. fields = [i \in 1 .. 13 |-> Field(InOrder[i], texts[i])]
  <2>1. \A i \in 1 .. 13 : fields[i] = Field(InOrder[i], texts[i])
    BY <1>2, <1>4, <1>5, <1>6
  <2> QED
    BY <1>6, <2>1
<1>8. IsPacket(w, 13, InOrder, texts)
  BY <1>1, <1>2, <1>3, <1>7 DEF IsPacket
<1> HIDE DEF w
<1>9. w \in Seq(Byte)
  BY <1>8, PacketHas
<1>10. ASSUME Accepted(w)
       PROVE  IsNumber(text) /\ Decode(w).read[Volume] = NumberIn(text)
  <2>1. Carries(Decode(w), 13, InOrder, texts)
    BY <1>8, <1>10, AcceptedItself
  <2>2. /\ Readable(InOrder[Volume], texts[Volume])
        /\ Decode(w).read[InOrder[Volume]] = ValueOf(InOrder[Volume], texts[Volume])
    BY <1>1, <2>1 DEF Carries
  <2>3. InOrder[Volume] = Volume /\ texts[Volume] = text
    BY <1>1, <1>2, <1>4
  <2>4. ParseUnsigned(text, 255) # NotANumber /\ Decode(w).read[Volume] = ParseUnsigned(text, 255)
    BY <1>1, <2>2, <2>3 DEF Readable, ValueOf
  <2> QED
    BY <2>4, ParsedIsWritten
<1> QED
  BY <1>9, <1>10 DEF w, fields

-----------------------------------------------------------------------------
(* The characters of a message, and how a text in it is read.              *)

\* Every character there may be: of texts, of names, and what joins them.
Glyph == STRING \cup HexDigits \cup DOMAIN Letters \cup EventTypes \cup ControlTypes
         \cup {"u", "{", "}", ",", ":", " ", "future", "type", "event_id", "session.create",
               "session", "id", "model", "1.2.6.1", "instructions", "audio", "input",
               "output", "format", "pcm", "pcm_s16le", "rate", "16000", "24000", "voice",
               "delta", "transcript", "text", "error", "code", "message", "status_code"}

\* What every letter behind a backslash stands for.
LEMMA LetterSet ==
  /\ DOMAIN Letters = {"n", "t", "r", "f", "b", "/", Quote, Backslash}
  /\ Letters["n"] = "\n" /\ Letters["t"] = "\t" /\ Letters["r"] = "\r"
  /\ Letters["f"] = "\f" /\ Letters["b"] = "BS" /\ Letters["/"] = "/"
  /\ Letters[Quote] = Quote /\ Letters[Backslash] = Backslash
<1>1. DOMAIN Letters = {"n", "t", "r", "f", "b", "/", Quote, Backslash}
  BY DEF Letters, Unseen
<1>2. /\ Letters["n"] = "\n" /\ Letters["t"] = "\t" /\ Letters["r"] = "\r"
      /\ Letters["f"] = "\f" /\ Letters["b"] = "BS" /\ Letters["/"] = "/"
  BY DEF Letters, Unseen
<1>3. Letters[Quote] = Quote /\ Letters[Backslash] = Backslash
  BY DEF Letters, Unseen, Quote, Backslash
<1> QED
  BY <1>1, <1>2, <1>3

\* The marks that are not letters are characters of their own.
LEMMA MarkSet ==
  /\ Quote \in Glyph /\ Backslash \in Glyph /\ "u" \in Glyph
  /\ HexDigits \subseteq Glyph /\ DOMAIN Letters \subseteq Glyph
  /\ Quote # Backslash /\ Quote \notin Control /\ Backslash \notin Control
  /\ "u" \notin DOMAIN Letters
  /\ "u" # Quote /\ Quote \notin HexDigits /\ Backslash \notin HexDigits
<1>1. /\ Quote \in Glyph /\ Backslash \in Glyph /\ "u" \in Glyph
      /\ HexDigits \subseteq Glyph /\ DOMAIN Letters \subseteq Glyph
  BY LetterSet DEF Glyph
<1>2. Quote # Backslash /\ Quote \notin Control /\ Backslash \notin Control
  BY DEF Quote, Backslash, Control
<1>3. "u" \notin DOMAIN Letters
  BY LetterSet DEF Quote, Backslash
<1>4. "u" # Quote /\ Quote \notin HexDigits /\ Backslash \notin HexDigits
  BY DEF Quote, Backslash, HexDigits
<1> QED
  BY <1>1, <1>2, <1>3, <1>4

LEMMA LetteredSet ==
  /\ Lettered = {"\n", "\t", "\r", "\f", "BS", Quote, Backslash}
  /\ \A c \in Lettered : LetterOf(c) \in DOMAIN Letters /\ Letters[LetterOf(c)] = c
<1>1. Lettered = {"\n", "\t", "\r", "\f", "BS", Quote, Backslash}
  <2>1. DOMAIN Letters \ {"/"} = {"n", "t", "r", "f", "b", Quote, Backslash}
    BY LetterSet DEF Quote, Backslash
  <2> QED
    BY <2>1, LetterSet DEF Lettered
<1>2. \A c \in Lettered : \E l \in DOMAIN Letters : Letters[l] = c
  BY DEF Lettered
<1>3. \A c \in Lettered : LetterOf(c) \in DOMAIN Letters /\ Letters[LetterOf(c)] = c
  BY <1>2 DEF LetterOf
<1> QED
  BY <1>1, <1>3

LEMMA Wider ==
  ASSUME NEW S, NEW T, S \subseteq T, NEW s \in Seq(S)
  PROVE  s \in Seq(T)
<1>1. Len(s) \in Nat /\ s \in [1 .. Len(s) -> T]
  OBVIOUS
<1> QED
  BY <1>1, Listed

\* Four digits are a sequence.
LEMMA FourDigits ==
  ASSUME NEW digits \in [1 .. 4 -> HexDigits]
  PROVE  /\ digits \in Seq(HexDigits) /\ digits \in Seq(Glyph) /\ Len(digits) = 4
         /\ \A i \in 1 .. 4 : digits[i] \in HexDigits
<1>1. digits \in Seq(HexDigits) /\ Len(digits) = 4
  <2>1. PICK n \in Nat : n = 4
    OBVIOUS
  <2> QED
    BY <2>1, Listed, ZenonT(60)
<1>2. digits \in Seq(Glyph)
  BY <1>1, MarkSet, Wider
<1>3. \A i \in 1 .. 4 : digits[i] \in HexDigits
  OBVIOUS
<1> QED
  BY <1>1, <1>2, <1>3

LEMMA Pair ==
  ASSUME NEW S, NEW a \in S, NEW b \in S
  PROVE  /\ <<a, b>> \in Seq(S) /\ Len(<<a, b>>) = 2
         /\ <<a, b>>[1] = a /\ <<a, b>>[2] = b
OBVIOUS

UnicodeEscape(digits) == <<Backslash, "u">> \o digits

LEMMA UnicodeEscapeHas ==
  ASSUME NEW digits \in [1 .. 4 -> HexDigits]
  PROVE  /\ UnicodeEscape(digits) \in Seq(Glyph) /\ Len(UnicodeEscape(digits)) = 6
         /\ UnicodeEscape(digits)[1] = Backslash /\ UnicodeEscape(digits)[2] = "u"
         /\ \A i \in 1 .. 4 : UnicodeEscape(digits)[i + 2] = digits[i]
         /\ SubSeq(UnicodeEscape(digits), 3, 6) = digits
<1> DEFINE b == <<Backslash, "u">>
           e == b \o digits
<1>1. b \in Seq(Glyph) /\ Len(b) = 2 /\ b[1] = Backslash /\ b[2] = "u"
  BY MarkSet, Pair
<1>2. digits \in Seq(Glyph) /\ Len(digits) = 4
  BY FourDigits
<1> HIDE DEF b
<1>3. IsJoined(e, Glyph, b, digits)
  BY <1>1, <1>2, JoinedIn
<1> HIDE DEF e
<1>4. e \in Seq(Glyph) /\ Len(e) = 6
  BY <1>1, <1>2, <1>3 DEF IsJoined
<1>5. \A i \in 1 .. 4 : e[i + 2] = digits[i]
  <2>1. \A i \in 1 .. 4 : e[2 + i] = digits[i] /\ 2 + i = i + 2
    BY <1>1, <1>2, <1>3 DEF IsJoined
  <2> QED
    BY <2>1
<1>6. e[1] = b[1] /\ e[2] = b[2]
  BY <1>1, <1>3 DEF IsJoined
<1> DEFINE d == SubSeq(e, 3, 6)
<1>7. d \in Seq(Glyph) /\ Len(d) = 4 /\ \A i \in 1 .. 4 : d[i] = e[i + 2]
  <2>1. PICK m, n \in Nat : m = 3 /\ n = 6
    OBVIOUS
  <2>1a. 1 <= m /\ m <= n + 1 /\ n <= Len(e)
    BY <1>4, <2>1
  <2>2. /\ SubSeq(e, m, n) \in Seq(Glyph) /\ Len(SubSeq(e, m, n)) = n - m + 1
        /\ \A j \in 1 .. n - m + 1 : SubSeq(e, m, n)[j] = e[m + j - 1]
    BY <1>4, <2>1a, Part
  <2>3. \A j \in 1 .. 4 : 3 + j - 1 = j + 2
    OBVIOUS
  <2> QED
    BY <2>1, <2>2, <2>3
<1> HIDE DEF d
<1>8. d = digits
  BY <1>2, <1>5, <1>7, SeqEqual
<1> QED
  BY <1>1, <1>4, <1>5, <1>6, <1>8 DEF d, e, b, UnicodeEscape

LEMMA LetterEscapeHas ==
  ASSUME NEW l \in DOMAIN Letters
  PROVE  /\ <<Backslash, l>> \in Seq(Glyph) /\ Len(<<Backslash, l>>) = 2
         /\ <<Backslash, l>>[1] = Backslash /\ <<Backslash, l>>[2] = l
BY MarkSet, Pair

LEMMA EscapeIs ==
  /\ DOMAIN Escapes = {<<Backslash, l>> : l \in DOMAIN Letters}
                       \cup {UnicodeEscape(digits) : digits \in DOMAIN Unicode}
  /\ \A l \in DOMAIN Letters : Escapes[<<Backslash, l>>] = Letters[l]
  /\ \A digits \in DOMAIN Unicode :
       digits \in [1 .. 4 -> HexDigits] /\ Escapes[UnicodeEscape(digits)] = Unicode[digits]
<1>1. DOMAIN Escapes = {<<Backslash, l>> : l \in DOMAIN Letters}
                       \cup {UnicodeEscape(digits) : digits \in DOMAIN Unicode}
  BY DEF Escapes, UnicodeEscape
<1>2. \A e \in DOMAIN Escapes : Escapes[e] = IF Len(e) = 2 THEN Letters[e[2]] ELSE Unicode[SubSeq(e, 3, 6)]
  BY DEF Escapes
<1>3. ASSUME NEW l \in DOMAIN Letters
      PROVE  Escapes[<<Backslash, l>>] = Letters[l]
  BY <1>1, <1>2, LetterEscapeHas
<1>4. ASSUME NEW digits \in DOMAIN Unicode
      PROVE  digits \in [1 .. 4 -> HexDigits] /\ Escapes[UnicodeEscape(digits)] = Unicode[digits]
  <2>1. digits \in [1 .. 4 -> HexDigits]
    BY UnicodeAssumption
  <2>2. Len(UnicodeEscape(digits)) = 6 /\ SubSeq(UnicodeEscape(digits), 3, 6) = digits
    BY <2>1, UnicodeEscapeHas
  <2>3. UnicodeEscape(digits) \in DOMAIN Escapes
    BY <1>1
  <2> DEFINE e == UnicodeEscape(digits)
  <2>4. e \in DOMAIN Escapes /\ Len(e) # 2 /\ SubSeq(e, 3, 6) = digits
    BY <2>2, <2>3
  <2> HIDE DEF e
  <2>5. Escapes[e] = Unicode[digits]
    BY <1>2, <2>4
  <2> QED
    BY <2>1, <2>5 DEF e
<1> QED
  BY <1>1, <1>3, <1>4

\* A character ends within the message.
LEMMA CharAtWithin ==
  ASSUME NEW json \in Seq(Glyph), NEW i \in 1 .. Len(json), NEW read \in CharAt(json, i)
  PROVE  read[2] \in i + 1 .. Len(json) + 1
<1>1. CASE json[i] # Backslash
  BY <1>1 DEF CharAt
<1>2. CASE json[i] = Backslash
  <2>1. PICK e \in DOMAIN Escapes : IsAt(json, e, i) /\ read = <<Escapes[e], i + Len(e)>>
    BY <1>2 DEF CharAt
  <2>2. Len(e) \in 2 .. 6
    BY EscapeIs, LetterEscapeHas, UnicodeEscapeHas
  <2>3. i + Len(e) - 1 <= Len(json)
    BY <2>1 DEF IsAt
  <2>4. read[2] = i + Len(e)
    BY <2>1
  <2>5. Len(json) \in Nat /\ i \in 1 .. Len(json)
    OBVIOUS
  <2> DEFINE n == Len(json)
             k == Len(e)
  <2> HIDE DEF n, k
  <2>6. i + k \in i + 1 .. n + 1
    <3>1. n \in Nat /\ i \in 1 .. n /\ k \in 2 .. 6 /\ i + k - 1 <= n
      BY <2>2, <2>3, <2>5 DEF n, k
    <3> QED
      BY <3>1
  <2> QED
    BY <2>4, <2>6 DEF n, k
<1> QED
  BY <1>1, <1>2

Continued(c, found) == {[r EXCEPT !.text = <<c>> \o @] : r \in found}

BodyOf(json, f, i) ==
  IF i > Len(json) THEN {}
  ELSE IF json[i] = Quote THEN {[text |-> <<>>, after |-> i + 1]}
  ELSE UNION {Continued(read[1], f[read[2]]) : read \in CharAt(json, i)}

\* f is what there is to be read from each place on.
ReadsFrom(json, f) == f = [i \in 1 .. Len(json) + 1 |-> BodyOf(json, f, i)]

Rest(json) == CHOOSE f : ReadsFrom(json, f)

\* What there is to be read from a place on depends on later places only.
LEMMA SameBody ==
  ASSUME NEW json \in Seq(Glyph), NEW i \in 1 .. Len(json) + 1, NEW f, NEW g,
         \A j \in i + 1 .. Len(json) + 1 : f[j] = g[j]
  PROVE  BodyOf(json, f, i) = BodyOf(json, g, i)
<1>1. CASE i > Len(json)
  BY <1>1 DEF BodyOf
<1>2. CASE i <= Len(json)
  <2>1. i \in 1 .. Len(json)
    BY <1>2
  <2>2. \A read \in CharAt(json, i) : f[read[2]] = g[read[2]]
    BY <2>1, CharAtWithin
  <2>3. {Continued(read[1], f[read[2]]) : read \in CharAt(json, i)}
          = {Continued(read[1], g[read[2]]) : read \in CharAt(json, i)}
    BY <2>2
  <2> QED
    BY <2>3 DEF BodyOf
<1> QED
  BY <1>1, <1>2

LEMMA RestExists ==
  ASSUME NEW json \in Seq(Glyph)
  PROVE  ReadsFrom(json, Rest(json))
<1> DEFINE N == Len(json)
           S == {k \in 0 .. N + 1 : \E f : f = [i \in N + 2 - k .. N + 1 |-> BodyOf(json, f, i)]}
<1>0. N \in Nat /\ N + 1 \in Nat
  OBVIOUS
<1>1. 0 \in S
  <2> DEFINE f == [i \in N + 2 - 0 .. N + 1 |-> {}]
  <2>1. N + 2 - 0 .. N + 1 = {}
    BY <1>0
  <2>2. f = [i \in N + 2 - 0 .. N + 1 |-> BodyOf(json, f, i)]
    BY <2>1
  <2> HIDE DEF f
  <2> QED
    BY <1>0, <2>2
<1>2. ASSUME NEW k \in 1 .. N + 1, k - 1 \in S
      PROVE  k \in S
  <2> DEFINE m == N + 2 - k
  <2>0. m \in 1 .. N + 1 /\ N + 2 - (k - 1) = m + 1
    BY <1>0
  <2>1. PICK f : f = [i \in m + 1 .. N + 1 |-> BodyOf(json, f, i)]
    BY <1>2, <2>0
  <2> HIDE DEF m
  <2> DEFINE g == [i \in m .. N + 1 |-> IF i = m THEN BodyOf(json, f, m) ELSE f[i]]
  <2>2. \A i \in m + 1 .. N + 1 : g[i] = f[i] /\ f[i] = BodyOf(json, f, i)
    <3>1. \A i \in m + 1 .. N + 1 : i \in m .. N + 1 /\ i # m
      BY <2>0
    <3> QED
      BY <2>1, <3>1
  <2>3. g[m] = BodyOf(json, f, m)
    BY <2>0
  <2>4. g = [i \in m .. N + 1 |-> g[i]]
    OBVIOUS
  <2> HIDE DEF g
  <2>5. ASSUME NEW i \in m .. N + 1
        PROVE  g[i] = BodyOf(json, g, i)
    <3>1. i \in 1 .. Len(json) + 1 /\ \A j \in i + 1 .. Len(json) + 1 : j \in m + 1 .. N + 1
      BY <2>0
    <3>2. \A j \in i + 1 .. Len(json) + 1 : f[j] = g[j]
      BY <2>2, <3>1
    <3>3. BodyOf(json, f, i) = BodyOf(json, g, i)
      BY <3>1, <3>2, SameBody
    <3>4. i = m \/ i \in m + 1 .. N + 1
      BY <2>0
    <3> QED
      BY <2>2, <2>3, <3>3, <3>4
  <2>6. g = [i \in m .. N + 1 |-> BodyOf(json, g, i)]
    BY <2>4, <2>5
  <2> QED
    BY <2>6 DEF m
<1> HIDE DEF S
<1>3. N + 1 \in S
  <2> DEFINE M == N + 1
  <2>1. M \in Nat /\ \A k \in 1 .. M : k - 1 \in S => k \in S
    BY <1>0, <1>2
  <2> HIDE DEF M
  <2>2. \A k \in 0 .. M : k \in S
    BY <1>1, <2>1, UpTo
  <2> QED
    BY <2>1, <2>2 DEF M
<1>4. N + 2 - (N + 1) = 1
  BY <1>0
<1>5. \E f : ReadsFrom(json, f)
  BY <1>3, <1>4 DEF S, ReadsFrom
<1> QED
  BY <1>5 DEF Rest

\* JsonString() finds what that function has behind the quotation mark.
LEMMA RestIs ==
  ASSUME NEW json \in Seq(Glyph)
  PROVE  /\ \A i \in 1 .. Len(json) + 1 : Rest(json)[i] = BodyOf(json, Rest(json), i)
         /\ \A q : JsonString(json, q) = IF IsAt(json, <<Quote>>, q) THEN Rest(json)[q + 1] ELSE {}
<1>1. \A i \in 1 .. Len(json) + 1 : Rest(json)[i] = BodyOf(json, Rest(json), i)
  BY RestExists DEF ReadsFrom
<1>2. ASSUME NEW q
      PROVE  JsonString(json, q) = IF IsAt(json, <<Quote>>, q) THEN Rest(json)[q + 1] ELSE {}
  BY Zenon DEF JsonString, Rest, ReadsFrom, BodyOf, Continued
<1> QED
  BY <1>1, <1>2

-----------------------------------------------------------------------------
(* Fragments of a message, and one character of a text, escaped or not.    *)

\* The fragment s follows the first p characters.
Holds(json, s, p) ==
  p + Len(s) <= Len(json) /\ \A i \in 1 .. Len(s) : json[p + i] = s[i]

LEMMA HoldsItself ==
  ASSUME NEW json \in Seq(Glyph)
  PROVE  Holds(json, json, 0)
BY DEF Holds

LEMMA HoldsParts ==
  ASSUME NEW s \in Seq(Glyph), NEW t \in Seq(Glyph), NEW p \in Nat, NEW json \in Seq(Glyph),
         Holds(json, s \o t, p)
  PROVE  Holds(json, s, p) /\ p + Len(s) \in Nat /\ Holds(json, t, p + Len(s))
<1> DEFINE u == s \o t
           m == Len(s)
           n == Len(t)
<1>1. IsJoined(u, Glyph, s, t)
  BY JoinedIn
<1>2. Holds(json, u, p)
  OBVIOUS
<1> HIDE DEF u
<1>3. m \in Nat /\ n \in Nat /\ Len(json) \in Nat
  OBVIOUS
<1>4. Len(u) = m + n /\ (\A j \in 1 .. m : u[j] = s[j]) /\ (\A j \in 1 .. n : u[m + j] = t[j])
  BY <1>1 DEF IsJoined
<1>5. p + Len(u) <= Len(json) /\ \A i \in 1 .. Len(u) : json[p + i] = u[i]
  BY <1>2 DEF Holds
<1> HIDE DEF m, n
<1>6. p + m <= Len(json) /\ (p + m) + n <= Len(json)
  BY <1>3, <1>4, <1>5
<1>7. \A i \in 1 .. m : json[p + i] = s[i]
  BY <1>3, <1>4, <1>5
<1>8. \A i \in 1 .. n : json[(p + m) + i] = t[i]
  <2> TAKE i \in 1 .. n
  <2>1. m + i \in 1 .. m + n /\ (p + m) + i = p + (m + i)
    BY <1>3
  <2> QED
    BY <1>4, <1>5, <2>1
<1>9. p + m \in Nat
  BY <1>3
<1> QED
  BY <1>6, <1>7, <1>8, <1>9 DEF Holds, m, n

\* IsAt() finds a fragment where it stands.
LEMMA AtIsHolds ==
  ASSUME NEW json \in Seq(Glyph), NEW s \in Seq(Glyph), NEW p \in Nat, p <= Len(json)
  PROVE  IsAt(json, s, p + 1) <=> Holds(json, s, p)
<1> DEFINE n == Len(s)
           u == SubSeq(json, p + 1, p + 1 + n - 1)
<1>1. n \in Nat /\ Len(json) \in Nat /\ p + 1 + n - 1 = p + n
  OBVIOUS
<1>2. ASSUME p + n <= Len(json)
      PROVE  u \in Seq(Glyph) /\ Len(u) = n /\ \A j \in 1 .. n : u[j] = json[p + j]
  <2> DEFINE a == p + 1
             b == p + 1 + n - 1
  <2>1. a \in Nat /\ b \in Nat /\ 1 <= a /\ a <= b + 1 /\ b <= Len(json) /\ b - a + 1 = n
    BY <1>1, <1>2
  <2>2. \A j \in 1 .. n : a + j - 1 = p + j
    BY <1>1
  <2> HIDE DEF a, b
  <2>3. /\ SubSeq(json, a, b) \in Seq(Glyph) /\ Len(SubSeq(json, a, b)) = b - a + 1
        /\ \A j \in 1 .. b - a + 1 : SubSeq(json, a, b)[j] = json[a + j - 1]
    BY <2>1, Part
  <2> QED
    BY <2>1, <2>2, <2>3 DEF a, b
<1>3. IsAt(json, s, p + 1) <=> p + n <= Len(json) /\ u = s
  BY <1>1 DEF IsAt
<1> HIDE DEF u
<1>4. ASSUME p + n <= Len(json)
      PROVE  u = s <=> \A j \in 1 .. n : json[p + j] = s[j]
  <2>1. u = s => \A j \in 1 .. n : json[p + j] = s[j]
    BY <1>2, <1>4
  <2>2. (\A j \in 1 .. n : json[p + j] = s[j]) => u = s
    BY <1>2, <1>4, SeqEqual
  <2> QED
    BY <2>1, <2>2
<1> QED
  BY <1>3, <1>4 DEF Holds

LEMMA PlainRead ==
  ASSUME NEW json, NEW i, json[i] # Backslash, json[i] \notin Control
  PROVE  CharAt(json, i) = {<<json[i], i + 1>>}
BY DEF CharAt

\* Of the escapes, the one that is there.
LEMMA EscapeRead ==
  ASSUME NEW json \in Seq(Glyph), NEW p \in Nat, p < Len(json), json[p + 1] = Backslash
  PROVE  CharAt(json, p + 1)
           = {<<Escapes[e], p + 1 + Len(e)>> : e \in {f \in DOMAIN Escapes : Holds(json, f, p)}}
<1>1. \A e \in DOMAIN Escapes : e \in Seq(Glyph)
  BY EscapeIs, LetterEscapeHas, UnicodeEscapeHas
<1>2. \A e \in DOMAIN Escapes : IsAt(json, e, p + 1) <=> Holds(json, e, p)
  BY <1>1, AtIsHolds
<1>3. {f \in DOMAIN Escapes : IsAt(json, f, p + 1)} = {f \in DOMAIN Escapes : Holds(json, f, p)}
  BY <1>2
<1> QED
  BY <1>3 DEF CharAt

LEMMA LetterRead ==
  ASSUME NEW json \in Seq(Glyph), NEW p \in Nat, NEW l \in DOMAIN Letters,
         Holds(json, <<Backslash, l>>, p)
  PROVE  CharAt(json, p + 1) = {<<Letters[l], p + 1 + 2>>}
<1> DEFINE s == <<Backslash, l>>
<1>1. s \in DOMAIN Escapes /\ Len(s) = 2 /\ s[1] = Backslash /\ s[2] = l /\ Escapes[s] = Letters[l]
  BY LetterEscapeHas, EscapeIs
<1>2. Holds(json, s, p)
  OBVIOUS
<1>3. ASSUME NEW f \in DOMAIN Escapes, Holds(json, f, p)
      PROVE  f = s
  <2>1. CASE \E k \in DOMAIN Letters : f = <<Backslash, k>>
    <3>1. PICK k \in DOMAIN Letters : f = <<Backslash, k>>
      BY <2>1
    <3>2. Len(f) = 2 /\ f[2] = k
      BY <3>1, LetterEscapeHas
    <3> HIDE DEF s
    <3>3. json[p + 2] = k /\ json[p + 2] = l
      BY <1>1, <1>2, <1>3, <3>2 DEF Holds
    <3> QED
      BY <3>1, <3>3 DEF s
  <2>2. CASE \E digits \in DOMAIN Unicode : f = UnicodeEscape(digits)
    <3>1. PICK digits \in DOMAIN Unicode : f = UnicodeEscape(digits)
      BY <2>2
    <3>2. Len(f) = 6 /\ f[2] = "u"
      BY <3>1, EscapeIs, UnicodeEscapeHas
    <3> HIDE DEF s
    <3>3. json[p + 2] = "u" /\ json[p + 2] = l
      BY <1>1, <1>2, <1>3, <3>2 DEF Holds
    <3> QED
      BY <3>3, MarkSet
  <2> QED
    BY <2>1, <2>2, EscapeIs
<1> HIDE DEF s
<1>4. {f \in DOMAIN Escapes : Holds(json, f, p)} = {s}
  BY <1>1, <1>2, <1>3
<1>5. p < Len(json) /\ json[p + 1] = Backslash
  BY <1>1, <1>2 DEF Holds
<1>6. CharAt(json, p + 1) = {<<Escapes[e], p + 1 + Len(e)>> : e \in {s}}
  BY <1>4, <1>5, EscapeRead
<1> QED
  BY <1>1, <1>6

LEMMA DigitsRead ==
  ASSUME NEW json \in Seq(Glyph), NEW p \in Nat, NEW digits \in [1 .. 4 -> HexDigits],
         Holds(json, UnicodeEscape(digits), p)
  PROVE  /\ digits \in DOMAIN Unicode => CharAt(json, p + 1) = {<<Unicode[digits], p + 1 + 6>>}
         /\ digits \notin DOMAIN Unicode => CharAt(json, p + 1) = {}
<1> DEFINE s == UnicodeEscape(digits)
<1>1. /\ s \in Seq(Glyph) /\ Len(s) = 6 /\ s[1] = Backslash /\ s[2] = "u"
      /\ \A i \in 1 .. 4 : s[i + 2] = digits[i]
  BY UnicodeEscapeHas
<1>2. Holds(json, s, p)
  OBVIOUS
<1> HIDE DEF s
<1>3. /\ p < Len(json) /\ json[p + 1] = Backslash /\ json[p + 2] = "u"
      /\ \A i \in 1 .. 4 : json[p + (i + 2)] = digits[i]
  <2>1. \A i \in 1 .. 4 : i + 2 \in 1 .. 6
    OBVIOUS
  <2> QED
    BY <1>1, <1>2, <2>1 DEF Holds
<1>4. ASSUME NEW f \in DOMAIN Escapes, Holds(json, f, p)
      PROVE  digits \in DOMAIN Unicode /\ f = s
  <2>1. CASE \E k \in DOMAIN Letters : f = <<Backslash, k>>
    <3>1. PICK k \in DOMAIN Letters : f = <<Backslash, k>>
      BY <2>1
    <3>2. Len(f) = 2 /\ f[2] = k
      BY <3>1, LetterEscapeHas
    <3>3. json[p + 2] = k
      BY <1>4, <3>2 DEF Holds
    <3> QED
      BY <1>3, <3>3, MarkSet
  <2>2. CASE \E d \in DOMAIN Unicode : f = UnicodeEscape(d)
    <3>1. PICK d \in DOMAIN Unicode : f = UnicodeEscape(d)
      BY <2>2
    <3>2. d \in [1 .. 4 -> HexDigits] /\ Len(f) = 6 /\ \A i \in 1 .. 4 : f[i + 2] = d[i]
      BY <3>1, EscapeIs, UnicodeEscapeHas
    <3>3. \A i \in 1 .. 4 : i + 2 \in 1 .. 6
      OBVIOUS
    <3>4. \A i \in 1 .. 4 : json[p + (i + 2)] = d[i]
      BY <1>4, <3>2, <3>3 DEF Holds
    <3>5. d = digits
      BY <1>3, <3>2, <3>4
    <3> QED
      BY <3>1, <3>5 DEF s
  <2> QED
    BY <2>1, <2>2, EscapeIs
<1>5. CharAt(json, p + 1)
        = {<<Escapes[e], p + 1 + Len(e)>> : e \in {f \in DOMAIN Escapes : Holds(json, f, p)}}
  BY <1>3, EscapeRead
<1>6. CASE digits \in DOMAIN Unicode
  <2>1. s \in DOMAIN Escapes /\ Escapes[s] = Unicode[digits]
    BY <1>6, EscapeIs DEF s
  <2>2. {f \in DOMAIN Escapes : Holds(json, f, p)} = {s}
    BY <1>2, <1>4, <2>1
  <2>3. CharAt(json, p + 1) = {<<Escapes[e], p + 1 + Len(e)>> : e \in {s}}
    BY <1>5, <2>2
  <2> QED
    BY <1>1, <1>6, <2>1, <2>3
<1>7. CASE digits \notin DOMAIN Unicode
  <2>1. {f \in DOMAIN Escapes : Holds(json, f, p)} = {}
    BY <1>4, <1>7
  <2> QED
    BY <1>5, <1>7, <2>1
<1> QED
  BY <1>6, <1>7

-----------------------------------------------------------------------------
(* What a character is escaped as, which is read as that character.        *)

\* What ServerString() writes for a character.
Chunk(c, ascii) ==
  IF ascii /\ c \in DOMAIN Beyond
    THEN <<Backslash, "u">> \o Beyond[c][1] \o <<Backslash, "u">> \o Beyond[c][2]
  ELSE IF ascii /\ \E digits \in DOMAIN Unicode : Unicode[digits] = c
    THEN <<Backslash, "u">> \o DigitsOf(c)
  ELSE EscapeChar(c)

IsPlain(c, chunk) == chunk = <<c>> /\ c \notin Control /\ c # Quote /\ c # Backslash
IsLetter(c, chunk) == \E l \in DOMAIN Letters : Letters[l] = c /\ chunk = <<Backslash, l>>
IsUnicode(c, chunk) ==
  \E digits \in DOMAIN Unicode : Unicode[digits] = c /\ chunk = UnicodeEscape(digits)
IsHalved(chunk) ==
  \E g, h \in [1 .. 4 -> HexDigits] :
     g \notin DOMAIN Unicode /\ chunk = UnicodeEscape(g) \o UnicodeEscape(h)

Halving(c, ascii) == ascii /\ c \in DOMAIN Beyond

ChunkForm(c, ascii, chunk) ==
  \/ IsPlain(c, chunk) \/ IsLetter(c, chunk) \/ IsUnicode(c, chunk)
  \/ (Halving(c, ascii) /\ IsHalved(chunk))

LEMMA Single ==
  ASSUME NEW S, NEW a \in S
  PROVE  <<a>> \in Seq(S) /\ Len(<<a>>) = 1 /\ <<a>>[1] = a
OBVIOUS

LEMMA DigitsOfIs ==
  ASSUME NEW c, \E digits \in DOMAIN Unicode : Unicode[digits] = c
  PROVE  DigitsOf(c) \in DOMAIN Unicode /\ Unicode[DigitsOf(c)] = c
BY DEF DigitsOf

LEMMA EscapedChunk ==
  ASSUME NEW c, NEW ascii
  PROVE  ChunkForm(c, ascii, EscapeChar(c))
<1>1. CASE c \in Lettered
  <2>1. EscapeChar(c) = <<Backslash, LetterOf(c)>>
    BY <1>1 DEF EscapeChar
  <2>2. LetterOf(c) \in DOMAIN Letters /\ Letters[LetterOf(c)] = c
    BY <1>1, LetteredSet
  <2>3. IsLetter(c, EscapeChar(c))
    BY <2>1, <2>2 DEF IsLetter
  <2> QED
    BY <2>3 DEF ChunkForm
<1>2. CASE c \notin Lettered /\ c \in Control
  <2>1. EscapeChar(c) = UnicodeEscape(DigitsOf(c))
    BY <1>2 DEF EscapeChar, UnicodeEscape
  <2>2. \E digits \in DOMAIN Unicode : Unicode[digits] = c
    BY <1>2, UnicodeAssumption
  <2>3. DigitsOf(c) \in DOMAIN Unicode /\ Unicode[DigitsOf(c)] = c
    BY <2>2, DigitsOfIs
  <2>4. IsUnicode(c, EscapeChar(c))
    BY <2>1, <2>3 DEF IsUnicode
  <2> QED
    BY <2>4 DEF ChunkForm
<1>3. CASE c \notin Lettered /\ c \notin Control
  <2>1. EscapeChar(c) = <<c>>
    BY <1>3 DEF EscapeChar
  <2>2. c # Quote /\ c # Backslash
    BY <1>3, LetteredSet
  <2>3. IsPlain(c, EscapeChar(c))
    BY <1>3, <2>1, <2>2 DEF IsPlain
  <2> QED
    BY <2>3 DEF ChunkForm
<1> QED
  BY <1>1, <1>2, <1>3

LEMMA ConcatAgain ==
  ASSUME NEW S, NEW a \in Seq(S), NEW b \in Seq(S), NEW c \in Seq(S), NEW d \in Seq(S)
  PROVE  ((a \o b) \o c) \o d = (a \o b) \o (c \o d)
<1>1. a \o b \in Seq(S)
  OBVIOUS
<1> DEFINE u == a \o b
<1> HIDE DEF u
<1>2. u \in Seq(S)
  BY <1>1 DEF u
<1>3. (u \o c) \o d = u \o (c \o d)
  BY <1>2, ConcatAssociative, SMTT(30)
<1> QED
  BY <1>3 DEF u

LEMMA HalvesAre ==
  ASSUME NEW c \in DOMAIN Beyond
  PROVE  /\ Beyond[c][1] \in [1 .. 4 -> HexDigits] /\ Beyond[c][2] \in [1 .. 4 -> HexDigits]
         /\ Beyond[c][1] \notin DOMAIN Unicode
<1>1. /\ Beyond[c] \in [1 .. 2 -> [1 .. 4 -> HexDigits]]
      /\ Beyond[c][1][1] \in {"d", "D"} /\ Beyond[c][1][2] \in {"8", "9", "a", "b", "A", "B"}
  BY InputsAssumption
<1> DEFINE g == Beyond[c][1]
<1>2. g \in [1 .. 4 -> HexDigits] /\ Beyond[c][2] \in [1 .. 4 -> HexDigits]
  <2>1. 1 \in 1 .. 2 /\ 2 \in 1 .. 2
    OBVIOUS
  <2> QED
    BY <1>1, <2>1
<1>3. g[1] \in {"d", "D"} /\ g[2] \notin {"0", "1", "2", "3", "4", "5", "6", "7"}
  BY <1>1
<1> HIDE DEF g
<1>4. g \notin DOMAIN Unicode
  BY <1>3, UnicodeAssumption
<1> QED
  BY <1>2, <1>4 DEF g

\* Whatever the character, what it is escaped as has one of these forms.
LEMMA ChunkIs ==
  ASSUME NEW c, NEW ascii \in BOOLEAN
  PROVE  ChunkForm(c, ascii, Chunk(c, ascii))
<1>1. CASE ascii /\ c \in DOMAIN Beyond
  <2> DEFINE g == Beyond[c][1]
             h == Beyond[c][2]
             b == <<Backslash, "u">>
  <2>1. /\ g \in [1 .. 4 -> HexDigits] /\ h \in [1 .. 4 -> HexDigits]
        /\ g \notin DOMAIN Unicode
    BY <1>1, HalvesAre
  <2>2. Chunk(c, ascii) = ((b \o g) \o b) \o h
    BY <1>1 DEF Chunk
  <2>3. b \in Seq(Glyph)
    BY Pair, MarkSet
  <2>4. UnicodeEscape(g) = b \o g /\ UnicodeEscape(h) = b \o h
    BY DEF UnicodeEscape
  <2> HIDE DEF g, h, b
  <2>5. g \in Seq(Glyph) /\ h \in Seq(Glyph)
    BY <2>1, FourDigits
  <2>6. ((b \o g) \o b) \o h = (b \o g) \o (b \o h)
    BY <2>3, <2>5, ConcatAgain
  <2>7. Chunk(c, ascii) = UnicodeEscape(g) \o UnicodeEscape(h)
    BY <2>2, <2>4, <2>6
  <2>8. IsHalved(Chunk(c, ascii))
    BY <2>1, <2>7 DEF IsHalved
  <2> QED
    BY <1>1, <2>8 DEF ChunkForm, Halving
<1>2. CASE ~ (ascii /\ c \in DOMAIN Beyond) /\ ascii /\ \E digits \in DOMAIN Unicode : Unicode[digits] = c
  <2>1. Chunk(c, ascii) = UnicodeEscape(DigitsOf(c))
    BY <1>2 DEF Chunk, UnicodeEscape
  <2>2. DigitsOf(c) \in DOMAIN Unicode /\ Unicode[DigitsOf(c)] = c
    BY <1>2, DigitsOfIs
  <2>3. IsUnicode(c, Chunk(c, ascii))
    BY <2>1, <2>2 DEF IsUnicode
  <2> QED
    BY <2>3 DEF ChunkForm
<1>3. CASE ~ (ascii /\ c \in DOMAIN Beyond)
           /\ ~ (ascii /\ \E digits \in DOMAIN Unicode : Unicode[digits] = c)
  <2>1. Chunk(c, ascii) = EscapeChar(c)
    BY <1>3 DEF Chunk
  <2> QED
    BY <2>1, EscapedChunk
<1> QED
  BY <1>1, <1>2, <1>3

\* A quotation mark stands only behind a backslash.
Covered(s) ==
  /\ s \in Seq(Glyph) /\ Len(s) \in Nat /\ 1 <= Len(s) /\ s[1] # Quote
  /\ \A i \in 2 .. Len(s) : s[i] = Quote => s[i - 1] = Backslash

LEMMA EscapeCovered ==
  ASSUME NEW digits \in [1 .. 4 -> HexDigits]
  PROVE  \A i \in 1 .. 6 : UnicodeEscape(digits)[i] # Quote
<1> DEFINE s == UnicodeEscape(digits)
<1>1. s[1] = Backslash /\ s[2] = "u" /\ \A i \in 1 .. 4 : s[i + 2] = digits[i]
  BY UnicodeEscapeHas
<1>2. \A i \in 1 .. 4 : digits[i] \in HexDigits
  OBVIOUS
<1> HIDE DEF s
<1>3. ASSUME NEW i \in 3 .. 6
      PROVE  s[i] # Quote
  <2>1. i - 2 \in 1 .. 4 /\ (i - 2) + 2 = i
    OBVIOUS
  <2>2. s[i] = digits[i - 2] /\ digits[i - 2] \in HexDigits
    BY <1>1, <1>2, <2>1
  <2> QED
    BY <2>2, MarkSet
<1>4. \A i \in 1 .. 6 : i = 1 \/ i = 2 \/ i \in 3 .. 6
  OBVIOUS
<1>5. \A i \in 1 .. 6 : s[i] # Quote
  BY <1>1, <1>3, <1>4, MarkSet
<1> QED
  BY <1>5 DEF s

LEMMA ChunkCovered ==
  ASSUME NEW c \in Glyph, NEW ascii, NEW chunk, ChunkForm(c, ascii, chunk)
  PROVE  Covered(chunk)
<1>1. CASE IsPlain(c, chunk)
  <2>1. chunk = <<c>> /\ c # Quote
    BY <1>1 DEF IsPlain
  <2>2. chunk \in Seq(Glyph) /\ Len(chunk) = 1 /\ chunk[1] # Quote
    BY <2>1, Single
  <2> QED
    BY <2>2 DEF Covered
<1>2. CASE IsLetter(c, chunk)
  <2>1. PICK l \in DOMAIN Letters : chunk = <<Backslash, l>>
    BY <1>2 DEF IsLetter
  <2>2. chunk \in Seq(Glyph) /\ Len(chunk) = 2 /\ chunk[1] = Backslash
    BY <2>1, LetterEscapeHas
  <2>3. chunk[1] # Quote /\ \A i \in 2 .. 2 : chunk[i - 1] = Backslash
    BY <2>2, MarkSet
  <2> QED
    BY <2>2, <2>3 DEF Covered
<1>3. CASE IsUnicode(c, chunk)
  <2>1. PICK digits \in DOMAIN Unicode : chunk = UnicodeEscape(digits)
    BY <1>3 DEF IsUnicode
  <2>2. digits \in [1 .. 4 -> HexDigits]
    BY EscapeIs
  <2>3. chunk \in Seq(Glyph) /\ Len(chunk) = 6 /\ \A i \in 1 .. 6 : chunk[i] # Quote
    BY <2>1, <2>2, UnicodeEscapeHas, EscapeCovered
  <2> QED
    BY <2>3 DEF Covered
<1>4. CASE IsHalved(chunk)
  <2>1. PICK g, h \in [1 .. 4 -> HexDigits] : chunk = UnicodeEscape(g) \o UnicodeEscape(h)
    BY <1>4 DEF IsHalved
  <2> DEFINE s == UnicodeEscape(g)
             t == UnicodeEscape(h)
  <2>2. s \in Seq(Glyph) /\ Len(s) = 6 /\ \A i \in 1 .. 6 : s[i] # Quote
    BY UnicodeEscapeHas, EscapeCovered
  <2>3. t \in Seq(Glyph) /\ Len(t) = 6 /\ \A i \in 1 .. 6 : t[i] # Quote
    BY UnicodeEscapeHas, EscapeCovered
  <2> HIDE DEF s, t
  <2>4. IsJoined(chunk, Glyph, s, t)
    BY <2>1, <2>2, <2>3, JoinedIn DEF s, t
  <2>5. chunk \in Seq(Glyph) /\ Len(chunk) = 12
        /\ (\A j \in 1 .. 6 : chunk[j] = s[j]) /\ (\A j \in 1 .. 6 : chunk[6 + j] = t[j])
    BY <2>2, <2>3, <2>4 DEF IsJoined
  <2>6. \A i \in 1 .. 12 : chunk[i] # Quote
    <3>1. \A i \in 1 .. 12 : i \in 1 .. 6 \/ (i - 6 \in 1 .. 6 /\ 6 + (i - 6) = i)
      OBVIOUS
    <3> QED
      BY <2>2, <2>3, <2>5, <3>1
  <2> QED
    BY <2>5, <2>6 DEF Covered
<1> QED
  BY <1>1, <1>2, <1>3, <1>4 DEF ChunkForm

\* It is read as the character, where it stands; halves are not read.
LEMMA ChunkRead ==
  ASSUME NEW json \in Seq(Glyph), NEW p \in Nat, NEW c, NEW ascii, NEW chunk,
         ChunkForm(c, ascii, chunk), Holds(json, chunk, p)
  PROVE  \/ CharAt(json, p + 1) = {<<c, p + 1 + Len(chunk)>>}
         \/ Halving(c, ascii) /\ CharAt(json, p + 1) = {}
<1>1. CASE IsPlain(c, chunk)
  <2>1. chunk = <<c>> /\ c # Backslash /\ c \notin Control
    BY <1>1 DEF IsPlain
  <2>2. Len(chunk) = 1 /\ chunk[1] = c
    BY <2>1
  <2>3. json[p + 1] = c
    BY <2>2 DEF Holds
  <2>4. CharAt(json, p + 1) = {<<json[p + 1], p + 1 + 1>>}
    BY <2>1, <2>3, PlainRead
  <2> QED
    BY <2>2, <2>3, <2>4
<1>2. CASE IsLetter(c, chunk)
  <2>1. PICK l \in DOMAIN Letters : Letters[l] = c /\ chunk = <<Backslash, l>>
    BY <1>2 DEF IsLetter
  <2>2. Len(chunk) = 2
    BY <2>1, LetterEscapeHas
  <2>3. CharAt(json, p + 1) = {<<Letters[l], p + 1 + 2>>}
    BY <2>1, LetterRead
  <2> QED
    BY <2>1, <2>2, <2>3
<1>3. CASE IsUnicode(c, chunk)
  <2>1. PICK digits \in DOMAIN Unicode : Unicode[digits] = c /\ chunk = UnicodeEscape(digits)
    BY <1>3 DEF IsUnicode
  <2>2. digits \in [1 .. 4 -> HexDigits]
    BY EscapeIs
  <2>3. CharAt(json, p + 1) = {<<Unicode[digits], p + 1 + 6>>}
    BY <2>1, <2>2, DigitsRead
  <2>4. Len(chunk) = 6
    BY <2>1, <2>2, UnicodeEscapeHas
  <2> QED
    BY <2>1, <2>3, <2>4
<1>4. CASE Halving(c, ascii) /\ IsHalved(chunk)
  <2>1. PICK g, h \in [1 .. 4 -> HexDigits] :
          g \notin DOMAIN Unicode /\ chunk = UnicodeEscape(g) \o UnicodeEscape(h)
    BY <1>4 DEF IsHalved
  <2>2. UnicodeEscape(g) \in Seq(Glyph) /\ UnicodeEscape(h) \in Seq(Glyph)
    BY UnicodeEscapeHas
  <2>3. Holds(json, UnicodeEscape(g), p)
    BY <2>1, <2>2, HoldsParts
  <2>4. CharAt(json, p + 1) = {}
    BY <2>1, <2>3, DigitsRead
  <2> QED
    BY <1>4, <2>4
<1> QED
  BY <1>1, <1>2, <1>3, <1>4 DEF ChunkForm

-----------------------------------------------------------------------------
(* A text, escaped character by character.                                 *)

LEMMA Nothing ==
  ASSUME NEW S
  PROVE  <<>> \in Seq(S) /\ Len(<<>>) = 0
OBVIOUS

\* The text's characters, escaped one after the other.
Escaped(body, text, ascii, chunks, off) ==
  /\ body \in Seq(Glyph) /\ chunks \in [1 .. Len(text) -> Seq(Glyph)]
  /\ off \in [0 .. Len(text) -> Nat] /\ off[0] = 0 /\ Len(body) = off[Len(text)]
  /\ \A i \in 1 .. Len(text) :
       /\ off[i] = off[i - 1] + Len(chunks[i])
       /\ ChunkForm(text[i], ascii, chunks[i]) /\ Covered(chunks[i])
       /\ \A j \in 1 .. Len(chunks[i]) : body[off[i - 1] + j] = chunks[i][j]

IsEscaped(body, text, ascii) == \E chunks, off : Escaped(body, text, ascii, chunks, off)

\* An escaped text consists of what its characters are escaped as.
LEMMA EscapedBody ==
  ASSUME NEW text \in Seq(Glyph), NEW ascii, NEW chunks, chunks = [i \in DOMAIN text |-> chunks[i]],
         \A i \in DOMAIN text : ChunkForm(text[i], ascii, chunks[i])
  PROVE  IsEscaped(FlattenSeq(chunks), text, ascii)
<1> DEFINE n == Len(text)
<1>1. n \in Nat /\ DOMAIN text = 1 .. n /\ \A i \in 1 .. n : text[i] \in Glyph
  OBVIOUS
<1>2. \A i \in 1 .. n : ChunkForm(text[i], ascii, chunks[i]) /\ Covered(chunks[i])
  BY <1>1, ChunkCovered
<1>3. chunks \in [1 .. n -> Seq(Glyph)]
  <2>1. \A i \in 1 .. n : chunks[i] \in Seq(Glyph)
    BY <1>2 DEF Covered
  <2> QED
    BY <1>1, <2>1
<1> HIDE DEF n
<1>4. CASE n = 0
  <2>1. chunks = <<>>
    <3>1. chunks \in Seq(Seq(Glyph)) /\ Len(chunks) = 0
      BY <1>1, <1>3, <1>4, Listed
    <3> QED
      BY <3>1
  <2>2. FlattenSeq(chunks) = <<>>
    BY <2>1 DEF FlattenSeq
  <2> DEFINE off == [i \in 0 .. n |-> 0]
  <2>3. off \in [0 .. n -> Nat] /\ off[0] = 0 /\ off[n] = 0
    BY <1>1
  <2>4. 1 .. n = {}
    BY <1>4
  <2> HIDE DEF off
  <2>5. FlattenSeq(chunks) \in Seq(Glyph) /\ Len(FlattenSeq(chunks)) = 0
    BY <2>2, Nothing
  <2>6. Escaped(FlattenSeq(chunks), text, ascii, chunks, off)
    BY <1>3, <2>3, <2>4, <2>5 DEF Escaped, n
  <2> QED
    BY <2>6 DEF IsEscaped
<1>5. CASE n # 0
  <2>1. n \in Nat \ {0}
    BY <1>1, <1>5
  <2>2. PICK off \in [0 .. n -> Nat] :
           /\ off[0] = 0 /\ \A i \in 1 .. n : off[i] = off[i - 1] + Len(chunks[i])
           /\ FlattenSeq(chunks) \in Seq(Glyph) /\ Len(FlattenSeq(chunks)) = off[n]
           /\ \A i \in 1 .. n : \A j \in 1 .. Len(chunks[i]) :
                FlattenSeq(chunks)[off[i - 1] + j] = chunks[i][j]
    <3>1. IsFlat(FlattenSeq(chunks), Glyph, n, chunks)
      BY <1>3, <2>1, Flattened
    <3> QED
      BY <3>1 DEF IsFlat
  <2>3. Escaped(FlattenSeq(chunks), text, ascii, chunks, off)
    BY <1>2, <1>3, <2>2 DEF Escaped, n
  <2> QED
    BY <2>3 DEF IsEscaped
<1> QED
  BY <1>4, <1>5

LEMMA EscapedQuotes ==
  ASSUME NEW body, NEW text \in Seq(Glyph), NEW ascii, NEW chunks, NEW off,
         Escaped(body, text, ascii, chunks, off)
  PROVE  \A i \in 1 .. Len(body) : body[i] = Quote => i > 1 /\ body[i - 1] = Backslash
<1> DEFINE n == Len(text)
           Good(i) == body[i] = Quote => i > 1 /\ body[i - 1] = Backslash
           S == {k \in 0 .. n : \A i \in 1 .. off[k] : Good(i)}
<1>1. n \in Nat
  OBVIOUS
<1>2. off \in [0 .. n -> Nat] /\ off[0] = 0 /\ Len(body) = off[n]
  BY DEF Escaped
<1>3. 0 \in S
  BY <1>1, <1>2
<1>4. ASSUME NEW k \in 1 .. n, k - 1 \in S
      PROVE  k \in S
  <2> DEFINE c == chunks[k]
             a == off[k - 1]
  <2>1. Covered(c) /\ off[k] = a + Len(c) /\ \A j \in 1 .. Len(c) : body[a + j] = c[j]
    BY DEF Escaped
  <2>2. a \in Nat
    BY <1>2
  <2>3. \A i \in 1 .. a : Good(i)
    BY <1>4
  <2> HIDE DEF c, a, n
  <2>4. /\ Len(c) \in Nat /\ 1 <= Len(c) /\ c[1] # Quote
        /\ \A j \in 2 .. Len(c) : c[j] = Quote => c[j - 1] = Backslash
    BY <2>1 DEF Covered
  <2> DEFINE m == Len(c)
  <2> HIDE DEF m
  <2>5. ASSUME NEW i \in a + 1 .. a + m, body[i] = Quote
        PROVE  i > 1 /\ body[i - 1] = Backslash
    <3>1. PICK j \in 1 .. m : j = i - a /\ i = a + j
      BY <2>2, <2>4 DEF m
    <3>2. c[j] = Quote
      BY <2>1, <2>5, <3>1 DEF m
    <3>3. j \in 2 .. m /\ j - 1 \in 1 .. m
      BY <2>4, <3>2 DEF m
    <3>4. body[a + (j - 1)] = c[j - 1] /\ c[j - 1] = Backslash
      BY <2>1, <2>4, <3>2, <3>3 DEF m
    <3>5. a + (j - 1) = i - 1 /\ i > 1
      BY <2>2, <3>1, <3>3
    <3> QED
      BY <3>4, <3>5
  <2>6. \A i \in 1 .. a + m : i \in 1 .. a \/ i \in a + 1 .. a + m
    BY <2>2, <2>4 DEF m
  <2>7. \A i \in 1 .. a + m : Good(i)
    BY <2>3, <2>5, <2>6
  <2> QED
    BY <2>1, <2>7 DEF m
<1> HIDE DEF S
<1>5. \A k \in 0 .. n : k \in S
  BY <1>1, <1>3, <1>4, UpTo
<1>6. n \in S
  BY <1>1, <1>5
<1> QED
  BY <1>2, <1>6 DEF S

LEMMA TailOf ==
  ASSUME NEW S, NEW w \in Seq(S), NEW k \in 1 .. Len(w)
  PROVE  <<w[k]>> \o SubSeq(w, k + 1, Len(w)) = SubSeq(w, k, Len(w))
<1> DEFINE n == Len(w)
           a == <<w[k]>>
           t == SubSeq(w, k + 1, n)
           u == SubSeq(w, k, n)
           v == a \o t
<1>1. n \in Nat /\ k \in Nat /\ k + 1 \in Nat /\ w[k] \in S
  OBVIOUS
<1>2. a \in Seq(S) /\ Len(a) = 1 /\ a[1] = w[k]
  BY <1>1, Single
<1>3. 1 <= k /\ 1 <= k + 1 /\ k <= n + 1 /\ k + 1 <= n + 1 /\ n <= n
  OBVIOUS
<1>4. t \in Seq(S) /\ Len(t) = n - (k + 1) + 1 /\ \A j \in 1 .. n - (k + 1) + 1 : t[j] = w[(k + 1) + j - 1]
  BY <1>1, <1>3, Part
<1>5. u \in Seq(S) /\ Len(u) = n - k + 1 /\ \A j \in 1 .. n - k + 1 : u[j] = w[k + j - 1]
  BY <1>1, <1>3, Part
<1>6. IsJoined(v, S, a, t)
  BY <1>2, <1>4, JoinedIn
<1> HIDE DEF a, t, u, v
<1>7. v \in Seq(S) /\ Len(v) = 1 + Len(t) /\ v[1] = w[k] /\ \A j \in 1 .. Len(t) : v[1 + j] = t[j]
  BY <1>2, <1>6 DEF IsJoined
<1>8. k \in 1 .. n
  OBVIOUS
<1> HIDE DEF n
<1>9. Len(v) = n - k + 1
  BY <1>1, <1>4, <1>7, <1>8
<1>10. ASSUME NEW j \in 1 .. n - k + 1
       PROVE  v[j] = u[j]
  <2>1. CASE j = 1
    <3>1. k + 1 - 1 = k
      BY <1>1
    <3> QED
      BY <1>5, <1>7, <2>1, <3>1
  <2>2. CASE j # 1
    <3>1. j - 1 \in 1 .. n - (k + 1) + 1 /\ 1 + (j - 1) = j /\ (k + 1) + (j - 1) - 1 = k + j - 1
      BY <1>1, <1>8, <2>2
    <3>2. v[j] = t[j - 1] /\ t[j - 1] = w[k + j - 1]
      BY <1>4, <1>7, <3>1
    <3> QED
      BY <1>5, <3>2
  <2> QED
    BY <2>1, <2>2
<1>11. v = u
  BY <1>5, <1>7, <1>9, <1>10, SeqEqual
<1> QED
  BY <1>11 DEF a, t, u, v, n

-----------------------------------------------------------------------------
(* Such a text is read to its end, where the quotation mark is.            *)

OneAt(json, i, c, j) == CharAt(json, i) = {<<c, j>>}

LEMMA BodyOne ==
  ASSUME NEW json \in Seq(Glyph), NEW i \in 1 .. Len(json), json[i] # Quote, NEW f,
         NEW c, NEW j, OneAt(json, i, c, j)
  PROVE  BodyOf(json, f, i) = Continued(c, f[j])
<1>1. BodyOf(json, f, i) = UNION {Continued(read[1], f[read[2]]) : read \in CharAt(json, i)}
  BY DEF BodyOf
<1>2. {Continued(read[1], f[read[2]]) : read \in {<<c, j>>}} = {Continued(c, f[j])}
  OBVIOUS
<1> QED
  BY <1>1, <1>2 DEF OneAt

LEMMA BodyNone ==
  ASSUME NEW json \in Seq(Glyph), NEW i \in 1 .. Len(json), json[i] # Quote, NEW f,
         CharAt(json, i) = {}
  PROVE  BodyOf(json, f, i) = {}
BY DEF BodyOf

\* What was found is this one.
One(found, text, after) == found = {[text |-> text, after |-> after]}

LEMMA ContinuedOne ==
  ASSUME NEW found, NEW c, NEW t, NEW after, One(found, t, after)
  PROVE  One(Continued(c, found), <<c>> \o t, after)
BY DEF Continued, One

Lossy(text, ascii) == \E i \in 1 .. Len(text) : Halving(text[i], ascii)

\* What is found of a text, or nothing of one with a character in two halves.
Finds(found, text, ascii, after) ==
  \/ One(found, text, after)
  \/ Lossy(text, ascii) /\ found = {}

\* Behind an opening quotation mark the text is found, and where it ends.
LEMMA EscapedRead ==
  ASSUME NEW json \in Seq(Glyph), NEW p \in Nat, NEW text \in Seq(Glyph), NEW ascii,
         NEW body, NEW chunks, NEW off, Escaped(body, text, ascii, chunks, off),
         Holds(json, body, p), NEW q, q = p + Len(body) + 1, q <= Len(json), json[q] = Quote
  PROVE  Finds(Rest(json)[p + 1], text, ascii, q + 1)
<1> DEFINE n == Len(text)
           Spot(k) == p + off[k] + 1
           S == {m \in 0 .. n : \/ One(Rest(json)[Spot(n - m)], SubSeq(text, n - m + 1, n), q + 1)
                                \/ Lossy(text, ascii) /\ Rest(json)[Spot(n - m)] = {}}
<1>1. /\ n \in Nat /\ off \in [0 .. n -> Nat] /\ off[0] = 0 /\ Len(body) = off[n]
      /\ \A k \in 1 .. n :
           /\ off[k] = off[k - 1] + Len(chunks[k])
           /\ ChunkForm(text[k], ascii, chunks[k]) /\ Covered(chunks[k])
           /\ \A j \in 1 .. Len(chunks[k]) : body[off[k - 1] + j] = chunks[k][j]
  BY DEF Escaped
<1>2. p + Len(body) <= Len(json) /\ \A i \in 1 .. Len(body) : json[p + i] = body[i]
  BY DEF Holds
<1>2a. Len(json) \in Nat /\ p \in Nat
  OBVIOUS
<1>3. Spot(n) = q /\ q \in 1 .. Len(json)
  BY <1>1, <1>2a
<1>4. 0 \in S
  <2>1. One(Rest(json)[q], <<>>, q + 1)
    <3>1. q \in 1 .. Len(json) + 1
      BY <1>3, <1>2a
    <3>2. Rest(json)[q] = BodyOf(json, Rest(json), q)
      BY <3>1, RestIs
    <3>3. ~ (q > Len(json))
      BY <1>3
    <3> QED
      BY <3>2, <3>3 DEF BodyOf, One
  <2>2. SubSeq(text, n + 1, n) = <<>>
    <3> DEFINE t == SubSeq(text, n + 1, n)
    <3>1. n + 1 \in Nat /\ 1 <= n + 1 /\ n + 1 <= n + 1 /\ n <= Len(text) /\ n - (n + 1) + 1 = 0
      BY <1>1
    <3>2. t \in Seq(Glyph) /\ Len(t) = n - (n + 1) + 1
      BY <1>1, <3>1, Part
    <3> HIDE DEF t
    <3>3. t = <<>>
      BY <3>1, <3>2
    <3> QED
      BY <3>3 DEF t
  <2>3. n - 0 = n
    BY <1>1
  <2> HIDE DEF Spot
  <2>4. One(Rest(json)[Spot(n)], SubSeq(text, n + 1, n), q + 1)
    BY <1>3, <2>1, <2>2
  <2>5. \A z : z = n => One(Rest(json)[Spot(z)], SubSeq(text, z + 1, n), q + 1)
    BY <2>4
  <2>6. 0 \in 0 .. n
    BY <1>1
  <2> QED
    BY <2>3, <2>5, <2>6
<1>5. ASSUME NEW m \in 1 .. n, m - 1 \in S
      PROVE  m \in S
  <2> DEFINE k == n - m + 1
             c == chunks[k]
             o == off[k - 1]
             i == p + o + 1
  <2>1. k \in 1 .. n /\ k - 1 \in 0 .. n /\ n - (m - 1) = k /\ n - m = k - 1
    BY <1>1
  <2>2. /\ off[k] = o + Len(c) /\ ChunkForm(text[k], ascii, c) /\ Covered(c)
        /\ \A j \in 1 .. Len(c) : body[o + j] = c[j]
    BY <1>1, <2>1
  <2>3. o \in Nat /\ off[k] \in Nat
    <3>1. k \in 0 .. n
      BY <2>1
    <3> QED
      BY <1>1, <2>1, <3>1
  <2>4. off[k] <= off[n]
    <3>1. \A x \in 1 .. n : off[x - 1] <= off[x]
      <4> TAKE x \in 1 .. n
      <4>1. off[x] = off[x - 1] + Len(chunks[x]) /\ Len(chunks[x]) \in Nat
        BY <1>1 DEF Covered
      <4>2. x - 1 \in 0 .. n
        BY <1>1
      <4>3. off[x - 1] \in Nat
        BY <1>1, <4>2
      <4> QED
        BY <4>1, <4>3
    <3>2. k \in 0 .. n /\ n \in 0 .. n /\ k <= n
      BY <1>1, <2>1
    <3> QED
      BY <1>1, <3>1, <3>2, Increasing
  <2>5. Len(c) \in Nat /\ 1 <= Len(c) /\ c[1] # Quote
    BY <2>2 DEF Covered
  <2>6. \/ One(Rest(json)[Spot(k)], SubSeq(text, k + 1, n), q + 1)
        \/ (Lossy(text, ascii) /\ Rest(json)[Spot(k)] = {})
    BY <1>5, <2>1
  <2>6a. text[k] \in Glyph
    BY <2>1
  <2>7. <<text[k]>> \o SubSeq(text, k + 1, n) = SubSeq(text, k, n)
    BY <2>1, TailOf
  <2> HIDE DEF c, k
  <2> DEFINE l == Len(c)
             b == Len(body)
  <2>7a. b = off[n] /\ b \in Nat
    BY <1>1
  <2> HIDE DEF o, l, b
  <2>8. Holds(json, c, p + o)
    <3>0. o \in Nat /\ l \in Nat /\ p \in Nat /\ p + b <= Len(json) /\ o + l <= b
      BY <1>2, <1>2a, <2>2, <2>3, <2>4, <2>5, <2>7a DEF l, b
    <3>1. p + o + l <= Len(json) /\ \A j \in 1 .. l : o + j \in 1 .. b /\ (p + o) + j = p + (o + j)
      BY <1>2a, <2>7a, <3>0
    <3>2. \A j \in 1 .. l : json[(p + o) + j] = c[j]
      BY <1>2, <2>2, <3>1 DEF l, b
    <3> QED
      BY <3>1, <3>2 DEF Holds, l
  <2>9. p + o \in Nat /\ i \in 1 .. Len(json) /\ i \in 1 .. Len(json) + 1
    <3>1. p + o + l <= Len(json)
      BY <2>8 DEF Holds, l
    <3> QED
      BY <1>2a, <2>3, <2>5, <3>1 DEF l
  <2>10. \/ CharAt(json, i) = {<<text[k], i + l>>}
         \/ (Halving(text[k], ascii) /\ CharAt(json, i) = {})
    BY <2>2, <2>8, <2>9, ChunkRead DEF l
  <2>11. i + l = Spot(k) /\ Spot(k - 1) = i
    BY <1>2a, <2>2, <2>3, <2>5 DEF l, o
  <2>12. json[i] # Quote
    <3>1. json[(p + o) + 1] = c[1]
      BY <2>5, <2>8 DEF Holds
    <3> QED
      BY <2>5, <3>1
  <2> HIDE DEF i, Spot
  <2>13. Rest(json)[i] = BodyOf(json, Rest(json), i)
    BY <2>9, RestIs
  <2>14. CASE CharAt(json, i) = {<<text[k], Spot(k)>>}
    <3>1. Rest(json)[i] = Continued(text[k], Rest(json)[Spot(k)])
      <4> DEFINE y == Spot(k)
                 x == text[k]
      <4>1. OneAt(json, i, x, y)
        BY <2>14 DEF OneAt
      <4> HIDE DEF x, y
      <4>2. BodyOf(json, Rest(json), i) = Continued(x, Rest(json)[y])
        BY <2>9, <2>12, <4>1, BodyOne
      <4> QED
        BY <2>13, <4>2 DEF x, y
    <3>2. CASE One(Rest(json)[Spot(k)], SubSeq(text, k + 1, n), q + 1)
      <4>1. One(Rest(json)[i], <<text[k]>> \o SubSeq(text, k + 1, n), q + 1)
        BY <3>1, <3>2, ContinuedOne
      <4>2. n - m + 1 = k
        BY DEF k
      <4>3. One(Rest(json)[Spot(n - m)], SubSeq(text, n - m + 1, n), q + 1)
        BY <2>1, <2>7, <2>11, <4>1, <4>2
      <4> QED
        BY <4>3
    <3>3. CASE Lossy(text, ascii) /\ Rest(json)[Spot(k)] = {}
      <4>1. Rest(json)[i] = {}
        BY <3>1, <3>3 DEF Continued
      <4> QED
        BY <2>1, <2>11, <3>3, <4>1
    <3> QED
      BY <2>6, <3>2, <3>3
  <2>15. CASE Halving(text[k], ascii) /\ CharAt(json, i) = {}
    <3>1. Rest(json)[i] = {}
      BY <2>9, <2>12, <2>13, <2>15, BodyNone
    <3>2. Lossy(text, ascii)
      BY <2>1, <2>15 DEF Lossy
    <3> QED
      BY <2>1, <2>11, <3>1, <3>2
  <2> QED
    BY <2>10, <2>11, <2>14, <2>15
<1> HIDE DEF S
<1>6. n \in S
  <2>1. \A m \in 0 .. n : m \in S
    BY <1>1, <1>4, <1>5, UpTo
  <2> QED
    BY <1>1, <2>1
<1>7. n - n = 0 /\ Spot(0) = p + 1 /\ 0 + 1 = 1
  BY <1>1, <1>2a
<1>8. SubSeq(text, 1, n) = text
  <2> DEFINE t == SubSeq(text, 1, n)
  <2>1. 1 \in Nat /\ 1 <= n + 1 /\ n <= Len(text) /\ n - 1 + 1 = n /\ \A j \in 1 .. n : 1 + j - 1 = j
    BY <1>1
  <2>2. t \in Seq(Glyph) /\ Len(t) = n - 1 + 1 /\ \A j \in 1 .. n - 1 + 1 : t[j] = text[1 + j - 1]
    BY <1>1, <2>1, Part
  <2> HIDE DEF t
  <2>3. t = text
    BY <2>1, <2>2, SeqEqual
  <2> QED
    BY <2>3 DEF t
<1> HIDE DEF Spot
<1>9. \/ One(Rest(json)[p + 1], text, q + 1)
      \/ (Lossy(text, ascii) /\ Rest(json)[p + 1] = {})
  BY <1>6, <1>7, <1>8 DEF S
<1> QED
  BY <1>9 DEF Finds

-----------------------------------------------------------------------------
(* Between quotation marks.                                                *)

Spelled(s, text, ascii) ==
  \E body : IsEscaped(body, text, ascii) /\ s = (<<Quote>> \o body) \o <<Quote>>

\* Between its quotation marks none stands but behind a backslash.
Framed(s) ==
  /\ s \in Seq(Glyph) /\ Len(s) \in Nat /\ 2 <= Len(s) /\ s[1] = Quote /\ s[Len(s)] = Quote
  /\ \A i \in 2 .. Len(s) - 1 : s[i] = Quote => s[i - 1] = Backslash

LEMMA Enclosed ==
  ASSUME NEW body \in Seq(Glyph), NEW s, s = (<<Quote>> \o body) \o <<Quote>>
  PROVE  /\ s \in Seq(Glyph) /\ Len(s) = Len(body) + 2
         /\ s[1] = Quote /\ s[Len(body) + 2] = Quote
         /\ \A i \in 1 .. Len(body) : s[1 + i] = body[i]
<1> DEFINE q == <<Quote>>
           t == q \o body
           n == Len(body)
<1>1. q \in Seq(Glyph) /\ Len(q) = 1 /\ q[1] = Quote
  BY Single, MarkSet
<1>2. n \in Nat
  OBVIOUS
<1>3. s = t \o q
  OBVIOUS
<1>4. IsJoined(t, Glyph, q, body)
  BY <1>1, JoinedIn
<1> HIDE DEF q, t
<1>5. t \in Seq(Glyph) /\ Len(t) = 1 + n /\ t[1] = Quote /\ \A i \in 1 .. n : t[1 + i] = body[i]
  BY <1>1, <1>4 DEF IsJoined
<1>6. IsJoined(s, Glyph, t, q)
  BY <1>1, <1>3, <1>5, JoinedIn
<1> HIDE DEF n
<1>7. /\ s \in Seq(Glyph) /\ Len(s) = (1 + n) + 1 /\ (\A i \in 1 .. 1 + n : s[i] = t[i])
      /\ s[(1 + n) + 1] = q[1]
  BY <1>1, <1>5, <1>6 DEF IsJoined
<1>8. (1 + n) + 1 = n + 2 /\ 1 \in 1 .. 1 + n /\ \A i \in 1 .. n : 1 + i \in 1 .. 1 + n
  BY <1>2
<1>9. \A i \in 1 .. n : s[1 + i] = body[i]
  BY <1>5, <1>7, <1>8
<1> QED
  BY <1>1, <1>5, <1>7, <1>8, <1>9 DEF n

LEMMA SpelledFrame ==
  ASSUME NEW s, NEW text \in Seq(Glyph), NEW ascii, Spelled(s, text, ascii)
  PROVE  Framed(s)
<1>1. PICK body : IsEscaped(body, text, ascii) /\ s = (<<Quote>> \o body) \o <<Quote>>
  BY DEF Spelled
<1>2. PICK chunks, off : Escaped(body, text, ascii, chunks, off)
  BY <1>1 DEF IsEscaped
<1>3. body \in Seq(Glyph)
  BY <1>2 DEF Escaped
<1> DEFINE n == Len(body)
<1>4. n \in Nat
  BY <1>3
<1>5. \A i \in 1 .. n : body[i] = Quote => i > 1 /\ body[i - 1] = Backslash
  BY <1>2, EscapedQuotes
<1>6. /\ s \in Seq(Glyph) /\ Len(s) = n + 2 /\ s[1] = Quote /\ s[n + 2] = Quote
      /\ \A i \in 1 .. n : s[1 + i] = body[i]
  BY <1>1, <1>3, Enclosed
<1> HIDE DEF n
<1>7. ASSUME NEW i \in 2 .. Len(s) - 1, s[i] = Quote
      PROVE  s[i - 1] = Backslash
  <2>1. i - 1 \in 1 .. n /\ 1 + (i - 1) = i
    BY <1>4, <1>6
  <2>2. body[i - 1] = Quote
    BY <1>6, <1>7, <2>1
  <2>3. i - 1 > 1 /\ body[(i - 1) - 1] = Backslash
    BY <1>5, <2>1, <2>2
  <2>4. (i - 1) - 1 \in 1 .. n /\ 1 + ((i - 1) - 1) = i - 1
    <3> DEFINE j == i - 1
    <3>1. j \in 1 .. n /\ j > 1
      BY <2>1, <2>3
    <3> HIDE DEF j
    <3>2. j - 1 \in 1 .. n /\ 1 + (j - 1) = j
      BY <1>4, <3>1
    <3> QED
      BY <3>2 DEF j
  <2> QED
    BY <1>6, <2>3, <2>4
<1>8. Len(s) \in Nat /\ 2 <= Len(s)
  BY <1>4, <1>6
<1> QED
  BY <1>6, <1>7, <1>8 DEF Framed

\* Wherever a text stands in quotation marks, it is found there.
LEMMA SpelledRead ==
  ASSUME NEW s, NEW text \in Seq(Glyph), NEW ascii, Spelled(s, text, ascii),
         NEW json \in Seq(Glyph), NEW p \in Nat, Holds(json, s, p)
  PROVE  Finds(JsonString(json, p + 1), text, ascii, p + Len(s) + 1)
<1>1. PICK body : IsEscaped(body, text, ascii) /\ s = (<<Quote>> \o body) \o <<Quote>>
  BY DEF Spelled
<1>2. PICK chunks, off : Escaped(body, text, ascii, chunks, off)
  BY <1>1 DEF IsEscaped
<1>3. body \in Seq(Glyph)
  BY <1>2 DEF Escaped
<1> DEFINE n == Len(body)
           q == p + n + 2
<1>4. n \in Nat /\ p \in Nat /\ Len(json) \in Nat
  BY <1>3
<1>6. /\ s \in Seq(Glyph) /\ Len(s) = n + 2 /\ s[1] = Quote /\ s[n + 2] = Quote
      /\ \A i \in 1 .. n : s[1 + i] = body[i]
  BY <1>1, <1>3, Enclosed
<1> HIDE DEF n
<1>7. p + (n + 2) <= Len(json) /\ \A i \in 1 .. n + 2 : json[p + i] = s[i]
  BY <1>6 DEF Holds
<1>8. Holds(json, body, p + 1)
  <2>1. \A i \in 1 .. n : 1 + i \in 1 .. n + 2 /\ (p + 1) + i = p + (1 + i)
    BY <1>4
  <2>2. \A i \in 1 .. n : json[(p + 1) + i] = body[i]
    BY <1>6, <1>7, <2>1
  <2>3. (p + 1) + n <= Len(json)
    BY <1>4, <1>7
  <2> QED
    BY <2>2, <2>3 DEF Holds, n
<1>9. 1 \in 1 .. n + 2 /\ n + 2 \in 1 .. n + 2 /\ p + (n + 2) = q /\ q = (p + 1) + n + 1 /\ p + 1 \in Nat
  BY <1>4
<1>10. json[p + 1] = Quote /\ json[q] = Quote /\ q <= Len(json)
  BY <1>6, <1>7, <1>9
<1>11. Finds(Rest(json)[(p + 1) + 1], text, ascii, q + 1)
  <2> HIDE DEF q
  <2> QED
    BY <1>2, <1>8, <1>9, <1>10, EscapedRead DEF n
<1>12. IsAt(json, <<Quote>>, p + 1)
  <2>1. <<Quote>> \in Seq(Glyph) /\ Len(<<Quote>>) = 1 /\ <<Quote>>[1] = Quote
    BY Single, MarkSet
  <2>2. p <= Len(json) /\ p + 1 <= Len(json)
    BY <1>4, <1>7
  <2> DEFINE u == <<Quote>>
  <2> HIDE DEF u
  <2>3. Holds(json, u, p)
    BY <1>10, <2>1, <2>2 DEF Holds, u
  <2>4. IsAt(json, u, p + 1)
    BY <2>1, <2>2, <2>3, AtIsHolds DEF u
  <2> QED
    BY <2>4 DEF u
<1>13. JsonString(json, p + 1) = Rest(json)[(p + 1) + 1]
  BY <1>12, RestIs
<1>14. q + 1 = p + Len(s) + 1
  BY <1>4, <1>6
<1> QED
  BY <1>11, <1>13, <1>14

LEMMA ServerSpelled ==
  ASSUME NEW text \in Seq(Glyph), NEW ascii \in BOOLEAN
  PROVE  Spelled(ServerString(text, ascii), text, ascii)
<1> DEFINE chunks == [i \in DOMAIN text |-> Chunk(text[i], ascii)]
<1>1. ServerString(text, ascii) = (<<Quote>> \o FlattenSeq(chunks)) \o <<Quote>>
  BY DEF ServerString, Chunk
<1>2. \A i \in DOMAIN text : chunks[i] = Chunk(text[i], ascii)
  OBVIOUS
<1>3. chunks = [i \in DOMAIN text |-> chunks[i]]
  OBVIOUS
<1> HIDE DEF chunks
<1>4. \A i \in DOMAIN text : ChunkForm(text[i], ascii, chunks[i])
  BY <1>2, ChunkIs
<1>5. IsEscaped(FlattenSeq(chunks), text, ascii)
  BY <1>3, <1>4, EscapedBody
<1> QED
  BY <1>1, <1>5 DEF Spelled

LEMMA QuotedSpelled ==
  ASSUME NEW text \in Seq(Glyph)
  PROVE  Spelled(Quoted(text), text, FALSE)
<1> DEFINE chunks == [i \in DOMAIN text |-> EscapeChar(text[i])]
<1>1. Quoted(text) = (<<Quote>> \o FlattenSeq(chunks)) \o <<Quote>>
  BY DEF Quoted, EscapeJson
<1>2. \A i \in DOMAIN text : chunks[i] = EscapeChar(text[i])
  OBVIOUS
<1>3. chunks = [i \in DOMAIN text |-> chunks[i]]
  OBVIOUS
<1> HIDE DEF chunks
<1>4. \A i \in DOMAIN text : ChunkForm(text[i], FALSE, chunks[i])
  BY <1>2, EscapedChunk
<1>5. IsEscaped(FlattenSeq(chunks), text, FALSE)
  BY <1>3, <1>4, EscapedBody
<1> QED
  BY <1>1, <1>5 DEF Spelled

\* A name is read as it is.
IsKey(key) == key \in Glyph /\ key # Quote /\ key # Backslash /\ key \notin Control

LEMMA NamedHas ==
  ASSUME NEW key, IsKey(key)
  PROVE  /\ Named(key) \in Seq(Glyph) /\ Len(Named(key)) = 3
         /\ Named(key)[1] = Quote /\ Named(key)[2] = key /\ Named(key)[3] = Quote
<1>1. key \in Glyph /\ Quote \in Glyph
  BY MarkSet DEF IsKey
<1> QED
  BY <1>1 DEF Named

LEMMA NamedSpelled ==
  ASSUME NEW key, IsKey(key)
  PROVE  Spelled(Named(key), <<key>>, FALSE) /\ <<key>> \in Seq(Glyph)
<1> DEFINE body == <<key>>
           s == (<<Quote>> \o body) \o <<Quote>>
           u == Named(key)
           chunks == [i \in 1 .. 1 |-> body]
           off == [i \in 0 .. 1 |-> i]
<1>1. body \in Seq(Glyph) /\ Len(body) = 1 /\ body[1] = key
  BY Single DEF IsKey
<1>2. chunks \in [1 .. 1 -> Seq(Glyph)] /\ chunks[1] = body
  BY <1>1
<1>3. off \in [0 .. 1 -> Nat] /\ off[0] = 0 /\ off[1] = 1
  OBVIOUS
<1>4. ChunkForm(key, FALSE, body)
  BY DEF ChunkForm, IsPlain, IsKey
<1>5. Covered(body)
  <2> HIDE DEF body
  <2> QED
    BY <1>1 DEF Covered, IsKey
<1> HIDE DEF chunks, off, body
<1>6. Escaped(body, body, FALSE, chunks, off)
  <2>1. \A i \in 1 .. 1 : i = 1 /\ i - 1 = 0
    OBVIOUS
  <2>2. \A j \in 1 .. 1 : body[0 + j] = body[j]
    OBVIOUS
  <2>3. off[1] = off[0] + Len(chunks[1])
    BY <1>1, <1>2, <1>3
  <2>4. \A i \in 1 .. 1 :
          /\ off[i] = off[i - 1] + Len(chunks[i])
          /\ ChunkForm(body[i], FALSE, chunks[i]) /\ Covered(chunks[i])
          /\ \A j \in 1 .. Len(chunks[i]) : body[off[i - 1] + j] = chunks[i][j]
    <3>1. ChunkForm(body[1], FALSE, chunks[1]) /\ Covered(chunks[1])
      BY <1>1, <1>2, <1>4, <1>5
    <3>2. \A j \in 1 .. Len(chunks[1]) : body[off[0] + j] = chunks[1][j]
      BY <1>1, <1>2, <1>3, <2>2
    <3> QED
      BY <2>1, <2>3, <3>1, <3>2
  <2> QED
    BY <1>1, <1>2, <1>3, <2>4 DEF Escaped
<1>7. IsEscaped(body, body, FALSE)
  BY <1>6 DEF IsEscaped
<1>8. /\ s \in Seq(Glyph) /\ Len(s) = 3 /\ s[1] = Quote /\ s[3] = Quote /\ s[2] = key
  <2>1. /\ s \in Seq(Glyph) /\ Len(s) = Len(body) + 2 /\ s[1] = Quote /\ s[Len(body) + 2] = Quote
        /\ \A i \in 1 .. Len(body) : s[1 + i] = body[i]
    BY <1>1, Enclosed
  <2> HIDE DEF s
  <2> QED
    BY <1>1, <2>1
<1>9. u \in Seq(Glyph) /\ Len(u) = 3 /\ u[1] = Quote /\ u[2] = key /\ u[3] = Quote
  BY NamedHas
<1> HIDE DEF u
<1>10. s = u
  <2> DEFINE t == s
  <2>1. t \in Seq(Glyph) /\ Len(t) = 3 /\ t[1] = Quote /\ t[3] = Quote /\ t[2] = key
    BY <1>8
  <2> HIDE DEF t
  <2>2. \A i \in 1 .. 3 : i = 1 \/ i = 2 \/ i = 3
    OBVIOUS
  <2>3. \A i \in 1 .. 3 : t[i] = u[i]
    BY <1>9, <2>1, <2>2
  <2>4. t = u
    BY <1>9, <2>1, <2>3, SeqEqual
  <2> QED
    BY <2>4 DEF t
<1>11. Spelled(u, body, FALSE)
  BY <1>7, <1>10 DEF Spelled
<1> QED
  BY <1>1, <1>11 DEF u, body

-----------------------------------------------------------------------------
(* The place behind a name, wherever the name stands in a message.         *)

Colon     == ":"
White     == " "
Opening   == "{"
Closing   == "}"
Separator == ","

LEMMA FirstIs ==
  ASSUME NEW P, P \subseteq Nat, NEW m \in P, \A k \in P : m <= k
  PROVE  First(P) = {m}
<1>1. m \in First(P)
  BY DEF First
<1>2. ASSUME NEW k \in First(P)
      PROVE  k = m
  <2>1. k \in P /\ k <= m /\ m <= k
    BY <1>2 DEF First
  <2>2. k \in Nat /\ m \in Nat
    BY <2>1
  <2> QED
    BY <2>1, <2>2
<1> QED
  BY <1>1, <1>2

LEMMA NoFirst == First({}) = {}
BY DEF First

\* The name stands at i.
NameAt(json, key, i) ==
  i + 2 <= Len(json) /\ json[i] = Quote /\ json[i + 1] = key /\ json[i + 2] = Quote

LEMMA NamedAt ==
  ASSUME NEW json \in Seq(Glyph), NEW key, IsKey(key), NEW i \in 1 .. Len(json)
  PROVE  IsAt(json, Named(key), i) <=> NameAt(json, key, i)
<1> DEFINE u == Named(key)
           p == i - 1
<1>1. u \in Seq(Glyph) /\ Len(u) = 3 /\ u[1] = Quote /\ u[2] = key /\ u[3] = Quote
  BY NamedHas
<1>2. p \in Nat /\ p <= Len(json) /\ p + 1 = i /\ p + 2 = i + 1 /\ p + 3 = i + 2
  OBVIOUS
<1> HIDE DEF u, p
<1>3. IsAt(json, u, p + 1) <=> Holds(json, u, p)
  BY <1>1, <1>2, AtIsHolds
<1>4. \A k \in 1 .. 3 : k = 1 \/ k = 2 \/ k = 3
  OBVIOUS
<1>5. Holds(json, u, p) <=> p + 3 <= Len(json) /\ json[p + 1] = Quote /\ json[p + 2] = key /\ json[p + 3] = Quote
  BY <1>1, <1>4 DEF Holds
<1> QED
  BY <1>2, <1>3, <1>5 DEF NameAt, u

Names(json, key, start) == {i \in start .. Len(json) : NameAt(json, key, i)}

\* c is the first colon from i on.
ColonAt(json, i, c) ==
  /\ c \in i .. Len(json) /\ json[c] = Colon /\ \A j \in i .. c - 1 : json[j] # Colon

\* v is the first place after c that is not white.
ValueAt(json, c, v) ==
  /\ v \in c + 1 .. Len(json) /\ json[v] \notin Space
  /\ \A j \in c + 1 .. v - 1 : json[j] \in Space

Colons(json, n) == First({i \in n + 3 .. Len(json) : json[i] = Colon})
Past(json, c)   == First({i \in c + 1 .. Len(json) : json[i] \notin Space})
PlaceAfter(json, n) == UNION {Past(json, c) : c \in Colons(json, n)}

LEMMA AfterColon ==
  ASSUME NEW json \in Seq(Glyph), NEW n \in Nat, NEW c, NEW v,
         ColonAt(json, n + 3, c), ValueAt(json, c, v)
  PROVE  PlaceAfter(json, n) = {v}
<1> DEFINE C == {i \in n + 3 .. Len(json) : json[i] = Colon}
           P == {i \in c + 1 .. Len(json) : json[i] \notin Space}
<1>1. Len(json) \in Nat /\ c \in Nat /\ v \in Nat
  BY DEF ColonAt, ValueAt
<1>2. C \subseteq Nat /\ c \in C /\ \A k \in C : c <= k
  BY <1>1 DEF ColonAt
<1>3. P \subseteq Nat /\ v \in P /\ \A k \in P : v <= k
  BY <1>1 DEF ValueAt
<1>4. PlaceAfter(json, n) = UNION {First({i \in d + 1 .. Len(json) : json[i] \notin Space}) : d \in First(C)}
  BY DEF PlaceAfter, Past, Colons
<1> HIDE DEF C
<1>5. First(C) = {c}
  BY <1>2, FirstIs
<1>6. PlaceAfter(json, n) = First(P)
  BY <1>4, <1>5
<1> HIDE DEF P
<1> QED
  BY <1>3, <1>6, FirstIs

LEMMA NoColon ==
  ASSUME NEW json \in Seq(Glyph), NEW n \in Nat, \A j \in n + 3 .. Len(json) : json[j] # Colon
  PROVE  PlaceAfter(json, n) = {}
<1>1. {i \in n + 3 .. Len(json) : json[i] = Colon} = {}
  OBVIOUS
<1> QED
  BY <1>1, NoFirst DEF PlaceAfter, Colons

LEMMA PlaceOf ==
  ASSUME NEW json \in Seq(Glyph), NEW key, IsKey(key), NEW start \in Nat \ {0}
  PROVE  ValuePlace(json, key, start) = UNION {PlaceAfter(json, n) : n \in First(Names(json, key, start))}
<1> DEFINE N == {i \in start .. Len(json) : IsAt(json, Named(key), i)}
<1>1. N = Names(json, key, start)
  <2>1. \A i \in start .. Len(json) : i \in 1 .. Len(json)
    OBVIOUS
  <2> QED
    BY <2>1, NamedAt DEF Names
<1>2. ValuePlace(json, key, start)
        = UNION {Past(json, c) : c \in UNION {Colons(json, n) : n \in First(N)}}
  BY DEF ValuePlace, Past, Colons, Colon
<1> HIDE DEF N
<1>3. ValuePlace(json, key, start) = UNION {PlaceAfter(json, n) : n \in First(N)}
  <2>1. ASSUME NEW x \in ValuePlace(json, key, start)
        PROVE  x \in UNION {PlaceAfter(json, n) : n \in First(N)}
    <3>1. PICK n \in First(N) : \E c \in Colons(json, n) : x \in Past(json, c)
      BY <1>2
    <3>2. x \in PlaceAfter(json, n)
      BY <3>1 DEF PlaceAfter
    <3> QED
      BY <3>2
  <2>2. ASSUME NEW n \in First(N), NEW x \in PlaceAfter(json, n)
        PROVE  x \in ValuePlace(json, key, start)
    <3>1. PICK c \in Colons(json, n) : x \in Past(json, c)
      BY DEF PlaceAfter
    <3> QED
      BY <1>2, <3>1
  <2> QED
    BY <2>1, <2>2
<1> QED
  BY <1>1, <1>3

\* The name stands at k, and wherever it stands before, the same colon follows.
LEMMA PlaceIs ==
  ASSUME NEW json \in Seq(Glyph), NEW key, IsKey(key), NEW start \in Nat \ {0},
         NEW k \in start .. Len(json), NameAt(json, key, k), NEW c, NEW v,
         \A i \in start .. k : NameAt(json, key, i) => ColonAt(json, i + 3, c),
         ValueAt(json, c, v)
  PROVE  ValuePlace(json, key, start) = {v}
<1> DEFINE N == Names(json, key, start)
<1>1. N \subseteq Nat /\ k \in N /\ \A i \in N : i \in start .. Len(json) /\ NameAt(json, key, i)
  BY DEF Names
<1>2. ValuePlace(json, key, start) = UNION {PlaceAfter(json, n) : n \in First(N)}
  BY PlaceOf
<1> HIDE DEF N
<1>3. PICK m \in N : \A i \in N : m <= i
  BY <1>1, LeastExists
<1>4. First(N) = {m}
  BY <1>1, <1>3, FirstIs
<1>5. m \in start .. k /\ NameAt(json, key, m) /\ m \in Nat
  BY <1>1, <1>3
<1>6. PlaceAfter(json, m) = {v}
  BY <1>5, AfterColon
<1> QED
  BY <1>2, <1>4, <1>6

\* Wherever the name stands, that colon follows or none.
LEMMA PlaceWithin ==
  ASSUME NEW json \in Seq(Glyph), NEW key, IsKey(key), NEW start \in Nat \ {0}, NEW c, NEW v,
         \A i \in start .. Len(json) : NameAt(json, key, i) =>
            ColonAt(json, i + 3, c) \/ (\A j \in i + 3 .. Len(json) : json[j] # Colon),
         ValueAt(json, c, v)
  PROVE  ValuePlace(json, key, start) \subseteq {v}
<1> DEFINE N == Names(json, key, start)
<1>1. N \subseteq Nat /\ \A i \in N : i \in start .. Len(json) /\ NameAt(json, key, i)
  BY DEF Names
<1>2. ValuePlace(json, key, start) = UNION {PlaceAfter(json, n) : n \in First(N)}
  BY PlaceOf
<1> HIDE DEF N
<1>3. ASSUME NEW n \in N
      PROVE  PlaceAfter(json, n) \subseteq {v}
  <2>1. n \in Nat /\ (ColonAt(json, n + 3, c) \/ (\A j \in n + 3 .. Len(json) : json[j] # Colon))
    BY <1>1
  <2>2. CASE ColonAt(json, n + 3, c)
    BY <2>1, <2>2, AfterColon
  <2>3. CASE \A j \in n + 3 .. Len(json) : json[j] # Colon
    BY <2>1, <2>3, NoColon
  <2> QED
    BY <2>1, <2>2, <2>3
<1>4. First(N) \subseteq N
  BY DEF First
<1> QED
  BY <1>2, <1>3, <1>4

LEMMA NoPlace ==
  ASSUME NEW json \in Seq(Glyph), NEW key, IsKey(key), NEW start \in Nat \ {0},
         \A i \in start .. Len(json) : NameAt(json, key, i) =>
            \A j \in i + 3 .. Len(json) : json[j] # Colon
  PROVE  ValuePlace(json, key, start) = {}
<1> DEFINE N == Names(json, key, start)
<1>1. N \subseteq Nat /\ \A i \in N : i \in start .. Len(json) /\ NameAt(json, key, i)
  BY DEF Names
<1>2. ValuePlace(json, key, start) = UNION {PlaceAfter(json, n) : n \in First(N)}
  BY PlaceOf
<1> HIDE DEF N
<1>3. ASSUME NEW n \in N
      PROVE  PlaceAfter(json, n) = {}
  <2>1. n \in Nat /\ (\A j \in n + 3 .. Len(json) : json[j] # Colon)
    BY <1>1
  <2> QED
    BY <2>1, NoColon
<1>4. First(N) \subseteq N
  BY DEF First
<1> QED
  BY <1>2, <1>3, <1>4

\* The text is found, or nothing of one with a character in two halves.
Obtains(found, text, ascii) ==
  found = {text} \/ (Lossy(text, ascii) /\ found = {})

\* A member that is a text is found by its name.
LEMMA StringFound ==
  ASSUME NEW json, NEW key, NEW start, NEW v, ValuePlace(json, key, start) = {v},
         NEW text, NEW ascii, NEW after, Finds(JsonString(json, v), text, ascii, after)
  PROVE  Obtains(FindString(json, key, start), text, ascii)
<1>1. FindString(json, key, start) = {s.text : s \in JsonString(json, v)}
  BY DEF FindString
<1>2. CASE One(JsonString(json, v), text, after)
  <2>1. FindString(json, key, start) = {text}
    BY <1>1, <1>2 DEF One
  <2> QED
    BY <2>1 DEF Obtains
<1>3. CASE Lossy(text, ascii) /\ JsonString(json, v) = {}
  <2>1. FindString(json, key, start) = {}
    BY <1>1, <1>3
  <2> QED
    BY <1>3, <2>1 DEF Obtains
<1> QED
  BY <1>2, <1>3 DEF Finds

LEMMA NoStringFound ==
  ASSUME NEW json \in Seq(Glyph), NEW key, NEW start, NEW v \in 1 .. Len(json),
         ValuePlace(json, key, start) \subseteq {v}, json[v] # Quote
  PROVE  FindString(json, key, start) = {}
<1>1. ~ IsAt(json, <<Quote>>, v)
  <2> DEFINE u == <<Quote>>
             p == v - 1
  <2>1. u \in Seq(Glyph) /\ Len(u) = 1 /\ u[1] = Quote
    BY Single, MarkSet
  <2>2. p \in Nat /\ p <= Len(json) /\ p + 1 = v
    OBVIOUS
  <2> HIDE DEF u, p
  <2>3. ~ Holds(json, u, p)
    BY <2>1, <2>2 DEF Holds
  <2>4. ~ IsAt(json, u, p + 1)
    BY <2>1, <2>2, <2>3, AtIsHolds
  <2> QED
    BY <2>2, <2>4 DEF u
<1>2. JsonString(json, v) = {}
  BY <1>1, RestIs
<1> QED
  BY <1>2 DEF FindString

LEMMA NothingFound ==
  ASSUME NEW json, NEW key, NEW start, ValuePlace(json, key, start) = {}
  PROVE  FindString(json, key, start) = {}
BY DEF FindString

-----------------------------------------------------------------------------
(* Members, objects, events: which fragments they hold.                    *)

Keys == EventTypes \cup ControlTypes \cup
        {"future", "type", "event_id", "session.create",
         "session", "id", "model", "1.2.6.1", "instructions", "audio", "input",
         "output", "format", "pcm", "pcm_s16le", "rate", "voice",
         "delta", "transcript", "text", "error", "code", "message", "status_code"}

LEMMA KeysAre == \A key \in Keys : IsKey(key)
<1>1. Keys \subseteq Glyph
  BY DEF Keys, Glyph
<1>2. ControlTypes \cap {Quote, Backslash, "\n", "\t", "\r", "\f", "BS", "VT"} = {}
  BY DEF ControlTypes, Quote, Backslash
<1>3. EventTypes \cap {Quote, Backslash, "\n", "\t", "\r", "\f", "BS", "VT"} = {}
  BY DEF EventTypes, Quote, Backslash
<1>4. Keys \cap {Quote, Backslash, "\n", "\t", "\r", "\f", "BS", "VT"} = {}
  BY <1>2, <1>3 DEF Keys, Quote, Backslash
<1>5. Control = {"\n", "\t", "\r", "\f", "BS", "VT"}
  BY DEF Control
<1> QED
  BY <1>1, <1>4, <1>5 DEF IsKey

LEMMA MarksAre ==
  /\ Opening \in Glyph /\ Closing \in Glyph /\ Separator \in Glyph /\ Colon \in Glyph /\ White \in Glyph
  /\ Opening # Quote /\ Closing # Quote /\ Separator # Quote /\ Colon # Quote /\ White # Quote
  /\ Opening # Colon /\ Closing # Colon /\ Separator # Colon /\ White # Colon /\ Quote # Colon
  /\ Quote \notin Space /\ White \in Space
BY DEF Glyph, Quote, Space, Colon, White, Opening, Closing, Separator

LEMMA KeyIsNoMark ==
  \A key \in Keys : key \notin {Colon, White, Separator, Opening, Closing}
<1>1. {Colon, White, Separator, Opening, Closing} \cap ControlTypes = {}
  BY DEF ControlTypes, Colon, White, Separator, Opening, Closing
<1>2. {Colon, White, Separator, Opening, Closing} \cap EventTypes = {}
  BY DEF EventTypes, Colon, White, Separator, Opening, Closing
<1>3. {Colon, White, Separator, Opening, Closing} \cap Keys
        = {Colon, White, Separator, Opening, Closing} \cap (Keys \ (EventTypes \cup ControlTypes))
  BY <1>1, <1>2
<1>4. {Colon, White, Separator, Opening, Closing} \cap (Keys \ (EventTypes \cup ControlTypes)) = {}
  BY DEF Keys, Colon, White, Separator, Opening, Closing
<1> QED
  BY <1>3, <1>4

LEMMA HoldsOne ==
  ASSUME NEW json, NEW c \in Glyph, NEW p \in Nat, Holds(json, <<c>>, p)
  PROVE  json[p + 1] = c
<1> DEFINE u == <<c>>
<1>1. Len(u) = 1 /\ u[1] = c
  BY Single
<1> HIDE DEF u
<1>2. Holds(json, u, p)
  BY DEF u
<1> QED
  BY <1>1, <1>2 DEF Holds

LEMMA HoldsNamed ==
  ASSUME NEW json, NEW key, IsKey(key), NEW p \in Nat, Holds(json, Named(key), p)
  PROVE  json[p + 1] = Quote /\ json[p + 2] = key /\ json[p + 3] = Quote
BY NamedHas DEF Holds

LEMMA JoinedTo ==
  ASSUME NEW s \in Seq(Glyph), NEW t \in Seq(Glyph)
  PROVE  s \o t \in Seq(Glyph) /\ Len(s \o t) = Len(s) + Len(t)
OBVIOUS

LEMMA MemberTyped ==
  ASSUME NEW key, IsKey(key), NEW v \in Seq(Glyph)
  PROVE  Member(key, v) \in Seq(Glyph) /\ Len(Member(key, v)) = 4 + Len(v)
<1> DEFINE a == Named(key)
           b == <<Colon>>
<1>1. a \in Seq(Glyph) /\ Len(a) = 3
  BY NamedHas
<1>2. b \in Seq(Glyph) /\ Len(b) = 1
  BY Single, MarksAre
<1>3. Member(key, v) = (a \o b) \o v
  BY DEF Member, Colon
<1> HIDE DEF a, b
<1> DEFINE c == a \o b
<1>4. c \in Seq(Glyph) /\ Len(c) = Len(a) + Len(b)
  BY <1>1, <1>2, JoinedTo
<1>5. c \in Seq(Glyph) /\ Len(c) = 4
  <2> HIDE DEF c
  <2> QED
    BY <1>1, <1>2, <1>4
<1> HIDE DEF c
<1>6. c \o v \in Seq(Glyph) /\ Len(c \o v) = 4 + Len(v)
  BY <1>5, JoinedTo
<1> QED
  BY <1>3, <1>6 DEF c

LEMMA HoldsMember ==
  ASSUME NEW json \in Seq(Glyph), NEW key, IsKey(key), NEW v \in Seq(Glyph), NEW p \in Nat,
         Holds(json, Member(key, v), p)
  PROVE  /\ Holds(json, Named(key), p) /\ json[p + 1] = Quote /\ json[p + 2] = key
         /\ json[p + 3] = Quote /\ json[p + 4] = Colon
         /\ p + 4 \in Nat /\ Holds(json, v, p + 4)
<1> DEFINE a == Named(key)
           b == <<Colon>>
           c == a \o b
<1>1. a \in Seq(Glyph) /\ Len(a) = 3
  BY NamedHas
<1>2. b \in Seq(Glyph) /\ Len(b) = 1
  BY Single, MarksAre
<1>3. Member(key, v) = c \o v
  BY DEF Member, Colon
<1> HIDE DEF a, b
<1>4. c \in Seq(Glyph) /\ Len(c) = Len(a) + Len(b)
  BY <1>1, <1>2, JoinedTo
<1>5. c \in Seq(Glyph) /\ Len(c) = 4
  <2> HIDE DEF c
  <2> QED
    BY <1>1, <1>2, <1>4
<1> DEFINE d == c
<1> HIDE DEF c
<1>6. Holds(json, c, p) /\ Holds(json, v, p + Len(c))
  BY <1>3, <1>5, HoldsParts
<1>7. Holds(json, v, p + 4)
  BY <1>5, <1>6
<1>8. Holds(json, a, p) /\ Holds(json, b, p + Len(a))
  BY <1>1, <1>2, <1>6, HoldsParts DEF c
<1>9. Holds(json, b, p + 3)
  BY <1>1, <1>8
<1>10. p + 3 \in Nat /\ (p + 3) + 1 = p + 4 /\ p + 4 \in Nat
  OBVIOUS
<1>11. json[p + 4] = Colon
  BY <1>9, <1>10, HoldsOne, MarksAre DEF b
<1>12. json[p + 1] = Quote /\ json[p + 2] = key /\ json[p + 3] = Quote
  BY <1>8, HoldsNamed DEF a
<1> QED
  BY <1>7, <1>8, <1>10, <1>11, <1>12 DEF a

LEMMA ObjectTyped ==
  ASSUME NEW m \in Seq(Glyph)
  PROVE  Object(m) \in Seq(Glyph) /\ Len(Object(m)) = Len(m) + 2
<1> DEFINE a == <<Opening>>
           b == <<Closing>>
           c == a \o m
<1>1. a \in Seq(Glyph) /\ Len(a) = 1 /\ b \in Seq(Glyph) /\ Len(b) = 1
  BY Single, MarksAre
<1>2. Object(m) = c \o b
  BY DEF Object, Opening, Closing
<1> HIDE DEF a, b
<1>3. c \in Seq(Glyph) /\ Len(c) = 1 + Len(m)
  BY <1>1, JoinedTo
<1> HIDE DEF c
<1>4. c \o b \in Seq(Glyph) /\ Len(c \o b) = Len(c) + 1
  BY <1>1, <1>3, JoinedTo
<1>5. Len(m) \in Nat
  OBVIOUS
<1> QED
  BY <1>2, <1>3, <1>4, <1>5

ObjectAt(json, m, p) ==
  /\ json[p + 1] = Opening /\ p + 1 \in Nat /\ Holds(json, m, p + 1)
  /\ json[p + Len(m) + 2] = Closing

LEMMA HoldsObject ==
  ASSUME NEW json \in Seq(Glyph), NEW m \in Seq(Glyph), NEW p \in Nat, Holds(json, Object(m), p)
  PROVE  ObjectAt(json, m, p)
<1> DEFINE a == <<Opening>>
           b == <<Closing>>
           c == a \o m
           n == Len(m)
<1>1. a \in Seq(Glyph) /\ Len(a) = 1 /\ b \in Seq(Glyph) /\ Len(b) = 1
  BY Single, MarksAre
<1>2. Object(m) = c \o b
  BY DEF Object, Opening, Closing
<1> HIDE DEF a, b
<1>3. c \in Seq(Glyph) /\ Len(c) = 1 + n
  BY <1>1, JoinedTo
<1>4. n \in Nat
  OBVIOUS
<1> DEFINE d == c
<1> HIDE DEF c, n
<1>5. Holds(json, c, p) /\ Holds(json, b, p + Len(c)) /\ p + Len(c) \in Nat
  BY <1>1, <1>2, <1>3, HoldsParts, ZenonT(60)
<1>6. Holds(json, a, p) /\ Holds(json, m, p + Len(a))
  BY <1>1, <1>5, HoldsParts DEF c
<1>7. json[p + 1] = Opening
  BY <1>6, HoldsOne, MarksAre DEF a
<1>8. p + Len(c) + 1 = p + n + 2 /\ p + 1 \in Nat
  BY <1>3, <1>4
<1>9. json[p + Len(c) + 1] = Closing
  BY <1>5, HoldsOne, MarksAre DEF b
<1> QED
  BY <1>1, <1>6, <1>7, <1>8, <1>9 DEF n, ObjectAt

\* Every event begins with its type.
Head9(json, T) ==
  /\ json[1] = Opening /\ json[2] = Quote /\ json[3] = "type" /\ json[4] = Quote /\ json[5] = Colon
  /\ json[6] = White /\ json[7] = Quote /\ json[8] = T /\ json[9] = Quote

LEMMA EventLaid ==
  ASSUME NEW T, IsKey(T), NEW m \in Seq(Glyph), NEW json, json = ServerEvent(T, m)
  PROVE  /\ json \in Seq(Glyph) /\ Len(json) = Len(m) + 10 /\ Head9(json, T)
         /\ Holds(json, Named(T), 6) /\ Holds(json, m, 9) /\ json[Len(m) + 10] = Closing
<1> DEFINE a == <<White>>
           b == a \o Named(T)
           c == Member("type", b)
           d == c \o m
           n == Len(m)
<1>0. IsKey("type")
  BY KeysAre DEF Keys
<1>1. a \in Seq(Glyph) /\ Len(a) = 1
  BY Single, MarksAre
<1>2. Named(T) \in Seq(Glyph) /\ Len(Named(T)) = 3
  BY NamedHas
<1>3. json = Object(d)
  BY DEF ServerEvent, White
<1> HIDE DEF a
<1>4a. b \in Seq(Glyph) /\ Len(b) = Len(a) + Len(Named(T))
  BY <1>1, <1>2, JoinedTo
<1> HIDE DEF b
<1>4. b \in Seq(Glyph) /\ Len(b) = 4
  BY <1>1, <1>2, <1>4a
<1>5a. c \in Seq(Glyph) /\ Len(c) = 4 + Len(b)
  BY <1>0, <1>4, MemberTyped
<1> HIDE DEF c
<1>5. c \in Seq(Glyph) /\ Len(c) = 8
  BY <1>4, <1>5a
<1>6. n \in Nat
  OBVIOUS
<1>7. d \in Seq(Glyph) /\ Len(d) = 8 + n
  BY <1>5, JoinedTo
<1> HIDE DEF d, n
<1>8. json \in Seq(Glyph) /\ Len(json) = n + 10
  BY <1>3, <1>6, <1>7, ObjectTyped
<1>9. Holds(json, Object(d), 0)
  BY <1>3, <1>8, HoldsItself
<1>10. json[0 + 1] = Opening /\ Holds(json, d, 0 + 1) /\ json[0 + Len(d) + 2] = Closing
  <2>1. ObjectAt(json, d, 0)
    BY <1>7, <1>8, <1>9, HoldsObject
  <2> QED
    BY <2>1 DEF ObjectAt
<1>11. 0 + 1 = 1 /\ 0 + Len(d) + 2 = n + 10 /\ 1 + 8 = 9 /\ 1 + 4 = 5 /\ 5 + 1 = 6
  BY <1>6, <1>7
<1>12. Holds(json, d, 1)
  BY <1>10, <1>11
<1>13. Holds(json, c, 1) /\ Holds(json, m, 1 + Len(c))
  BY <1>5, <1>8, <1>12, HoldsParts DEF d
<1>14. Holds(json, m, 9)
  BY <1>5, <1>11, <1>13
<1>15. /\ json[1 + 1] = Quote /\ json[1 + 2] = "type" /\ json[1 + 3] = Quote
       /\ json[1 + 4] = Colon /\ Holds(json, b, 1 + 4)
  BY <1>0, <1>4, <1>8, <1>13, HoldsMember DEF c
<1>16. Holds(json, b, 5)
  BY <1>11, <1>15
<1>17. Holds(json, a, 5) /\ Holds(json, Named(T), 5 + Len(a))
  BY <1>1, <1>2, <1>8, <1>16, HoldsParts DEF b
<1>18. Holds(json, Named(T), 6)
  BY <1>1, <1>11, <1>17
<1>19. json[5 + 1] = White
  BY <1>17, HoldsOne, MarksAre DEF a
<1>20. json[6 + 1] = Quote /\ json[6 + 2] = T /\ json[6 + 3] = Quote
  BY <1>18, HoldsNamed
<1>21. Head9(json, T)
  <2>1. json[1] = Opening /\ json[2] = Quote /\ json[3] = "type" /\ json[4] = Quote /\ json[5] = Colon
    <3>1. 1 + 1 = 2 /\ 1 + 2 = 3 /\ 1 + 3 = 4
      OBVIOUS
    <3> QED
      BY <1>10, <1>11, <1>15, <3>1
  <2>2. json[6] = White /\ json[7] = Quote /\ json[8] = T /\ json[9] = Quote
    <3>1. 6 + 1 = 7 /\ 6 + 2 = 8 /\ 6 + 3 = 9
      OBVIOUS
    <3> QED
      BY <1>11, <1>19, <1>20, <3>1
  <2> QED
    BY <2>1, <2>2 DEF Head9
<1> QED
  BY <1>8, <1>10, <1>11, <1>14, <1>18, <1>21 DEF n

-----------------------------------------------------------------------------
(* An event with one text.                                                 *)

\* A quoted text from p to q.
Text(json, p, q) ==
  /\ p \in Nat \ {0} /\ q \in Nat /\ p < q /\ q <= Len(json)
  /\ json[p] = Quote /\ json[q] = Quote
  /\ \A i \in p + 1 .. q - 1 : json[i] = Quote => json[i - 1] = Backslash

LEMMA TextThere ==
  ASSUME NEW json \in Seq(Glyph), NEW s, Framed(s), NEW o \in Nat, Holds(json, s, o)
  PROVE  Text(json, o + 1, o + Len(s))
<1> DEFINE n == Len(s)
<1>1. /\ n \in Nat /\ 2 <= n /\ s[1] = Quote /\ s[n] = Quote
      /\ \A i \in 2 .. n - 1 : s[i] = Quote => s[i - 1] = Backslash
  BY DEF Framed
<1>2. o + n <= Len(json) /\ \A i \in 1 .. n : json[o + i] = s[i]
  BY DEF Holds
<1> HIDE DEF n
<1>3. json[o + 1] = Quote /\ json[o + n] = Quote
  BY <1>1, <1>2
<1>4. ASSUME NEW i \in (o + 1) + 1 .. o + n - 1, json[i] = Quote
      PROVE  json[i - 1] = Backslash
  <2>1. i - o \in 2 .. n - 1 /\ o + (i - o) = i /\ (i - o) - 1 \in 1 .. n /\ o + ((i - o) - 1) = i - 1
        /\ i - o \in 1 .. n
    BY <1>1
  <2>2. s[i - o] = Quote
    BY <1>2, <1>4, <2>1
  <2>3. s[(i - o) - 1] = Backslash
    BY <1>1, <2>1, <2>2
  <2> QED
    BY <1>2, <2>1, <2>3
<1>5. o + 1 \in Nat \ {0} /\ o + n \in Nat /\ o + 1 < o + n
  BY <1>1
<1> QED
  BY <1>2, <1>3, <1>4, <1>5 DEF Text, n

\* Within a text no name ends: a quotation mark there has a backslash before it.
\* One may end with the quotation mark that closes the text.
LEMMA NoNameInText ==
  ASSUME NEW json, NEW key, IsKey(key), NEW p, NEW q, Text(json, p, q), NEW i \in Nat,
         NameAt(json, key, i)
  PROVE  i + 2 \notin p + 1 .. q - 1
<1>1. json[i + 2] = Quote /\ json[i + 1] = key /\ key # Backslash
  BY DEF NameAt, IsKey
<1>2. (i + 2) - 1 = i + 1
  OBVIOUS
<1> QED
  BY <1>1, <1>2 DEF Text

\* The type comes first and is found.
LEMMA TypeRead ==
  ASSUME NEW T, IsKey(T), NEW json \in Seq(Glyph), Len(json) >= 10, Head9(json, T),
         Holds(json, Named(T), 6)
  PROVE  FindString(json, "type", 1) = {<<T>>}
<1>0. IsKey("type") /\ Len(json) \in Nat
  BY KeysAre DEF Keys
<1>1. NameAt(json, "type", 2)
  BY <1>0 DEF NameAt, Head9
<1>2. ASSUME NEW i \in 1 .. 2, NameAt(json, "type", i)
      PROVE  ColonAt(json, i + 3, 5)
  <2>1. i = 2
    BY <1>2, MarksAre DEF NameAt, Head9
  <2>2. json[5] = Colon /\ 5 \in 2 + 3 .. Len(json) /\ 2 + 3 .. 5 - 1 = {}
    BY <1>0 DEF Head9
  <2> QED
    BY <2>1, <2>2 DEF ColonAt
<1>3. ValueAt(json, 5, 7)
  <2>1. 7 \in 5 + 1 .. Len(json) /\ \A j \in 5 + 1 .. 7 - 1 : j = 6
    BY <1>0
  <2>2. json[7] = Quote /\ json[6] = White
    BY DEF Head9
  <2> QED
    BY <2>1, <2>2, MarksAre DEF ValueAt
<1>4. 2 \in 1 .. Len(json) /\ 1 \in Nat \ {0}
  BY <1>0
<1>5. ValuePlace(json, "type", 1) = {7}
  BY <1>0, <1>1, <1>2, <1>3, <1>4, PlaceIs
<1> DEFINE t == <<T>>
           s == Named(T)
<1>6. Spelled(s, t, FALSE) /\ t \in Seq(Glyph)
  BY NamedSpelled
<1>7. Finds(JsonString(json, 7), t, FALSE, 6 + Len(s) + 1)
  <2>1. Holds(json, s, 6)
    OBVIOUS
  <2> HIDE DEF s, t
  <2>2. Finds(JsonString(json, 6 + 1), t, FALSE, 6 + Len(s) + 1)
    BY <1>6, <2>1, SpelledRead
  <2>3. 6 + 1 = 7
    OBVIOUS
  <2> QED
    BY <2>2, <2>3
<1> HIDE DEF s, t
<1>8. Obtains(FindString(json, "type", 1), t, FALSE)
  BY <1>5, <1>7, StringFound
<1>9. ~ Lossy(t, FALSE)
  BY DEF Lossy, Halving
<1> QED
  BY <1>8, <1>9 DEF Obtains, t

LEMMA NotInHead ==
  ASSUME NEW json, NEW T, IsKey(T), Head9(json, T), json[10] = Separator, NEW key \in Keys,
         key # "type", key # T
  PROVE  \A i \in 1 .. 10 : ~ NameAt(json, key, i)
<1>0. /\ key # Colon /\ key # White /\ key # Separator /\ key # Opening /\ key # Closing
      /\ T # Quote /\ "type" # Quote
  BY KeyIsNoMark DEF IsKey, Quote
<1>1. /\ json[1] = Opening /\ json[2] = Quote /\ json[3] = "type" /\ json[4] = Quote /\ json[5] = Colon
      /\ json[6] = White /\ json[7] = Quote /\ json[8] = T /\ json[9] = Quote
  BY DEF Head9
<1>2. ~ NameAt(json, key, 1) /\ ~ NameAt(json, key, 3) /\ ~ NameAt(json, key, 5)
      /\ ~ NameAt(json, key, 6) /\ ~ NameAt(json, key, 8) /\ ~ NameAt(json, key, 10)
  BY <1>0, <1>1, MarksAre DEF NameAt
<1>3. ~ NameAt(json, key, 2)
  <2>1. json[2 + 1] = "type"
    BY <1>1
  <2> QED
    BY <2>1 DEF NameAt
<1>4. ~ NameAt(json, key, 4)
  <2>1. json[4 + 1] = Colon
    BY <1>1
  <2> QED
    BY <1>0, <2>1 DEF NameAt
<1>5. ~ NameAt(json, key, 7)
  <2>1. json[7 + 1] = T
    BY <1>1
  <2> QED
    BY <2>1 DEF NameAt
<1>6. ~ NameAt(json, key, 9)
  <2>1. json[9 + 1] = Separator
    OBVIOUS
  <2> QED
    BY <1>0, <2>1 DEF NameAt
<1>7. \A i \in 1 .. 10 : i = 1 \/ i = 2 \/ i = 3 \/ i = 4 \/ i = 5 \/ i = 6 \/ i = 7 \/ i = 8
                         \/ i = 9 \/ i = 10
  OBVIOUS
<1> QED
  BY <1>2, <1>3, <1>4, <1>5, <1>6, <1>7

\* An event with one text.
WithOne(json, T, key, q) ==
  /\ Head9(json, T) /\ json[10] = Separator /\ json[11] = Quote /\ json[12] = key
  /\ json[13] = Quote /\ json[14] = Colon /\ Text(json, 15, q) /\ Len(json) = q + 1
  /\ json[q + 1] = Closing

\* The text is found by its own name and by no other.
LEMMA FoundAlone ==
  ASSUME NEW json \in Seq(Glyph), NEW T, IsKey(T), NEW key \in Keys, key # "type", key # T,
         NEW q, WithOne(json, T, key, q)
  PROVE  ValuePlace(json, key, 1) = {15}
<1>1. /\ json[10] = Separator /\ json[11] = Quote /\ json[12] = key /\ json[13] = Quote
      /\ json[14] = Colon /\ Text(json, 15, q) /\ Len(json) = q + 1 /\ Head9(json, T)
  BY DEF WithOne
<1>2. q \in Nat /\ 15 < q /\ json[15] = Quote
  BY <1>1 DEF Text
<1>3. IsKey(key)
  BY KeysAre
<1>4. NameAt(json, key, 11)
  BY <1>1, <1>2 DEF NameAt
<1>5. ColonAt(json, 11 + 3, 14)
  <2>1. 14 \in 11 + 3 .. Len(json) /\ 11 + 3 .. 14 - 1 = {}
    BY <1>1, <1>2
  <2> QED
    BY <1>1, <2>1 DEF ColonAt
<1>6. ASSUME NEW i \in 1 .. 11, NameAt(json, key, i)
      PROVE  ColonAt(json, i + 3, 14)
  <2>1. i = 11
    <3>1. i \in 1 .. 10 \/ i = 11
      OBVIOUS
    <3> QED
      BY <1>1, <1>6, <3>1, NotInHead
  <2> QED
    BY <1>5, <2>1
<1>7. ValueAt(json, 14, 15)
  <2>1. 15 \in 14 + 1 .. Len(json) /\ 14 + 1 .. 15 - 1 = {}
    BY <1>1, <1>2
  <2> QED
    BY <1>2, <2>1, MarksAre DEF ValueAt
<1>8. 11 \in 1 .. Len(json) /\ 1 \in Nat \ {0}
  BY <1>1, <1>2
<1> QED
  BY <1>3, <1>4, <1>6, <1>7, <1>8, PlaceIs

LEMMA NotFoundAlone ==
  ASSUME NEW json \in Seq(Glyph), NEW T, IsKey(T), NEW key \in Keys, key # "type", key # T,
         NEW k, key # k, IsKey(k), NEW q, WithOne(json, T, k, q)
  PROVE  ValuePlace(json, key, 1) = {}
<1>1. /\ json[10] = Separator /\ json[11] = Quote /\ json[12] = k /\ json[13] = Quote
      /\ json[14] = Colon /\ Text(json, 15, q) /\ Len(json) = q + 1 /\ Head9(json, T)
      /\ json[q + 1] = Closing
  BY DEF WithOne
<1>2. q \in Nat /\ 15 < q /\ json[15] = Quote
  BY <1>1 DEF Text
<1>3. IsKey(key) /\ key # Colon /\ k # Quote
  BY KeysAre, KeyIsNoMark DEF IsKey
<1>4. ASSUME NEW i \in 1 .. Len(json), NameAt(json, key, i), NEW j \in i + 3 .. Len(json)
      PROVE  json[j] # Colon
  <2>1. i \notin 1 .. 10
    BY <1>1, <1>4, NotInHead
  <2>2. i # 11
    <3>1. json[11 + 1] = k
      BY <1>1
    <3> QED
      BY <1>4, <3>1 DEF NameAt
  <2>3. i # 12
    BY <1>1, <1>3, <1>4 DEF NameAt
  <2>4. i # 13
    <3>1. json[13 + 1] = Colon
      BY <1>1
    <3> QED
      BY <1>3, <1>4, <3>1 DEF NameAt
  <2>5. i + 2 \notin 15 + 1 .. q - 1
    BY <1>1, <1>3, <1>4, NoNameInText
  <2>6. i + 2 <= Len(json) /\ json[i + 2] = Quote
    BY <1>4 DEF NameAt
  <2>7. i + 2 # q + 1
    BY <1>1, <2>6, MarksAre
  <2>8. i + 2 = q
    BY <1>1, <1>2, <2>1, <2>2, <2>3, <2>4, <2>5, <2>6, <2>7
  <2>9. j = q + 1
    BY <1>1, <1>2, <2>8
  <2> QED
    BY <1>1, <2>9, MarksAre
<1>5. 1 \in Nat \ {0}
  OBVIOUS
<1> QED
  BY <1>3, <1>4, <1>5, NoPlace

-----------------------------------------------------------------------------
(* An event with an object that has the same text twice.                   *)

LEMMA InHead ==
  ASSUME NEW json, NEW T, IsKey(T), Head9(json, T), json[10] = Separator, NEW key \in Keys,
         NEW i \in 1 .. 10, NameAt(json, key, i)
  PROVE  (i = 2 /\ key = "type") \/ (i = 7 /\ key = T)
<1>0. key # Colon /\ key # White /\ key # Separator /\ T # Quote /\ "type" # Quote
  BY KeyIsNoMark DEF IsKey, Quote
<1>1. /\ json[1] = Opening /\ json[2] = Quote /\ json[3] = "type" /\ json[4] = Quote /\ json[5] = Colon
      /\ json[6] = White /\ json[7] = Quote /\ json[8] = T /\ json[9] = Quote
  BY DEF Head9
<1>2. json[i] = Quote /\ json[i + 1] = key
  BY DEF NameAt
<1>3. \A j \in 1 .. 10 : j = 1 \/ j = 2 \/ j = 3 \/ j = 4 \/ j = 5 \/ j = 6 \/ j = 7 \/ j = 8
                         \/ j = 9 \/ j = 10
  OBVIOUS
<1>4. i \in {2, 4, 7, 9}
  BY <1>0, <1>1, <1>2, <1>3, MarksAre
<1>5. 2 + 1 = 3 /\ 4 + 1 = 5 /\ 7 + 1 = 8 /\ 9 + 1 = 10
  OBVIOUS
<1> QED
  BY <1>0, <1>1, <1>2, <1>4, <1>5

\* An event with the same text twice.
WithTwo(json, T, k1, k2, q, r) ==
  /\ Head9(json, T) /\ json[10] = Separator /\ json[11] = Quote /\ json[12] = k1
  /\ json[13] = Quote /\ json[14] = Colon /\ json[15] = Opening
  /\ json[16] = Quote /\ json[17] = "message" /\ json[18] = Quote /\ json[19] = Colon
  /\ Text(json, 20, q) /\ json[q + 1] = Separator
  /\ json[q + 2] = Quote /\ json[q + 3] = k2 /\ json[q + 4] = Quote /\ json[q + 5] = Colon
  /\ json[q + 6] = White
  /\ Text(json, q + 7, r) /\ json[r + 1] = Closing /\ json[r + 2] = Closing /\ Len(json) = r + 2

LEMMA PlacesInTwo ==
  ASSUME NEW json, NEW T, IsKey(T), NEW k1, IsKey(k1), NEW k2, IsKey(k2), NEW q, NEW r,
         WithTwo(json, T, k1, k2, q, r), NEW key \in Keys,
         NEW i \in 1 .. Len(json), NameAt(json, key, i)
  PROVE  \/ (i = 2 /\ key = "type") \/ (i = 7 /\ key = T) \/ (i = 11 /\ key = k1)
         \/ (i = 16 /\ key = "message") \/ i + 2 = q \/ (i = q + 2 /\ key = k2) \/ i + 2 = r
<1>0. /\ key # Colon /\ key # White /\ key # Separator /\ key # Opening /\ key # Closing
      /\ IsKey(key) /\ k1 # Quote /\ k2 # Quote /\ "message" # Quote
  BY KeyIsNoMark, KeysAre DEF IsKey, Quote
<1>1. /\ json[10] = Separator /\ json[11] = Quote /\ json[12] = k1
      /\ json[13] = Quote /\ json[14] = Colon /\ json[15] = Opening
      /\ json[16] = Quote /\ json[17] = "message" /\ json[18] = Quote /\ json[19] = Colon
  BY DEF WithTwo
<1>2. /\ json[q + 1] = Separator
      /\ json[q + 2] = Quote /\ json[q + 3] = k2 /\ json[q + 4] = Quote /\ json[q + 5] = Colon
      /\ json[q + 6] = White /\ json[r + 1] = Closing /\ json[r + 2] = Closing /\ Len(json) = r + 2
  BY DEF WithTwo
<1>3. q \in Nat /\ 20 < q /\ r \in Nat /\ q + 7 < r
  BY DEF WithTwo, Text
<1>4. json[i] = Quote /\ json[i + 1] = key /\ json[i + 2] = Quote /\ i + 2 <= Len(json)
  BY DEF NameAt
<1>5. i + 2 \notin 20 + 1 .. q - 1 /\ i + 2 \notin (q + 7) + 1 .. r - 1
  <2>1. Text(json, 20, q) /\ Text(json, q + 7, r) /\ i \in Nat
    BY DEF WithTwo
  <2> QED
    BY <1>0, <2>1, NoNameInText
<1>6. CASE i \in 1 .. 10
  <2>1. Head9(json, T)
    BY DEF WithTwo
  <2>2. (i = 2 /\ key = "type") \/ (i = 7 /\ key = T)
    <3>1. json[10] = Separator
      BY <1>1
    <3>2. NameAt(json, key, i)
      OBVIOUS
    <3> QED
      BY <1>6, <2>1, <3>1, <3>2, InHead
  <2> QED
    BY <2>2
<1>7. CASE i \in 11 .. 18
  <2>1. i = 11 \/ i = 12 \/ i = 13 \/ i = 14 \/ i = 15 \/ i = 16 \/ i = 17 \/ i = 18
    BY <1>7
  <2>2. i \in {11, 13, 16, 18}
    BY <1>0, <1>1, <1>4, <2>1, MarksAre
  <2>3. 11 + 1 = 12 /\ 13 + 1 = 14 /\ 16 + 1 = 17 /\ 18 + 1 = 19
    OBVIOUS
  <2>4. i # 13
    BY <1>0, <1>1, <1>4, <2>3
  <2>5. i # 18
    BY <1>0, <1>1, <1>4, <2>3
  <2>6. i = 11 => key = k1
    BY <1>1, <1>4, <2>3
  <2>7. i = 16 => key = "message"
    BY <1>1, <1>4, <2>3
  <2> QED
    BY <2>2, <2>4, <2>5, <2>6, <2>7
<1>8. CASE i \in 19 .. q - 2
  <2>1. i + 2 \in 20 + 1 .. q
    BY <1>3, <1>8
  <2>2. i + 2 = q
    <3>1. \A n \in 20 + 1 .. q : n = q \/ n \in 20 + 1 .. q - 1
      BY <1>3
    <3> QED
      BY <1>5, <2>1, <3>1
  <2> QED
    BY <2>2
<1>9. CASE i \in q - 1 .. q + 5
  <2>1. i = q - 1 \/ i = q \/ i = q + 1 \/ i = q + 2 \/ i = q + 3 \/ i = q + 4 \/ i = q + 5
    BY <1>3, <1>9
  <2>2. /\ (q - 1) + 2 = q + 1 /\ q + 3 = (q + 2) + 1 /\ (q + 4) + 1 = q + 5 /\ (q + 5) + 1 = q + 6
        /\ q - 1 + 2 = q + 1
    BY <1>3
  <2>3. i # q - 1
    BY <1>2, <1>4, <2>2, MarksAre
  <2>4. i # q /\ i # q + 1 /\ i # q + 3 /\ i # q + 4 /\ i # q + 5
    <3>1. i # q
      BY <1>0, <1>2, <1>4
    <3>2. i # q + 1
      BY <1>2, <1>4, MarksAre
    <3>3. i # q + 3
      BY <1>0, <1>2, <1>4
    <3>4. i # q + 4
      BY <1>0, <1>2, <1>4, <2>2
    <3>5. i # q + 5
      BY <1>2, <1>4, MarksAre
    <3> QED
      BY <3>1, <3>2, <3>3, <3>4, <3>5
  <2> QED
    BY <1>2, <1>4, <2>1, <2>2, <2>3, <2>4
<1>10. CASE i \in q + 6 .. r
  <2>1. i # q + 6
    BY <1>2, <1>4, MarksAre
  <2>2. i + 2 \in (q + 7) + 1 .. r + 2 /\ (i = r - 1 \/ i = r \/ i + 2 \in (q + 7) + 1 .. r)
    <3>1. i \in q + 7 .. r
      BY <1>3, <1>10, <2>1
    <3> QED
      BY <1>3, <3>1
  <2>3. i # r - 1 /\ i # r
    <3>1. (r - 1) + 2 = r + 1
      BY <1>3
    <3> QED
      BY <1>2, <1>4, <3>1, MarksAre
  <2> QED
    BY <1>3, <1>5, <2>2, <2>3
<1>11. i \in 1 .. 10 \/ i \in 11 .. 18 \/ i \in 19 .. q - 2 \/ i \in q - 1 .. q + 5 \/ i \in q + 6 .. r
  BY <1>2, <1>3, <1>4
<1> QED
  BY <1>6, <1>7, <1>8, <1>9, <1>10, <1>11

LEMMA TwoMarks ==
  ASSUME NEW json, NEW T, NEW k1, NEW k2, IsKey(k2), k2 # Colon, NEW q, NEW r,
         WithTwo(json, T, k1, k2, q, r), Len(json) \in Nat
  PROVE  /\ ColonAt(json, (q - 2) + 3, q + 5) /\ ColonAt(json, (q + 2) + 3, q + 5)
         /\ ValueAt(json, q + 5, q + 7) /\ json[q + 7] = Quote
         /\ q \in Nat /\ 20 < q /\ r \in Nat /\ q + 7 < r /\ Len(json) = r + 2
         /\ \A j \in r + 1 .. Len(json) : json[j] # Colon
<1>1. /\ json[q + 1] = Separator
      /\ json[q + 2] = Quote /\ json[q + 3] = k2 /\ json[q + 4] = Quote /\ json[q + 5] = Colon
      /\ json[q + 6] = White /\ json[r + 1] = Closing /\ json[r + 2] = Closing /\ Len(json) = r + 2
      /\ q \in Nat /\ 20 < q /\ r \in Nat /\ q + 7 < r /\ json[q + 7] = Quote
  BY DEF WithTwo, Text
<1>2. (q - 2) + 3 = q + 1 /\ (q + 2) + 3 = q + 5 /\ q + 5 \in q + 1 .. Len(json) /\ q + 5 \in q + 5 .. Len(json)
  BY <1>1
<1>3. \A j \in q + 1 .. q + 5 - 1 : j = q + 1 \/ j = q + 2 \/ j = q + 3 \/ j = q + 4
  BY <1>1
<1>4. \A j \in q + 1 .. q + 5 - 1 : json[j] # Colon
  BY <1>1, <1>3, MarksAre
<1>5. ColonAt(json, (q - 2) + 3, q + 5)
  BY <1>1, <1>2, <1>4 DEF ColonAt
<1>6. q + 5 .. q + 5 - 1 = {}
  BY <1>1
<1>7. ColonAt(json, (q + 2) + 3, q + 5)
  BY <1>1, <1>2, <1>6 DEF ColonAt
<1>8. ValueAt(json, q + 5, q + 7)
  <2>1. q + 7 \in (q + 5) + 1 .. Len(json) /\ \A j \in (q + 5) + 1 .. q + 7 - 1 : j = q + 6
    BY <1>1
  <2> QED
    BY <1>1, <2>1, MarksAre DEF ValueAt
<1>9. \A j \in r + 1 .. Len(json) : json[j] # Colon
  <2>1. \A j \in r + 1 .. Len(json) : j = r + 1 \/ j = r + 2
    BY <1>1
  <2> QED
    BY <1>1, <2>1, MarksAre
<1> QED
  BY <1>1, <1>5, <1>7, <1>8, <1>9

\* From the name of the object on, the member is found that has this name.
LEMMA FoundInTwo ==
  ASSUME NEW json \in Seq(Glyph), NEW T, IsKey(T), NEW k1, IsKey(k1), NEW k2 \in Keys, NEW q, NEW r,
         WithTwo(json, T, k1, k2, q, r), k2 \notin {"type", T, k1, "message"},
         NEW start \in {7, 11}
  PROVE  ValuePlace(json, k2, start) = {q + 7}
<1>1. IsKey(k2) /\ k2 # Colon /\ Len(json) \in Nat
  BY KeysAre, KeyIsNoMark
<1>2. /\ ColonAt(json, (q - 2) + 3, q + 5) /\ ColonAt(json, (q + 2) + 3, q + 5)
      /\ ValueAt(json, q + 5, q + 7) /\ json[q + 7] = Quote
      /\ q \in Nat /\ 20 < q /\ r \in Nat /\ q + 7 < r /\ Len(json) = r + 2
  BY <1>1, TwoMarks
<1> DEFINE k == q + 2
           c == q + 5
           v == q + 7
<1>3. k \in start .. Len(json) /\ start \in Nat \ {0}
  BY <1>2
<1>4. NameAt(json, k2, k)
  <2>1. json[q + 2] = Quote /\ json[q + 3] = k2 /\ json[q + 4] = Quote
    BY DEF WithTwo
  <2>2. k + 1 = q + 3 /\ k + 2 = q + 4 /\ k + 2 <= Len(json)
    BY <1>2
  <2> QED
    BY <2>1, <2>2 DEF NameAt
<1>5. ASSUME NEW i \in start .. k, NameAt(json, k2, i)
      PROVE  ColonAt(json, i + 3, c)
  <2>1. i \in 1 .. Len(json)
    BY <1>2
  <2>2. i + 2 = q \/ i = q + 2 \/ i + 2 = r
    BY <1>1, <1>5, <2>1, PlacesInTwo
  <2>3. i = q - 2 \/ i = q + 2
    BY <1>2, <2>2
  <2> QED
    BY <1>2, <2>3
<1>6. ValueAt(json, c, v)
  BY <1>2
<1> HIDE DEF k, c, v
<1>7. ValuePlace(json, k2, start) = {v}
  BY <1>1, <1>3, <1>4, <1>5, <1>6, PlaceIs
<1> QED
  BY <1>7 DEF v

\* What has another name is looked for where a text begins, or not at all.
LEMMA NotInTwo ==
  ASSUME NEW json \in Seq(Glyph), NEW T, IsKey(T), NEW k1, IsKey(k1), NEW k2 \in Keys, NEW q, NEW r,
         WithTwo(json, T, k1, k2, q, r), NEW key \in Keys, key \notin {"type", T, k1, "message", k2}
  PROVE  ValuePlace(json, key, 1) \subseteq {q + 7} /\ json[q + 7] = Quote /\ q + 7 \in 1 .. Len(json)
<1>1. IsKey(key) /\ IsKey(k2) /\ k2 # Colon /\ Len(json) \in Nat
  BY KeysAre, KeyIsNoMark
<1>2. /\ ColonAt(json, (q - 2) + 3, q + 5)
      /\ ValueAt(json, q + 5, q + 7) /\ json[q + 7] = Quote
      /\ q \in Nat /\ 20 < q /\ r \in Nat /\ q + 7 < r /\ Len(json) = r + 2
      /\ \A j \in r + 1 .. Len(json) : json[j] # Colon
  BY <1>1, TwoMarks
<1> DEFINE c == q + 5
           v == q + 7
<1>3. ASSUME NEW i \in 1 .. Len(json), NameAt(json, key, i)
      PROVE  ColonAt(json, i + 3, c) \/ (\A j \in i + 3 .. Len(json) : json[j] # Colon)
  <2>1. i + 2 = q \/ i + 2 = r
    BY <1>1, <1>3, PlacesInTwo
  <2>2. i = q - 2 \/ i + 3 = r + 1
    BY <1>2, <2>1
  <2> QED
    BY <1>2, <2>2
<1>4. ValueAt(json, c, v) /\ 1 \in Nat \ {0}
  BY <1>2
<1> HIDE DEF c, v
<1>5. ValuePlace(json, key, 1) \subseteq {v}
  BY <1>1, <1>3, <1>4, PlaceWithin
<1> QED
  BY <1>2, <1>5 DEF v

-----------------------------------------------------------------------------
(* How these events are laid out.                                          *)

LEMMA CommaTyped ==
  ASSUME NEW v \in Seq(Glyph)
  PROVE  Comma \o v \in Seq(Glyph) /\ Len(Comma \o v) = 1 + Len(v)
<1>1. Comma \in Seq(Glyph) /\ Len(Comma) = 1
  BY Single, MarksAre DEF Comma, Separator
<1> QED
  BY <1>1, JoinedTo

LEMMA HoldsComma ==
  ASSUME NEW json \in Seq(Glyph), NEW v \in Seq(Glyph), NEW p \in Nat, Holds(json, Comma \o v, p)
  PROVE  json[p + 1] = Separator /\ p + 1 \in Nat /\ Holds(json, v, p + 1)
<1> DEFINE a == <<Separator>>
<1>1. a \in Seq(Glyph) /\ Len(a) = 1
  BY Single, MarksAre
<1>2. Comma = a
  BY DEF Comma, Separator
<1> HIDE DEF a
<1>3. Holds(json, a, p) /\ Holds(json, v, p + Len(a))
  BY <1>1, <1>2, HoldsParts
<1>4. json[p + 1] = Separator
  BY <1>3, HoldsOne, MarksAre DEF a
<1> QED
  BY <1>1, <1>3, <1>4

LEMMA OneLaid ==
  ASSUME NEW T \in Keys, NEW key \in Keys, NEW v, Framed(v), NEW json,
         json = ServerEvent(T, Comma \o Member(key, v))
  PROVE  /\ json \in Seq(Glyph) /\ Holds(json, v, 14) /\ WithOne(json, T, key, 14 + Len(v))
         /\ Holds(json, Named(T), 6)
<1> DEFINE b == Member(key, v)
           m == Comma \o b
           n == Len(v)
<1>1. IsKey(T) /\ IsKey(key) /\ v \in Seq(Glyph)
  BY KeysAre DEF Framed
<1>2. n \in Nat
  BY <1>1
<1>3. b \in Seq(Glyph) /\ Len(b) = 4 + Len(v)
  BY <1>1, MemberTyped
<1>4. json = ServerEvent(T, m)
  OBVIOUS
<1> HIDE DEF b
<1>5. m \in Seq(Glyph) /\ Len(m) = 1 + Len(b)
  BY <1>3, CommaTyped
<1>6. Len(m) = n + 5
  <2> HIDE DEF m
  <2>1. Len(b) = 4 + n
    BY <1>3
  <2> HIDE DEF n
  <2> QED
    BY <1>2, <1>5, <2>1
<1>7. /\ json \in Seq(Glyph) /\ Len(json) = Len(m) + 10 /\ Head9(json, T)
      /\ Holds(json, Named(T), 6) /\ Holds(json, m, 9) /\ json[Len(m) + 10] = Closing
  <2> HIDE DEF m
  <2> QED
    BY <1>1, <1>4, <1>5, EventLaid
<1>8. json[9 + 1] = Separator /\ Holds(json, b, 9 + 1)
  BY <1>3, <1>7, HoldsComma
<1> HIDE DEF m, n
<1>9. json[10] = Separator /\ Holds(json, b, 10) /\ 10 \in Nat
  <2>1. 9 + 1 = 10
    OBVIOUS
  <2> QED
    BY <1>8, <2>1
<1>10. /\ json[10 + 1] = Quote /\ json[10 + 2] = key /\ json[10 + 3] = Quote /\ json[10 + 4] = Colon
       /\ Holds(json, v, 10 + 4)
  BY <1>1, <1>7, <1>9, HoldsMember DEF b
<1>11. 10 + 1 = 11 /\ 10 + 2 = 12 /\ 10 + 3 = 13 /\ 10 + 4 = 14 /\ 14 + 1 = 15 /\ 14 \in Nat
  OBVIOUS
<1>12. Holds(json, v, 14)
  BY <1>10, <1>11
<1>13. Text(json, 14 + 1, 14 + Len(v))
  BY <1>7, <1>11, <1>12, TextThere
<1> DEFINE q == 14 + n
<1>14. Text(json, 15, q)
  BY <1>11, <1>13 DEF n
<1>15. q + 1 = Len(m) + 10
  BY <1>2, <1>6
<1> HIDE DEF q
<1>16. WithOne(json, T, key, q)
  BY <1>7, <1>9, <1>10, <1>11, <1>14, <1>15 DEF WithOne
<1> QED
  BY <1>7, <1>12, <1>16 DEF q, n

PairOf(k1, k2, v) == Member(k1, v) \o Comma \o Member(k2, <<White>> \o v)

\* Two members of an object, the second with a space before its text.
LEMMA PairLaid ==
  ASSUME NEW json \in Seq(Glyph), NEW k1, IsKey(k1), NEW k2, IsKey(k2), NEW v, Framed(v),
         NEW o \in Nat, NEW m, m = PairOf(k1, k2, v)
  PROVE  /\ m \in Seq(Glyph) /\ Len(m) = 10 + Len(v) + Len(v)
         /\ Holds(json, m, o) => LET q == o + 4 + Len(v)
                                 IN  /\ q \in Nat /\ Holds(json, Named(k1), o) /\ json[o + 4] = Colon
                                     /\ Holds(json, v, o + 4) /\ json[q + 1] = Separator
                                     /\ Holds(json, Named(k2), q + 1) /\ json[q + 5] = Colon
                                     /\ json[q + 6] = White /\ Holds(json, v, q + 6)
<1> DEFINE n == Len(v)
           w == <<White>>
           x == w \o v
           a == Member(k1, v)
           b == Member(k2, x)
           c == Comma
           d == a \o c
           q == o + 4 + n
<1>1. v \in Seq(Glyph) /\ w \in Seq(Glyph) /\ Len(w) = 1 /\ c \in Seq(Glyph) /\ Len(c) = 1
  BY Single, MarksAre DEF Framed, Comma, Separator
<1>2. n \in Nat
  BY <1>1
<1>3. m = d \o b
  BY DEF PairOf
<1>4. a \in Seq(Glyph) /\ Len(a) = 4 + Len(v)
  BY <1>1, MemberTyped
<1>5. x \in Seq(Glyph) /\ Len(x) = Len(w) + Len(v)
  <2> HIDE DEF w
  <2> QED
    BY <1>1, JoinedTo
<1> HIDE DEF x
<1>6. b \in Seq(Glyph) /\ Len(b) = 4 + Len(x)
  BY <1>5, MemberTyped
<1> HIDE DEF a, b, c
<1>7. d \in Seq(Glyph) /\ Len(d) = Len(a) + Len(c)
  BY <1>1, <1>4, JoinedTo
<1> HIDE DEF d
<1>8. m \in Seq(Glyph) /\ Len(m) = Len(d) + Len(b)
  BY <1>3, <1>6, <1>7, JoinedTo
<1>9. Len(v) = n
  OBVIOUS
<1> HIDE DEF n, w
<1>10. Len(a) = 4 + n /\ Len(x) = 1 + n /\ Len(b) = 5 + n /\ Len(d) = 5 + n /\ Len(m) = 10 + n + n
  <2>1. Len(a) = 4 + n /\ Len(x) = 1 + n
    BY <1>1, <1>4, <1>5, <1>9
  <2>2. Len(b) = 5 + n
    BY <1>2, <1>6, <2>1
  <2>3. Len(d) = 5 + n
    BY <1>1, <1>2, <1>7, <2>1
  <2>4. Len(m) = 10 + n + n
    BY <1>2, <1>8, <2>2, <2>3
  <2> QED
    BY <2>1, <2>2, <2>3, <2>4
<1>11. /\ q \in Nat /\ o + Len(d) = q + 1 /\ o + Len(a) = q /\ (q + 1) + 4 = q + 5 /\ q + 1 \in Nat
       /\ (q + 5) + 1 = q + 6 /\ (q + 5) + Len(w) = q + 6 /\ q + 5 \in Nat
  BY <1>1, <1>2, <1>10
<1> HIDE DEF q
<1>12. ASSUME Holds(json, m, o)
       PROVE  /\ Holds(json, Named(k1), o) /\ json[o + 4] = Colon
              /\ Holds(json, v, o + 4) /\ json[q + 1] = Separator
              /\ Holds(json, Named(k2), q + 1) /\ json[q + 5] = Colon
              /\ json[q + 6] = White /\ Holds(json, v, q + 6)
  <2>1. Holds(json, d, o) /\ Holds(json, b, o + Len(d))
    BY <1>3, <1>6, <1>7, <1>12, HoldsParts
  <2>2. Holds(json, a, o) /\ Holds(json, c, o + Len(a))
    BY <1>1, <1>4, <2>1, HoldsParts DEF d
  <2>3. Holds(json, Named(k1), o) /\ json[o + 4] = Colon /\ Holds(json, v, o + 4)
    BY <1>1, <2>2, HoldsMember DEF a
  <2>4. Holds(json, c, q)
    BY <1>11, <2>2
  <2>5. json[q + 1] = Separator
    BY <1>11, <2>4, HoldsOne, MarksAre DEF c, Comma, Separator
  <2>6. Holds(json, b, q + 1)
    BY <1>11, <2>1
  <2>7. Holds(json, Named(k2), q + 1) /\ json[(q + 1) + 4] = Colon /\ Holds(json, x, (q + 1) + 4)
    BY <1>5, <1>11, <2>6, HoldsMember DEF b
  <2>8. json[q + 5] = Colon /\ Holds(json, x, q + 5)
    BY <1>11, <2>7
  <2>9. Holds(json, w, q + 5) /\ Holds(json, v, (q + 5) + Len(w))
    BY <1>1, <1>11, <2>8, HoldsParts DEF x
  <2>10. json[(q + 5) + 1] = White
    BY <1>11, <2>9, HoldsOne, MarksAre DEF w
  <2>11. json[q + 6] = White /\ Holds(json, v, q + 6)
    BY <1>11, <2>9, <2>10
  <2> QED
    BY <2>3, <2>5, <2>7, <2>8, <2>11
<1> QED
  BY <1>8, <1>9, <1>10, <1>11, <1>12 DEF q

LEMMA PairTyped ==
  ASSUME NEW k1, IsKey(k1), NEW k2, IsKey(k2), NEW v, Framed(v),
         NEW m, m = PairOf(k1, k2, v)
  PROVE  m \in Seq(Glyph) /\ Len(m) = 10 + Len(v) + Len(v)
<1>1. v \in Seq(Glyph) /\ 0 \in Nat
  BY DEF Framed
<1> QED
  BY <1>1, PairLaid

Wrapped(json, T, k1, u) ==
  /\ json \in Seq(Glyph) /\ Len(json) = Len(u) + 17 /\ Head9(json, T) /\ json[10] = Separator
  /\ Holds(json, Named(T), 6) /\ json[11] = Quote /\ json[12] = k1 /\ json[13] = Quote
  /\ json[14] = Colon /\ json[15] = Opening /\ Holds(json, u, 15)
  /\ json[Len(u) + 16] = Closing /\ json[Len(u) + 17] = Closing

\* What stands in an object that is the only member after the type.
LEMMA WrappedLaid ==
  ASSUME NEW T \in Keys, NEW k1 \in Keys, NEW u \in Seq(Glyph), NEW json,
         json = ServerEvent(T, Comma \o Member(k1, Object(u)))
  PROVE  Wrapped(json, T, k1, u)
<1> DEFINE v == Object(u)
           b == Member(k1, v)
           m == Comma \o b
           n == Len(u)
<1>1. IsKey(T) /\ IsKey(k1) /\ n \in Nat
  BY KeysAre
<1>2. v \in Seq(Glyph) /\ Len(v) = Len(u) + 2
  BY ObjectTyped
<1>3. json = ServerEvent(T, m)
  OBVIOUS
<1> HIDE DEF v
<1>4. b \in Seq(Glyph) /\ Len(b) = 4 + Len(v)
  BY <1>1, <1>2, MemberTyped
<1> HIDE DEF b
<1>5. m \in Seq(Glyph) /\ Len(m) = 1 + Len(b)
  BY <1>4, CommaTyped
<1> HIDE DEF m
<1>6. Len(u) = n
  OBVIOUS
<1> HIDE DEF n
<1>7. Len(m) = n + 7
  <2>1. Len(v) = n + 2
    BY <1>2, <1>6
  <2>2. Len(b) = n + 6
    BY <1>1, <1>4, <2>1
  <2> QED
    BY <1>1, <1>5, <2>2
<1>8. /\ json \in Seq(Glyph) /\ Len(json) = Len(m) + 10 /\ Head9(json, T)
      /\ Holds(json, Named(T), 6) /\ Holds(json, m, 9) /\ json[Len(m) + 10] = Closing
  BY <1>1, <1>3, <1>5, EventLaid
<1>9. json[9 + 1] = Separator /\ Holds(json, b, 9 + 1)
  BY <1>4, <1>8, HoldsComma DEF m
<1>10. json[10] = Separator /\ Holds(json, b, 10) /\ 10 \in Nat
  <2>1. 9 + 1 = 10
    OBVIOUS
  <2> QED
    BY <1>9, <2>1
<1>11. /\ json[10 + 1] = Quote /\ json[10 + 2] = k1 /\ json[10 + 3] = Quote /\ json[10 + 4] = Colon
       /\ Holds(json, v, 10 + 4)
  BY <1>1, <1>2, <1>8, <1>10, HoldsMember DEF b
<1>12. 10 + 1 = 11 /\ 10 + 2 = 12 /\ 10 + 3 = 13 /\ 10 + 4 = 14 /\ 14 + 1 = 15 /\ 14 \in Nat
  OBVIOUS
<1>13. Holds(json, v, 14)
  BY <1>11, <1>12
<1>14. ObjectAt(json, u, 14)
  BY <1>8, <1>12, <1>13, HoldsObject DEF v
<1>15. json[15] = Opening /\ Holds(json, u, 15) /\ json[14 + n + 2] = Closing
  BY <1>6, <1>12, <1>14 DEF ObjectAt
<1>16. 14 + n + 2 = n + 16 /\ Len(m) + 10 = n + 17
  BY <1>1, <1>7
<1> QED
  BY <1>6, <1>8, <1>10, <1>11, <1>12, <1>15, <1>16 DEF Wrapped

LEMMA TwoLaid ==
  ASSUME NEW T \in Keys, NEW k1 \in Keys, NEW k2 \in Keys, NEW v, Framed(v), NEW json,
         json = ServerEvent(T, Comma \o Member(k1, Object(Member("message", v) \o Comma
                                                          \o Member(k2, <<White>> \o v))))
  PROVE  /\ json \in Seq(Glyph) /\ Holds(json, v, 19) /\ Holds(json, v, 25 + Len(v))
         /\ WithTwo(json, T, k1, k2, 19 + Len(v), 25 + Len(v) + Len(v)) /\ Holds(json, Named(T), 6)
<1> DEFINE u == Member("message", v) \o Comma \o Member(k2, <<White>> \o v)
           n == Len(v)
           key == "message"
<1>1. key \in Keys
  BY DEF Keys
<1>2. IsKey(key) /\ IsKey(k2) /\ v \in Seq(Glyph) /\ n \in Nat
  BY <1>1, KeysAre DEF Framed
<1>3. json = ServerEvent(T, Comma \o Member(k1, Object(u)))
  OBVIOUS
<1>4. u = PairOf(key, k2, v)
  BY DEF PairOf
<1> HIDE DEF u, key
<1>5. u \in Seq(Glyph) /\ Len(u) = 10 + n + n
  BY <1>2, <1>4, PairTyped
<1>6. /\ json \in Seq(Glyph) /\ Len(json) = Len(u) + 17 /\ Head9(json, T) /\ json[10] = Separator
      /\ Holds(json, Named(T), 6) /\ json[11] = Quote /\ json[12] = k1 /\ json[13] = Quote
      /\ json[14] = Colon /\ json[15] = Opening /\ Holds(json, u, 15)
      /\ json[Len(u) + 16] = Closing /\ json[Len(u) + 17] = Closing
  <2>1. Wrapped(json, T, k1, u)
    BY <1>3, <1>5, WrappedLaid
  <2> QED
    BY <2>1 DEF Wrapped
<1> DEFINE q == 19 + n
           p == 15 + 4 + n
           r == 25 + n + n
<1>7. /\ p \in Nat /\ Holds(json, Named(key), 15) /\ json[15 + 4] = Colon
      /\ Holds(json, v, 15 + 4) /\ json[p + 1] = Separator
      /\ Holds(json, Named(k2), p + 1) /\ json[p + 5] = Colon
      /\ json[p + 6] = White /\ Holds(json, v, p + 6)
  BY <1>2, <1>4, <1>6, PairLaid, ZenonT(60)
<1>8. 15 + 4 = 19 /\ p = q /\ q \in Nat /\ q + 6 = 25 + n /\ q + 1 \in Nat /\ 25 + n \in Nat /\ 19 \in Nat
  BY <1>2
<1> HIDE DEF p
<1>9. /\ json[19] = Colon /\ Holds(json, v, 19) /\ json[q + 1] = Separator
      /\ Holds(json, Named(k2), q + 1) /\ json[q + 5] = Colon
      /\ json[q + 6] = White /\ Holds(json, v, 25 + n)
  BY <1>7, <1>8
<1>10. json[16] = Quote /\ json[17] = "message" /\ json[18] = Quote
  <2>1. json[15 + 1] = Quote /\ json[15 + 2] = key /\ json[15 + 3] = Quote
    BY <1>2, <1>7, HoldsNamed
  <2>2. 15 + 1 = 16 /\ 15 + 2 = 17 /\ 15 + 3 = 18
    OBVIOUS
  <2> QED
    BY <2>1, <2>2 DEF key
<1>11. json[q + 2] = Quote /\ json[q + 3] = k2 /\ json[q + 4] = Quote
  <2>1. json[q + 1 + 1] = Quote /\ json[q + 1 + 2] = k2 /\ json[q + 1 + 3] = Quote
    <3>1. q + 1 \in Nat
      BY <1>8
    <3> HIDE DEF q
    <3> QED
      BY <1>2, <1>9, <3>1, HoldsNamed
  <2>2. q + 1 + 1 = q + 2 /\ q + 1 + 2 = q + 3 /\ q + 1 + 3 = q + 4
    BY <1>2
  <2> QED
    BY <2>1, <2>2
<1>12. Text(json, 19 + 1, 19 + Len(v)) /\ Text(json, 25 + n + 1, 25 + n + Len(v))
  BY <1>6, <1>8, <1>9, TextThere
<1>13. /\ 19 + 1 = 20 /\ 25 + n + 1 = q + 7 /\ Len(u) + 16 = r + 1 /\ Len(u) + 17 = r + 2
  BY <1>2, <1>5
<1>14. Text(json, 20, q) /\ Text(json, q + 7, r)
  BY <1>12, <1>13
<1>15. json[r + 1] = Closing /\ json[r + 2] = Closing /\ Len(json) = r + 2
  BY <1>6, <1>13
<1> HIDE DEF q, r
<1>16. WithTwo(json, T, k1, k2, q, r)
  BY <1>6, <1>9, <1>10, <1>11, <1>14, <1>15 DEF WithTwo
<1> QED
  BY <1>6, <1>9, <1>16 DEF q, r, n

-----------------------------------------------------------------------------
(* An event with a text and a status.                                      *)

\* An error with a status, which stands from q + 6 on.
WithStatus(json, T, q, digits) ==
  /\ Head9(json, T) /\ json[10] = Separator /\ json[11] = Quote /\ json[12] = "message"
  /\ json[13] = Quote /\ json[14] = Colon /\ Text(json, 15, q) /\ json[q + 1] = Separator
  /\ json[q + 2] = Quote /\ json[q + 3] = "status_code" /\ json[q + 4] = Quote
  /\ json[q + 5] = Colon /\ Holds(json, digits, q + 5)
  /\ Len(json) = q + 6 + Len(digits) /\ json[q + 6 + Len(digits)] = Closing

StatusOf(v, digits) ==
  Comma \o Member("message", v) \o Comma \o Member("status_code", digits)

LEMMA StatusLaid ==
  ASSUME NEW T \in Keys, NEW v, Framed(v), NEW digits \in Seq(Glyph), NEW json,
         json = ServerEvent(T, StatusOf(v, digits))
  PROVE  /\ json \in Seq(Glyph) /\ Holds(json, v, 14)
         /\ WithStatus(json, T, 14 + Len(v), digits) /\ Holds(json, Named(T), 6)
<1> DEFINE n == Len(v)
           l == Len(digits)
           k1 == "message"
           k2 == "status_code"
           a == Member(k1, v)
           b == Comma \o a
           c == Comma
           d == b \o c
           e == Member(k2, digits)
           m == d \o e
           q == 14 + n
<1>1. k1 \in Keys /\ k2 \in Keys
  BY DEF Keys
<1>2. m = StatusOf(v, digits)
  BY DEF StatusOf
<1> HIDE DEF k1, k2
<1>3. /\ IsKey(T) /\ IsKey(k1) /\ IsKey(k2) /\ v \in Seq(Glyph) /\ n \in Nat /\ l \in Nat
      /\ c \in Seq(Glyph) /\ Len(c) = 1
  <2>1. IsKey(T) /\ IsKey(k1) /\ IsKey(k2)
    BY <1>1, KeysAre
  <2>2. v \in Seq(Glyph) /\ n \in Nat /\ l \in Nat
    BY DEF Framed
  <2>3. c \in Seq(Glyph) /\ Len(c) = 1
    BY Single, MarksAre DEF Comma, Separator
  <2> QED
    BY <2>1, <2>2, <2>3
<1>4. a \in Seq(Glyph) /\ Len(a) = 4 + Len(v)
  BY <1>3, MemberTyped
<1> HIDE DEF a
<1>5. b \in Seq(Glyph) /\ Len(b) = 1 + Len(a)
  BY <1>4, CommaTyped
<1> HIDE DEF b, c
<1>6. d \in Seq(Glyph) /\ Len(d) = Len(b) + Len(c)
  BY <1>3, <1>5, JoinedTo
<1> HIDE DEF d
<1>7. e \in Seq(Glyph) /\ Len(e) = 4 + Len(digits)
  BY <1>3, MemberTyped
<1> HIDE DEF e
<1>8. m \in Seq(Glyph) /\ Len(m) = Len(d) + Len(e)
  BY <1>6, <1>7, JoinedTo
<1> HIDE DEF m
<1>9. Len(v) = n /\ Len(digits) = l
  OBVIOUS
<1> HIDE DEF n, l
<1>10. Len(b) = 5 + n /\ Len(d) = 6 + n /\ Len(m) = 10 + n + l
  <2>1. Len(b) = 5 + n
    BY <1>3, <1>4, <1>5, <1>9
  <2>2. Len(d) = 6 + n
    BY <1>3, <1>6, <2>1
  <2>3. Len(e) = 4 + l
    BY <1>7, <1>9
  <2> QED
    BY <1>3, <1>8, <2>1, <2>2, <2>3
<1>11. /\ json \in Seq(Glyph) /\ Len(json) = Len(m) + 10 /\ Head9(json, T)
       /\ Holds(json, Named(T), 6) /\ Holds(json, m, 9) /\ json[Len(m) + 10] = Closing
  BY <1>2, <1>3, <1>8, EventLaid
<1>12. Holds(json, d, 9) /\ Holds(json, e, 9 + Len(d)) /\ 9 \in Nat
  BY <1>6, <1>7, <1>11, HoldsParts DEF m
<1>13. Holds(json, b, 9) /\ Holds(json, c, 9 + Len(b))
  BY <1>3, <1>5, <1>11, <1>12, HoldsParts DEF d
<1>14. json[9 + 1] = Separator /\ Holds(json, a, 9 + 1)
  BY <1>4, <1>11, <1>12, <1>13, HoldsComma DEF b
<1>15. /\ 9 + 1 = 10 /\ 9 + Len(d) = q + 1 /\ 9 + Len(b) = q /\ q \in Nat /\ q + 1 \in Nat
       /\ 10 \in Nat /\ 14 \in Nat
  BY <1>3, <1>10
<1>16. q + 6 + l = Len(m) + 10 /\ 14 + Len(v) = q
  BY <1>3, <1>9, <1>10
<1> HIDE DEF q
<1>17. json[10] = Separator /\ Holds(json, a, 10)
  BY <1>14, <1>15
<1>18. /\ json[10 + 1] = Quote /\ json[10 + 2] = k1 /\ json[10 + 3] = Quote /\ json[10 + 4] = Colon
       /\ Holds(json, v, 10 + 4)
  BY <1>3, <1>11, <1>15, <1>17, HoldsMember DEF a
<1>19. 10 + 1 = 11 /\ 10 + 2 = 12 /\ 10 + 3 = 13 /\ 10 + 4 = 14 /\ 14 + 1 = 15
  OBVIOUS
<1>20. Holds(json, v, 14)
  BY <1>18, <1>19
<1>21. Text(json, 14 + 1, 14 + Len(v))
  BY <1>11, <1>15, <1>20, TextThere
<1>22. Text(json, 15, q)
  BY <1>16, <1>19, <1>21
<1>23. json[q + 1] = Separator
  <2>1. Holds(json, c, q)
    BY <1>13, <1>15
  <2> QED
    BY <1>15, <2>1, HoldsOne, MarksAre DEF c, Comma, Separator
<1>24. Holds(json, e, q + 1)
  BY <1>12, <1>15
<1>25. /\ json[q + 1 + 1] = Quote /\ json[q + 1 + 2] = k2 /\ json[q + 1 + 3] = Quote
       /\ json[q + 1 + 4] = Colon /\ Holds(json, digits, q + 1 + 4)
  BY <1>3, <1>11, <1>15, <1>24, HoldsMember DEF e
<1>26. q + 1 + 1 = q + 2 /\ q + 1 + 2 = q + 3 /\ q + 1 + 3 = q + 4 /\ q + 1 + 4 = q + 5
  BY <1>15
<1>27. /\ json[q + 2] = Quote /\ json[q + 3] = k2 /\ json[q + 4] = Quote
       /\ json[q + 5] = Colon /\ Holds(json, digits, q + 5)
  BY <1>25, <1>26
<1>28. Len(json) = q + 6 + Len(digits) /\ json[q + 6 + Len(digits)] = Closing
  BY <1>9, <1>11, <1>16
<1>29. json[11] = Quote /\ json[12] = k1 /\ json[13] = Quote /\ json[14] = Colon
  BY <1>18, <1>19
<1>30. WithStatus(json, T, q, digits)
  BY <1>11, <1>17, <1>22, <1>23, <1>27, <1>28, <1>29 DEF WithStatus, k1, k2
<1> QED
  BY <1>11, <1>16, <1>20, <1>30

LEMMA PlacesInStatus ==
  ASSUME NEW json, NEW T, IsKey(T), NEW q, NEW digits \in Seq(DOMAIN DigitValue),
         WithStatus(json, T, q, digits), NEW key \in Keys,
         NEW i \in 1 .. Len(json), NameAt(json, key, i)
  PROVE  \/ (i = 2 /\ key = "type") \/ (i = 7 /\ key = T) \/ (i = 11 /\ key = "message")
         \/ i + 2 = q \/ (i = q + 2 /\ key = "status_code")
<1>0. /\ key # Colon /\ key # White /\ key # Separator /\ key # Opening /\ key # Closing
      /\ IsKey(key) /\ "message" # Quote
  BY KeyIsNoMark, KeysAre DEF Quote
<1>1. /\ json[10] = Separator /\ json[11] = Quote /\ json[12] = "message"
      /\ json[13] = Quote /\ json[14] = Colon /\ Head9(json, T)
  BY DEF WithStatus
<1>2. /\ json[q + 1] = Separator
      /\ json[q + 2] = Quote /\ json[q + 3] = "status_code" /\ json[q + 4] = Quote
      /\ json[q + 5] = Colon /\ Len(json) = q + 6 + Len(digits) /\ json[q + 6 + Len(digits)] = Closing
  BY DEF WithStatus
<1>3. q \in Nat /\ 15 < q /\ Text(json, 15, q) /\ json[15] = Quote
  BY DEF WithStatus, Text
<1>4. json[i] = Quote /\ json[i + 1] = key /\ json[i + 2] = Quote /\ i + 2 <= Len(json)
  BY DEF NameAt
<1>5. i + 2 \notin 15 + 1 .. q - 1
  BY <1>0, <1>3, NoNameInText
<1>6. CASE i \in 1 .. 10
  <2>1. (i = 2 /\ key = "type") \/ (i = 7 /\ key = T)
    <3>1. NameAt(json, key, i)
      OBVIOUS
    <3> QED
      BY <1>1, <1>6, <3>1, InHead
  <2> QED
    BY <2>1
<1>7. CASE i \in 11 .. 14
  <2>1. i = 11 \/ i = 12 \/ i = 13 \/ i = 14
    BY <1>7
  <2>2. 11 + 1 = 12 /\ 13 + 1 = 14
    OBVIOUS
  <2>3. i # 12 /\ i # 14
    BY <1>0, <1>1, <1>4, MarksAre
  <2>4. i # 13
    BY <1>0, <1>1, <1>4, <2>2
  <2>5. i = 11 => key = "message"
    BY <1>1, <1>4, <2>2
  <2> QED
    BY <2>1, <2>3, <2>4, <2>5
<1>8. CASE i \in 15 .. q - 2
  <2>1. i + 2 \in 15 + 1 .. q
    BY <1>3, <1>8
  <2>2. i + 2 = q
    <3>1. \A n \in 15 + 1 .. q : n = q \/ n \in 15 + 1 .. q - 1
      BY <1>3
    <3> QED
      BY <1>5, <2>1, <3>1
  <2> QED
    BY <2>2
<1>9. CASE i \in q - 1 .. q + 5
  <2>1. i = q - 1 \/ i = q \/ i = q + 1 \/ i = q + 2 \/ i = q + 3 \/ i = q + 4 \/ i = q + 5
    BY <1>3, <1>9
  <2>2. (q - 1) + 2 = q + 1 /\ (q + 2) + 1 = q + 3 /\ (q + 4) + 1 = q + 5
    BY <1>3
  <2>3. i # q - 1
    BY <1>2, <1>4, <2>2, MarksAre
  <2>4. i # q
    BY <1>0, <1>2, <1>4
  <2>5. i # q + 1
    BY <1>2, <1>4, MarksAre
  <2>6. i # q + 3
    BY <1>2, <1>4 DEF Quote
  <2>7. i # q + 4
    BY <1>0, <1>2, <1>4, <2>2
  <2>8. i # q + 5
    BY <1>2, <1>4, MarksAre
  <2>9. i = q + 2 => key = "status_code"
    BY <1>2, <1>4, <2>2
  <2> QED
    BY <2>1, <2>3, <2>4, <2>5, <2>6, <2>7, <2>8, <2>9
<1>10. ~ i \in q + 6 .. Len(json)
  <2>1. Holds(json, digits, q + 5) /\ Len(digits) \in Nat
    BY DEF WithStatus
  <2>2. ASSUME NEW j \in q + 6 .. q + 5 + Len(digits)
        PROVE  json[j] # Quote
    <3>1. j - (q + 5) \in 1 .. Len(digits) /\ (q + 5) + (j - (q + 5)) = j
      BY <1>3, <2>1
    <3>2. json[j] = digits[j - (q + 5)]
      BY <2>1, <3>1 DEF Holds
    <3>3. digits[j - (q + 5)] \in DOMAIN DigitValue
      BY <3>1
    <3> QED
      BY <3>2, <3>3 DEF DigitValue, Quote
  <2>3. \A j \in q + 6 .. Len(json) : j \in q + 6 .. q + 5 + Len(digits) \/ j = q + 6 + Len(digits)
    BY <1>2, <1>3, <2>1
  <2> QED
    BY <1>2, <1>4, <2>2, <2>3, MarksAre
<1>11. i \in 1 .. 10 \/ i \in 11 .. 14 \/ i \in 15 .. q - 2 \/ i \in q - 1 .. q + 5 \/ i \in q + 6 .. Len(json)
  BY <1>2, <1>3, <1>4
<1> QED
  BY <1>6, <1>7, <1>8, <1>9, <1>10, <1>11

\* Of an object's member, the search begins at k.
LEMMA InsideFrom ==
  ASSUME NEW json \in Seq(Glyph), NEW object, IsKey(object), NEW k \in 1 .. Len(json),
         NameAt(json, object, k), \A i \in 1 .. k : NameAt(json, object, i) => i = k,
         NEW key
  PROVE  FindInside(json, object, key) = FindString(json, key, k)
<1> DEFINE N == {i \in DOMAIN json : IsAt(json, Named(object), i)}
<1>1. DOMAIN json = 1 .. Len(json) /\ Len(json) \in Nat
  OBVIOUS
<1>2. N \subseteq Nat /\ k \in N /\ \A i \in N : i \in 1 .. Len(json) /\ NameAt(json, object, i)
  BY <1>1, NamedAt
<1>3. \A i \in N : k <= i
  <2>1. \A i \in 1 .. Len(json) : i \in 1 .. k \/ k <= i
    OBVIOUS
  <2> QED
    BY <1>2, <2>1
<1>4. FindInside(json, object, key)
        = UNION {FindString(json, key, i) : i \in IF First(N) = {} THEN {1} ELSE First(N)}
  BY DEF FindInside
<1> HIDE DEF N
<1>5. First(N) = {k}
  BY <1>2, <1>3, FirstIs
<1>6. (IF First(N) = {} THEN {1} ELSE First(N)) = {k}
  BY <1>5
<1> QED
  BY <1>4, <1>6

DigitKinds == DOMAIN DigitValue

LEMMA DigitsAre ==
  /\ DigitKinds = {"0", "1", "2", "3", "4", "5", "6", "7", "8", "9"}
  /\ DigitKinds \subseteq Glyph /\ DigitKinds \cap Space = {} /\ Quote \notin DigitKinds
  /\ Closing \notin DigitKinds
<1>1. DigitKinds = {"0", "1", "2", "3", "4", "5", "6", "7", "8", "9"}
  BY DEF DigitKinds, DigitValue
<1>2. DigitKinds \subseteq HexDigits
  BY <1>1 DEF HexDigits
<1>3. DigitKinds \cap Space = {}
  BY <1>1 DEF Space
<1>4. Closing \notin DigitKinds
  BY <1>1 DEF Closing
<1>5. Quote \notin HexDigits /\ HexDigits \subseteq Glyph
  BY MarkSet
<1> QED
  BY <1>1, <1>2, <1>3, <1>4, <1>5

LEMMA StatusMarks ==
  ASSUME NEW json, NEW T, NEW q, NEW digits \in Seq(DigitKinds), digits # <<>>,
         WithStatus(json, T, q, digits), Len(json) \in Nat
  PROVE  /\ ColonAt(json, (q - 2) + 3, q + 5) /\ ColonAt(json, (q + 2) + 3, q + 5)
         /\ ValueAt(json, q + 5, q + 6) /\ json[q + 6] # Quote
         /\ q \in Nat /\ 15 < q /\ Len(json) = q + 6 + Len(digits) /\ 0 < Len(digits)
         /\ NameAt(json, "status_code", q + 2)
<1>1. /\ json[q + 1] = Separator /\ Holds(json, digits, q + 5)
      /\ json[q + 2] = Quote /\ json[q + 3] = "status_code" /\ json[q + 4] = Quote /\ json[q + 5] = Colon
      /\ Len(json) = q + 6 + Len(digits)
      /\ q \in Nat /\ 15 < q
  BY DEF WithStatus, Text
<1>2. Len(digits) \in Nat /\ 0 < Len(digits)
  BY EmptySeq
<1>3. /\ (q - 2) + 3 = q + 1 /\ (q + 2) + 3 = q + 5 /\ q + 5 \in q + 1 .. Len(json)
      /\ q + 5 \in q + 5 .. Len(json) /\ q + 6 \in (q + 5) + 1 .. Len(json)
  BY <1>1, <1>2
<1>4. \A j \in q + 1 .. q + 5 - 1 : j = q + 1 \/ j = q + 2 \/ j = q + 3 \/ j = q + 4
  BY <1>1
<1>5. \A j \in q + 1 .. q + 5 - 1 : json[j] # Colon
  <2>1. "status_code" # Colon
    BY DEF Colon
  <2> QED
    BY <1>1, <1>4, <2>1, MarksAre
<1>6. ColonAt(json, (q - 2) + 3, q + 5)
  BY <1>1, <1>3, <1>5 DEF ColonAt
<1>7. q + 5 .. q + 5 - 1 = {} 
  BY <1>1
<1>8. ColonAt(json, (q + 2) + 3, q + 5)
  BY <1>1, <1>3, <1>7 DEF ColonAt
<1>9. json[q + 6] \in DigitKinds
  <2>1. json[(q + 5) + 1] = digits[1] /\ digits[1] \in DigitKinds
    BY <1>1, <1>2 DEF Holds
  <2>2. (q + 5) + 1 = q + 6
    BY <1>1
  <2> QED
    BY <2>1, <2>2
<1>10. json[q + 6] \notin Space /\ json[q + 6] # Quote
  BY <1>9, DigitsAre
<1>11. ValueAt(json, q + 5, q + 6)
  <2>2. json[q + 6] \notin Space
    BY <1>10
  <2> DEFINE c == q + 5
             v == q + 6
  <2>3. v \in c + 1 .. Len(json)
    BY <1>3
  <2>4. json[v] \notin Space
    BY <2>2
  <2>5. c \in Nat /\ v = c + 1
    BY <1>1
  <2> HIDE DEF c, v
  <2>6. c + 1 .. v - 1 = {}
    BY <2>5
  <2>7. ValueAt(json, c, v)
    BY <2>3, <2>4, <2>6 DEF ValueAt
  <2> QED
    BY <2>7 DEF c, v
<1>12. NameAt(json, "status_code", q + 2)
  <2>1. (q + 2) + 1 = q + 3 /\ (q + 2) + 2 = q + 4 /\ (q + 2) + 2 <= Len(json)
    BY <1>1, <1>2
  <2> QED
    BY <1>1, <2>1 DEF NameAt
<1> QED
  BY <1>1, <1>2, <1>6, <1>8, <1>10, <1>11, <1>12

\* The digits are found by their name.
LEMMA StatusFound ==
  ASSUME NEW json \in Seq(Glyph), NEW T \in Keys, NEW q, NEW digits \in Seq(DigitKinds),
         digits # <<>>, WithStatus(json, T, q, digits), T # "status_code"
  PROVE  ValuePlace(json, "status_code", 1) = {q + 6}
<1> DEFINE key == "status_code"
<1>1. key \in Keys /\ key # "type" /\ key # T /\ key # "message"
  BY DEF Keys
<1>2. /\ ColonAt(json, (q - 2) + 3, q + 5) /\ ColonAt(json, (q + 2) + 3, q + 5)
      /\ ValueAt(json, q + 5, q + 6)
      /\ q \in Nat /\ 15 < q /\ Len(json) = q + 6 + Len(digits) /\ 0 < Len(digits)
      /\ NameAt(json, key, q + 2) /\ Len(json) \in Nat
  BY StatusMarks
<1>3. IsKey(key) /\ IsKey(T)
  BY <1>1, KeysAre
<1>4. digits \in Seq(DOMAIN DigitValue)
  BY DEF DigitKinds
<1> HIDE DEF key
<1> DEFINE k == q + 2
           c == q + 5
           v == q + 6
<1>5. k \in 1 .. Len(json) /\ 1 \in Nat \ {0} /\ Len(digits) \in Nat
  BY <1>2
<1>6. ASSUME NEW i \in 1 .. k, NameAt(json, key, i)
      PROVE  ColonAt(json, i + 3, c)
  <2>1. i \in 1 .. Len(json)
    BY <1>5
  <2>2. i + 2 = q \/ i = q + 2
    BY <1>1, <1>3, <1>4, <1>6, <2>1, PlacesInStatus
  <2>3. i = q - 2 \/ i = q + 2
    BY <1>2, <2>2
  <2> QED
    BY <1>2, <2>3
<1>7. NameAt(json, key, k) /\ ValueAt(json, c, v)
  BY <1>2
<1> HIDE DEF k, c, v
<1>8. ValuePlace(json, key, 1) = {v}
  BY <1>3, <1>5, <1>6, <1>7, PlaceIs
<1> QED
  BY <1>8 DEF v, key

\* No text is found behind another name.
LEMMA NotInStatus ==
  ASSUME NEW json \in Seq(Glyph), NEW T \in Keys, NEW q, NEW digits \in Seq(DigitKinds),
         digits # <<>>, WithStatus(json, T, q, digits), NEW key \in Keys,
         key \notin {"type", T, "message", "status_code"}, NEW start \in Nat \ {0}
  PROVE  FindString(json, key, start) = {}
<1>2. /\ ColonAt(json, (q - 2) + 3, q + 5)
      /\ ValueAt(json, q + 5, q + 6) /\ json[q + 6] # Quote
      /\ q \in Nat /\ 15 < q /\ Len(json) = q + 6 + Len(digits) /\ 0 < Len(digits)
      /\ Len(json) \in Nat
  BY StatusMarks
<1>3. IsKey(key) /\ IsKey(T)
  BY KeysAre
<1>4. digits \in Seq(DOMAIN DigitValue)
  BY DEF DigitKinds
<1> DEFINE c == q + 5
           v == q + 6
<1>5. v \in 1 .. Len(json)
  BY <1>2
<1>6. ASSUME NEW i \in start .. Len(json), NameAt(json, key, i)
      PROVE  ColonAt(json, i + 3, c)
  <2>1. i \in 1 .. Len(json)
    OBVIOUS
  <2>2. i + 2 = q
    BY <1>3, <1>4, <1>6, <2>1, PlacesInStatus
  <2>3. i = q - 2
    BY <1>2, <2>2
  <2> QED
    BY <1>2, <2>3
<1>7. ValueAt(json, c, v) /\ json[v] # Quote
  BY <1>2
<1> HIDE DEF c, v
<1>8. ValuePlace(json, key, start) \subseteq {v}
  BY <1>3, <1>6, <1>7, PlaceWithin
<1> QED
  BY <1>5, <1>7, <1>8, NoStringFound

-----------------------------------------------------------------------------
(* The number behind a name.                                               *)

RunFrom(json, i) == {j \in i .. Len(json) : \A k \in i .. j : json[k] \in DigitKinds}
ZerosOf(digits) == {n \in 0 .. Len(digits) - 1 : \A i \in 1 .. n : digits[i] = "0"}
SignificantOf(digits) ==
  SubSeq(digits, 1 + CHOOSE n \in ZerosOf(digits) : \A m \in ZerosOf(digits) : m <= n, Len(digits))
NumbersAt(json, places) ==
  {SignificantOf(SubSeq(json, i, i + Cardinality(RunFrom(json, i)) - 1)) :
     i \in {k \in places : RunFrom(json, k) # {}}}

LEMMA UnsignedIs ==
  ASSUME NEW json, NEW key
  PROVE  FindUnsigned(json, key)
           = {digits \in NumbersAt(json, ValuePlace(json, key, 1)) : FitsUnsigned(digits)}
BY DEF FindUnsigned, NumbersAt, SignificantOf, ZerosOf, RunFrom, DigitKinds

LEMMA NoUnsigned ==
  ASSUME NEW json, NEW key, NEW v \in Nat, ValuePlace(json, key, 1) \subseteq {v}, json[v] = Quote
  PROVE  FindUnsigned(json, key) = {}
<1>1. ASSUME NEW j \in RunFrom(json, v)
      PROVE  FALSE
  <2>1. v \in v .. j
    BY DEF RunFrom
  <2>2. json[v] \in DigitKinds
    BY <2>1 DEF RunFrom
  <2> QED
    BY <2>2, DigitsAre
<1>2. RunFrom(json, v) = {}
  BY <1>1
<1>3. NumbersAt(json, ValuePlace(json, key, 1)) = {}
  BY <1>2 DEF NumbersAt
<1> QED
  BY <1>3, UnsignedIs

\* Digits with no zero before them, to the end of the text but for what closes it.
LEMMA NumberRead ==
  ASSUME NEW json \in Seq(Glyph), NEW p \in Nat, NEW digits \in Seq(DigitKinds), digits # <<>>,
         Len(digits) > 1 => digits[1] # "0", Holds(json, digits, p),
         Len(json) = p + Len(digits) + 1, json[p + Len(digits) + 1] = Closing
  PROVE  NumbersAt(json, {p + 1}) = {digits}
<1> DEFINE d == Len(digits)
           i == p + 1
           u == SubSeq(json, i, i + d - 1)
<1>1. d \in Nat /\ 0 < d /\ i \in Nat /\ i + d - 1 = p + d
  BY EmptySeq
<1>2. /\ p + d <= Len(json) /\ \A k \in 1 .. d : json[p + k] = digits[k]
      /\ Len(json) = p + d + 1 /\ json[p + d + 1] = Closing
      /\ digits \in Seq(DigitKinds) /\ Len(digits) = d /\ \A k \in 1 .. d : digits[k] \in DigitKinds
  BY DEF Holds
<1>3. digits \in Seq(Glyph)
  BY DigitsAre, Wider
<1>4. u = digits
  <2>1. p <= Len(json)
    BY <1>1, <1>2
  <2>2. IsAt(json, digits, p + 1)
    BY <1>3, <2>1, AtIsHolds
  <2> QED
    BY <2>2 DEF IsAt
<1> HIDE DEF u, d
<1>5. \A k \in i .. p + d : json[k] \in DigitKinds
  <2>1. ASSUME NEW k \in i .. p + d
        PROVE  json[k] \in DigitKinds
    <3>1. k - p \in 1 .. d /\ p + (k - p) = k
      BY <1>1
    <3> QED
      BY <1>2, <3>1
  <2> QED
    BY <2>1
<1>6. json[p + d + 1] \notin DigitKinds
  BY <1>2, DigitsAre
<1>7. RunFrom(json, i) = i .. p + d
  <2>1. ASSUME NEW j \in i .. p + d
        PROVE  j \in RunFrom(json, i)
    <3>1. j \in i .. Len(json) /\ \A k \in i .. j : k \in i .. p + d
      BY <1>1, <1>2
    <3> QED
      BY <1>5, <3>1 DEF RunFrom
  <2>2. ASSUME NEW j \in RunFrom(json, i)
        PROVE  j \in i .. p + d
    <3>1. j \in i .. Len(json) /\ \A k \in i .. j : json[k] \in DigitKinds
      BY DEF RunFrom
    <3>2. j # p + d + 1
      <4>1. SUFFICES ASSUME j = p + d + 1
                     PROVE  FALSE
        OBVIOUS
      <4>2. p + d + 1 \in i .. j
        BY <1>1, <4>1
      <4> QED
        BY <1>6, <3>1, <4>2
    <3> QED
      BY <1>1, <1>2, <3>1, <3>2
  <2> QED
    BY <2>1, <2>2
<1>8. Cardinality(RunFrom(json, i)) = d /\ RunFrom(json, i) # {}
  <2>1. i \in Int /\ p + d \in Int /\ ~ i > p + d /\ (p + d) - i + 1 = d /\ i \in i .. p + d
    BY <1>1
  <2>2. Cardinality(i .. p + d) = (p + d) - i + 1
    BY <2>1, FS_Interval
  <2> QED
    BY <1>7, <2>1, <2>2
<1>9. ZerosOf(digits) = {0}
  <2>1. 0 \in ZerosOf(digits)
    <3>1. 0 \in 0 .. d - 1 /\ 1 .. 0 = {}
      BY <1>1
    <3> QED
      BY <1>2, <3>1 DEF ZerosOf
  <2>2. ASSUME NEW n \in ZerosOf(digits)
        PROVE  n = 0
    <3>1. n \in 0 .. d - 1 /\ \A k \in 1 .. n : digits[k] = "0"
      BY <1>2 DEF ZerosOf
    <3>2. SUFFICES ASSUME n # 0
                   PROVE  FALSE
      OBVIOUS
    <3>3. 1 \in 1 .. n /\ d > 1
      BY <1>1, <3>1, <3>2
    <3> QED
      BY <1>2, <3>1, <3>3
  <2> QED
    BY <2>1, <2>2
<1>10. SignificantOf(digits) = digits
  <2>1. (CHOOSE n \in ZerosOf(digits) : \A m \in ZerosOf(digits) : m <= n) = 0
    BY <1>9
  <2>2. SubSeq(digits, 1 + 0, d) = digits
    <3> DEFINE w == SubSeq(digits, 1, d)
    <3>1. w \in Seq(DigitKinds) /\ Len(w) = d - 1 + 1 /\ \A j \in 1 .. d - 1 + 1 : w[j] = digits[1 + j - 1]
      <4>1. 1 \in Nat /\ d \in Nat /\ 1 <= 1 /\ 1 <= d + 1 /\ d <= Len(digits)
        BY <1>1, <1>2
      <4> QED
        BY <1>2, <4>1, Part
    <3> HIDE DEF w
    <3>2. Len(w) = d /\ \A j \in 1 .. d : w[j] = digits[j]
      BY <1>1, <3>1
    <3>3. w = digits
      BY <1>2, <3>1, <3>2, SeqEqual
    <3> QED
      BY <3>3 DEF w
  <2> QED
    BY <1>2, <2>1, <2>2 DEF SignificantOf
<1>11. NumbersAt(json, {i}) = {SignificantOf(SubSeq(json, i, i + Cardinality(RunFrom(json, i)) - 1))}
  BY <1>8 DEF NumbersAt
<1> QED
  BY <1>4, <1>8, <1>10, <1>11 DEF u

-----------------------------------------------------------------------------
(* What is made of an event.                                               *)

\* What MessagesRead asks of an event.
Understood(json, type, content, lossy) ==
  LET event == ParseEvent(json)
  IN  \/ /\ event.type = IF type = "future" THEN "unknown" ELSE type
         /\ event.content = content
      \/ lossy /\ event.content \in {{}, {<<"provider_error">>}}

\* What ParseEvent() makes of a type it knows, and of one it does not know.
LEMMA Typed ==
  ASSUME NEW json, NEW T \in EventTypes, FindString(json, "type", 1) = {<<T>>}
  PROVE  ParseEvent(json) = IF T \in Essential /\ Content(json, T) = {}
                              THEN [type |-> "protocol error", content |-> {}]
                              ELSE [type |-> T, content |-> Content(json, T)]
<1> DEFINE types == FindString(json, "type", 1)
           type == IF \E t \in EventTypes : <<t>> \in types
                     THEN CHOOSE t \in EventTypes : <<t>> \in types ELSE "unknown"
<1>1. \A t : <<t>> \in types <=> t = T
  OBVIOUS
<1>2. types # {}
  OBVIOUS
<1>3. ParseEvent(json) = IF types = {} \/ (type \in Essential /\ Content(json, type) = {})
                           THEN [type |-> "protocol error", content |-> {}]
                           ELSE [type |-> type, content |-> Content(json, type)]
  BY DEF ParseEvent
<1> HIDE DEF types
<1>4. type = T
  BY <1>1
<1> HIDE DEF type
<1> QED
  BY <1>2, <1>3, <1>4

LEMMA FutureIsNone == "future" \notin EventTypes
BY DEF EventTypes

LEMMA Untyped ==
  ASSUME NEW json, FindString(json, "type", 1) = {<<"future">>}
  PROVE  ParseEvent(json) = [type |-> "unknown", content |-> {}]
<1> DEFINE types == FindString(json, "type", 1)
           type == IF \E t \in EventTypes : <<t>> \in types
                     THEN CHOOSE t \in EventTypes : <<t>> \in types ELSE "unknown"
<1>1. \A t : <<t>> \in types <=> t = "future"
  OBVIOUS
<1>2. types # {}
  OBVIOUS
<1>3. ParseEvent(json) = IF types = {} \/ (type \in Essential /\ Content(json, type) = {})
                           THEN [type |-> "protocol error", content |-> {}]
                           ELSE [type |-> type, content |-> Content(json, type)]
  BY DEF ParseEvent
<1> HIDE DEF types
<1>4. type = "unknown"
  <2>1. ASSUME NEW t \in EventTypes, <<t>> \in types
        PROVE  FALSE
    <3>1. t = "future"
      BY <1>1, <2>1
    <3> QED
      BY <3>1, FutureIsNone
  <2>2. ~ \E t \in EventTypes : <<t>> \in types
    BY <2>1
  <2> QED
    BY <2>2
<1> HIDE DEF type
<1>5. "unknown" \notin Essential
  BY DEF Essential
<1>6. Content(json, "unknown") = {}
  BY DEF Content
<1> QED
  BY <1>2, <1>3, <1>4, <1>5, <1>6

LEMMA Judged ==
  ASSUME NEW json, NEW T \in EventTypes, FindString(json, "type", 1) = {<<T>>},
         NEW content, NEW lossy,
         \/ Content(json, T) = content /\ (T \in Essential => content # {})
         \/ lossy /\ Content(json, T) \in {{}, {<<"provider_error">>}}
  PROVE  Understood(json, T, content, lossy)
<1> DEFINE found == Content(json, T)
           event == ParseEvent(json)
           other == {<<"provider_error">>}
<1>1. event = IF T \in Essential /\ found = {} THEN [type |-> "protocol error", content |-> {}]
                                               ELSE [type |-> T, content |-> found]
  BY Typed
<1>2. T # "future"
  BY FutureIsNone
<1>3. \/ found = content /\ (T \in Essential => content # {})
      \/ lossy /\ found \in {{}, other}
  OBVIOUS
<1> HIDE DEF found, event, other
<1>4. \/ event.type = T /\ event.content = content
      \/ lossy /\ event.content \in {{}, other}
  BY <1>1, <1>3
<1> QED
  BY <1>2, <1>4 DEF Understood, event, other

Plain == EventTypes \ {"session.created", "transcription.delta", "response.output_text.delta",
                       "response.output_audio.delta", "transcription.completed",
                       "response.output_text.done", "error"}

\* Of a type with one place for its content, the content is what is found there.
LEMMA ContentIs ==
  ASSUME NEW json
  PROVE  /\ Content(json, "session.created") = FindInside(json, "session", "id")
         /\ \A T \in {"transcription.delta", "response.output_text.delta",
                      "response.output_audio.delta"} : Content(json, T) = FindString(json, "delta", 1)
         /\ Content(json, "transcription.completed")
              = OrElse(FindString(json, "transcript", 1), FindString(json, "text", 1))
         /\ Content(json, "response.output_text.done") = FindString(json, "text", 1)
         /\ Content(json, "error")
              = OrElse(FindInside(json, "error", "code"),
                       OrElse(FindUnsigned(json, "status_code"), {<<"provider_error">>}))
         /\ \A T \in Plain : Content(json, T) = {}
<1>1. Content(json, "session.created") = FindInside(json, "session", "id")
  BY DEF Content
<1>2. ASSUME NEW T \in {"transcription.delta", "response.output_text.delta",
                        "response.output_audio.delta"}
      PROVE  Content(json, T) = FindString(json, "delta", 1)
  BY DEF Content
<1>3. Content(json, "transcription.completed")
        = OrElse(FindString(json, "transcript", 1), FindString(json, "text", 1))
  BY DEF Content
<1>4. Content(json, "response.output_text.done") = FindString(json, "text", 1)
  BY DEF Content
<1>5. Content(json, "error")
        = OrElse(FindInside(json, "error", "code"),
                 OrElse(FindUnsigned(json, "status_code"), {<<"provider_error">>}))
  BY DEF Content
<1>6. ASSUME NEW T \in Plain
      PROVE  Content(json, T) = {}
  <2>1. T \notin {"session.created", "transcription.delta", "response.output_text.delta",
                  "response.output_audio.delta", "transcription.completed",
                  "response.output_text.done", "error"}
    BY DEF Plain
  <2> QED
    BY <2>1 DEF Content
<1> QED
  BY <1>1, <1>2, <1>3, <1>4, <1>5, <1>6

LEMMA CarriersAre ==
  /\ Carriers("session.created") = {<<"session", "id">>}
  /\ \A T \in {"transcription.delta", "response.output_text.delta",
               "response.output_audio.delta"} : Carriers(T) = {<<"delta">>}
  /\ Carriers("transcription.completed") = {<<"transcript">>, <<"text">>}
  /\ Carriers("response.output_text.done") = {<<"text">>}
  /\ Carriers("error") = {<<"error", "code">>}
  /\ \A T \in Plain : Carriers(T) = {}
<1>1. /\ Carriers("session.created") = {<<"session", "id">>}
      /\ Carriers("transcription.completed") = {<<"transcript">>, <<"text">>}
      /\ Carriers("response.output_text.done") = {<<"text">>}
      /\ Carriers("error") = {<<"error", "code">>}
  BY DEF Carriers
<1>2. \A T \in {"transcription.delta", "response.output_text.delta",
                "response.output_audio.delta"} : Carriers(T) = {<<"delta">>}
  BY DEF Carriers
<1>3. \A T \in Plain : Carriers(T) = {}
  BY DEF Carriers, Plain
<1> QED
  BY <1>1, <1>2, <1>3

-----------------------------------------------------------------------------
(* Each event of the server is understood.                                 *)

AloneIn(json, T, key, text, ascii) ==
  /\ FindString(json, "type", 1) = {<<T>>} /\ Obtains(FindString(json, key, 1), text, ascii)
  /\ \A other \in Keys : other \notin {"type", T, key} => FindString(json, other, 1) = {}

\* An event whose content is a member of its own.
LEMMA OneTextRead ==
  ASSUME NEW T \in Keys, NEW key \in Keys, key # "type", key # T,
         NEW text \in Seq(Glyph), NEW ascii \in BOOLEAN, NEW json,
         json = ServerEvent(T, Comma \o Member(key, ServerString(text, ascii)))
  PROVE  AloneIn(json, T, key, text, ascii)
<1> DEFINE v == ServerString(text, ascii)
           n == Len(v)
           q == 14 + n
<1>1. Spelled(v, text, ascii)
  BY ServerSpelled
<1>2. Framed(v)
  BY <1>1, SpelledFrame
<1>3. json = ServerEvent(T, Comma \o Member(key, v))
  OBVIOUS
<1> HIDE DEF v
<1>4. /\ json \in Seq(Glyph) /\ Holds(json, v, 14) /\ WithOne(json, T, key, q)
      /\ Holds(json, Named(T), 6)
  BY <1>2, <1>3, OneLaid
<1>5. IsKey(T) /\ IsKey(key) /\ n \in Nat
  BY <1>2, KeysAre DEF Framed
<1>6. Head9(json, T) /\ Len(json) = q + 1
  BY <1>4 DEF WithOne
<1>7. Len(json) >= 10
  BY <1>5, <1>6
<1> HIDE DEF n, q
<1>8. FindString(json, "type", 1) = {<<T>>}
  BY <1>4, <1>5, <1>6, <1>7, TypeRead
<1>9. ValuePlace(json, key, 1) = {15}
  BY <1>4, <1>5, FoundAlone
<1>10. Finds(JsonString(json, 15), text, ascii, 14 + Len(v) + 1)
  <2>1. 14 + 1 = 15 /\ 14 \in Nat
    OBVIOUS
  <2>2. Finds(JsonString(json, 14 + 1), text, ascii, 14 + Len(v) + 1)
    BY <1>1, <1>4, <2>1, SpelledRead
  <2> QED
    BY <2>1, <2>2
<1>11. Obtains(FindString(json, key, 1), text, ascii)
  BY <1>9, <1>10, StringFound
<1>12. ASSUME NEW other \in Keys, other \notin {"type", T, key}
       PROVE  FindString(json, other, 1) = {}
  <2>1. ValuePlace(json, other, 1) = {}
    BY <1>4, <1>5, <1>12, NotFoundAlone
  <2> QED
    BY <2>1, NothingFound
<1> QED
  BY <1>8, <1>11, <1>12 DEF AloneIn

InsideOf(json, T, k1, k2, text, ascii) ==
  /\ FindString(json, "type", 1) = {<<T>>} /\ Obtains(FindInside(json, k1, k2), text, ascii)
  /\ \A other \in Keys : other \notin {"type", T, k1, "message", k2} => FindUnsigned(json, other) = {}

\* An event whose content is in an object, behind another text.
LEMMA TwoTextsRead ==
  ASSUME NEW T \in Keys, NEW k1 \in Keys, NEW k2 \in Keys, k1 # "type",
         k2 \notin {"type", T, k1, "message"},
         NEW text \in Seq(Glyph), NEW ascii \in BOOLEAN, NEW json,
         json = ServerEvent(T, Comma \o Member(k1, Object(
                  Member("message", ServerString(text, ascii)) \o Comma
                  \o Member(k2, <<White>> \o ServerString(text, ascii)))))
  PROVE  InsideOf(json, T, k1, k2, text, ascii)
<1> DEFINE v == ServerString(text, ascii)
           n == Len(v)
           q == 19 + n
           r == 25 + n + n
<1>1. Spelled(v, text, ascii)
  BY ServerSpelled
<1>2. Framed(v)
  BY <1>1, SpelledFrame
<1>3. json = ServerEvent(T, Comma \o Member(k1, Object(Member("message", v) \o Comma
                                                       \o Member(k2, <<White>> \o v))))
  OBVIOUS
<1> HIDE DEF v
<1>4. /\ json \in Seq(Glyph) /\ Holds(json, v, 25 + n) /\ WithTwo(json, T, k1, k2, q, r)
      /\ Holds(json, Named(T), 6)
  BY <1>2, <1>3, TwoLaid
<1>5. IsKey(T) /\ IsKey(k1) /\ IsKey(k2) /\ n \in Nat
  BY <1>2, KeysAre DEF Framed
<1>6. Head9(json, T) /\ Len(json) = r + 2 /\ json[10] = Separator /\ json[11] = Quote
      /\ json[12] = k1 /\ json[13] = Quote
  BY <1>4 DEF WithTwo
<1>7. Len(json) >= 13 /\ Len(json) >= 10 /\ Len(json) \in Nat
  BY <1>5, <1>6
<1>8. 25 + n + 1 = q + 7 /\ 25 + n \in Nat /\ q + 7 \in Nat
  BY <1>5
<1> HIDE DEF n, q, r
<1>9. FindString(json, "type", 1) = {<<T>>}
  BY <1>4, <1>5, <1>6, <1>7, TypeRead
<1>10. Finds(JsonString(json, q + 7), text, ascii, 25 + n + Len(v) + 1)
  <2>1. Finds(JsonString(json, 25 + n + 1), text, ascii, 25 + n + Len(v) + 1)
    <3> DEFINE p == 25 + n
    <3>1. Holds(json, v, p) /\ p \in Nat
      BY <1>4, <1>8
    <3> HIDE DEF p
    <3>2. Finds(JsonString(json, p + 1), text, ascii, p + Len(v) + 1)
      BY <1>1, <1>4, <3>1, SpelledRead
    <3> QED
      BY <3>2 DEF p
  <2> QED
    BY <1>8, <2>1
<1>11. ASSUME NEW start \in {7, 11}
       PROVE  Obtains(FindString(json, k2, start), text, ascii)
  <2>1. ValuePlace(json, k2, start) = {q + 7}
    BY <1>4, <1>5, FoundInTwo
  <2> QED
    BY <1>10, <2>1, StringFound
<1>12. PICK start \in {7, 11} :
         NameAt(json, k1, start) /\ \A i \in 1 .. start : NameAt(json, k1, i) => i = start
  <2>1. CASE k1 = T
    <3>1. NameAt(json, k1, 7)
      BY <1>6, <1>7, <2>1 DEF NameAt, Head9
    <3>2. ASSUME NEW i \in 1 .. 7, NameAt(json, k1, i)
          PROVE  i = 7
      <4>1. i \in 1 .. 10
        OBVIOUS
      <4>2. (i = 2 /\ k1 = "type") \/ (i = 7 /\ k1 = T)
        BY <1>5, <1>6, <3>2, <4>1, InHead
      <4> QED
        BY <4>2
    <3> QED
      BY <3>1, <3>2
  <2>2. CASE k1 # T
    <3>1. NameAt(json, k1, 11)
      <4>1. 11 + 1 = 12 /\ 11 + 2 = 13
        OBVIOUS
      <4> QED
        BY <1>6, <1>7, <4>1 DEF NameAt
    <3>2. ASSUME NEW i \in 1 .. 11, NameAt(json, k1, i)
          PROVE  i = 11
      <4>1. i \in 1 .. 10 \/ i = 11
        OBVIOUS
      <4>2. i \notin 1 .. 10
        BY <1>6, <2>2, <3>2, <1>5, NotInHead
      <4> QED
        BY <4>1, <4>2
    <3> QED
      BY <3>1, <3>2
  <2> QED
    BY <2>1, <2>2
<1>13. FindInside(json, k1, k2) = FindString(json, k2, start)
  <2>1. start \in 1 .. Len(json)
    BY <1>7
  <2> QED
    BY <1>4, <1>5, <1>12, <2>1, InsideFrom
<1>14. ASSUME NEW other \in Keys, other \notin {"type", T, k1, "message", k2}
       PROVE  FindUnsigned(json, other) = {}
  <2>1. ValuePlace(json, other, 1) \subseteq {q + 7} /\ json[q + 7] = Quote
    BY <1>4, <1>5, <1>14, NotInTwo
  <2> QED
    BY <1>8, <2>1, NoUnsigned
<1> QED
  BY <1>9, <1>11, <1>13, <1>14 DEF InsideOf

LeadsWell(digits) == Len(digits) > 1 => digits[1] # "0"

StatusEvent(json, text, digits) ==
  json = ServerEvent("error", StatusOf(ServerString(text, FALSE), digits))

\* The status of an error is found if it can be held.
LEMMA StatusRead ==
  ASSUME NEW digits \in Seq(DigitKinds), digits # <<>>, LeadsWell(digits),
         NEW text \in Seq(Glyph), NEW json, StatusEvent(json, text, digits)
  PROVE  Understood(json, "error", {digits}, Len(digits) > 9)
<1> DEFINE T == "error"
           key == "code"
           s == "status_code"
           v == ServerString(text, FALSE)
           n == Len(v)
           q == 14 + n
           other == {<<"provider_error">>}
<1>0. /\ T \in EventTypes /\ T \in Keys /\ key \in Keys /\ s \in Keys /\ T # s
      /\ key \notin {"type", T, "message", s} /\ T # "type"
  BY DEF Keys, EventTypes
<1>1. Spelled(v, text, FALSE)
  BY ServerSpelled
<1>2. Framed(v) /\ digits \in Seq(Glyph)
  BY <1>1, SpelledFrame, DigitsAre, Wider
<1>3. json = ServerEvent(T, StatusOf(v, digits))
  BY DEF StatusEvent
<1> HIDE DEF v, T, key, s
<1>4. /\ json \in Seq(Glyph) /\ WithStatus(json, T, q, digits) /\ Holds(json, Named(T), 6)
  BY <1>0, <1>2, <1>3, StatusLaid
<1>5. IsKey(T) /\ IsKey(key) /\ IsKey(s)
  BY <1>0, KeysAre
<1>6. n \in Nat /\ Len(digits) \in Nat /\ 0 < Len(digits)
  BY <1>2, EmptySeq DEF Framed
<1>7. Head9(json, T) /\ Len(json) = q + 6 + Len(digits) /\ Holds(json, digits, q + 5)
      /\ json[q + 6 + Len(digits)] = Closing
  BY <1>4 DEF WithStatus
<1>8. Len(json) >= 10 /\ Len(json) \in Nat /\ 7 \in 1 .. Len(json) /\ 7 \in Nat \ {0} /\ 7 + 2 <= Len(json)
  BY <1>6, <1>7
<1>9. /\ q + 5 \in Nat /\ (q + 5) + 1 = q + 6 /\ Len(json) = (q + 5) + Len(digits) + 1
      /\ q + 6 + Len(digits) = (q + 5) + Len(digits) + 1
  BY <1>6, <1>7
<1> HIDE DEF n, q
<1>10. FindString(json, "type", 1) = {<<T>>}
  BY <1>4, <1>5, <1>7, <1>8, TypeRead
<1>11. NameAt(json, T, 7)
  BY <1>7, <1>8 DEF NameAt, Head9
<1>12. ASSUME NEW i \in 1 .. 7, NameAt(json, T, i)
       PROVE  i = 7
  <2>1. i \in 1 .. 10 /\ json[10] = Separator
    BY <1>4 DEF WithStatus
  <2>2. (i = 2 /\ T = "type") \/ (i = 7 /\ T = T)
    BY <1>0, <1>5, <1>7, <1>12, <2>1, InHead
  <2> QED
    BY <1>0, <2>2
<1>13. FindInside(json, T, key) = FindString(json, key, 7)
  BY <1>4, <1>5, <1>8, <1>11, <1>12, InsideFrom
<1>14. FindString(json, key, 7) = {}
  <2>1. key \notin {"type", T, "message", "status_code"}
    BY <1>0 DEF s
  <2> QED
    BY <1>0, <1>4, <1>8, <2>1, NotInStatus
<1>15. ValuePlace(json, s, 1) = {q + 6}
  <2>1. T # "status_code"
    BY <1>0 DEF s
  <2> QED
    BY <1>0, <1>4, <2>1, StatusFound DEF s
<1>16. NumbersAt(json, {(q + 5) + 1}) = {digits}
  <2> DEFINE p == q + 5
  <2>1. p \in Nat /\ Len(json) = p + Len(digits) + 1 /\ Holds(json, digits, p)
        /\ json[p + Len(digits) + 1] = Closing
    BY <1>7, <1>9
  <2> HIDE DEF p
  <2>2. NumbersAt(json, {p + 1}) = {digits}
    BY <1>4, <2>1, NumberRead DEF LeadsWell
  <2> QED
    BY <2>2 DEF p
<1>17. FindUnsigned(json, s) = {d \in {digits} : FitsUnsigned(d)}
  BY <1>9, <1>15, <1>16, UnsignedIs
<1>18. Content(json, T) = OrElse(FindInside(json, T, key), OrElse(FindUnsigned(json, s), other))
  BY ContentIs DEF T, key, s
<1>19. Content(json, T) = IF FindUnsigned(json, s) # {} THEN FindUnsigned(json, s) ELSE other
  BY <1>13, <1>14, <1>18 DEF OrElse
<1>20. Len(digits) < 10 => FitsUnsigned(digits)
  BY DEF FitsUnsigned
<1> DEFINE content == {digits}
           lossy == Len(digits) > 9
<1>21. \/ Content(json, T) = content
       \/ lossy /\ Content(json, T) \in {{}, other}
  <2>1. CASE FitsUnsigned(digits)
    <3>1. FindUnsigned(json, s) = content
      BY <1>17, <2>1
    <3> QED
      BY <1>19, <3>1
  <2>2. CASE ~ FitsUnsigned(digits)
    <3>1. FindUnsigned(json, s) = {}
      BY <1>17, <2>2
    <3>2. lossy
      BY <1>6, <1>20, <2>2
    <3> QED
      BY <1>19, <3>1, <3>2
  <2> QED
    BY <2>1, <2>2
<1>22. T \in Essential => content # {}
  OBVIOUS
<1> HIDE DEF content, lossy
<1>23. Understood(json, T, content, lossy)
  BY <1>0, <1>10, <1>21, <1>22, Judged DEF other
<1> QED
  BY <1>23 DEF content, lossy, T

BareOf(T) == ServerEvent(T, <<>>)

\* An event without a content.
LEMMA BareRead ==
  ASSUME NEW T \in EventTypes \cup {"future"}, Carriers(T) = {}, NEW json, json = BareOf(T)
  PROVE  Understood(json, T, {}, FALSE)
<1> DEFINE m == <<>>
<1>1. m \in Seq(Glyph) /\ Len(m) = 0
  OBVIOUS
<1>2. IsKey(T)
  BY KeysAre DEF Keys
<1>3. json = ServerEvent(T, m)
  BY DEF BareOf
<1> HIDE DEF m
<1>4. /\ json \in Seq(Glyph) /\ Len(json) = Len(m) + 10 /\ Head9(json, T)
      /\ Holds(json, Named(T), 6)
  BY <1>1, <1>2, <1>3, EventLaid
<1>5. Len(json) >= 10
  BY <1>1, <1>4
<1>6. FindString(json, "type", 1) = {<<T>>}
  BY <1>2, <1>4, <1>5, TypeRead
<1>7. CASE T = "future"
  <2>1. ParseEvent(json) = [type |-> "unknown", content |-> {}]
    BY <1>6, <1>7, Untyped
  <2>2. ParseEvent(json).type = "unknown" /\ ParseEvent(json).content = {}
    BY <2>1
  <2> QED
    BY <1>7, <2>2 DEF Understood
<1>8. CASE T # "future"
  <2>1. T \in EventTypes
    BY <1>8
  <2>2. T \in Plain
    BY <2>1, CarriersAre DEF Plain
  <2>3. Content(json, T) = {}
    BY <2>2, ContentIs
  <2>4. T \notin Essential
    BY <2>2 DEF Plain, Essential
  <2> QED
    BY <1>6, <2>1, <2>3, <2>4, Judged
<1> QED
  BY <1>7, <1>8

AloneEvent(json, T, key, text, ascii) ==
  json = ServerEvent(T, Comma \o Member(key, ServerString(text, ascii)))

InsideEvent(json, T, k1, k2, text, ascii) ==
  json = ServerEvent(T, Comma \o Member(k1, Object(
           Member("message", ServerString(text, ascii)) \o Comma
           \o Member(k2, <<White>> \o ServerString(text, ascii)))))

ContentEvent(json, T, path, text, ascii) ==
  LET value  == ServerString(text, ascii)
      member == IF Len(path) = 1 THEN Member(path[1], value)
                ELSE Member(path[1], Object(Member("message", value) \o Comma
                                            \o Member(path[2], <<" ">> \o value)))
  IN  json = ServerEvent(T, Comma \o member)

LEMMA PathOne ==
  ASSUME NEW json, NEW T, NEW key, NEW text, NEW ascii,
         ContentEvent(json, T, <<key>>, text, ascii)
  PROVE  AloneEvent(json, T, key, text, ascii)
<1> DEFINE path == <<key>>
<1>1. Len(path) = 1 /\ path[1] = key
  OBVIOUS
<1>2. ContentEvent(json, T, path, text, ascii)
  OBVIOUS
<1> HIDE DEF path
<1> QED
  BY <1>1, <1>2, Zenon DEF ContentEvent, AloneEvent

LEMMA PathTwo ==
  ASSUME NEW json, NEW T, NEW k1, NEW k2, NEW text, NEW ascii,
         ContentEvent(json, T, <<k1, k2>>, text, ascii)
  PROVE  InsideEvent(json, T, k1, k2, text, ascii)
<1> DEFINE path == <<k1, k2>>
<1>1. Len(path) # 1 /\ path[1] = k1 /\ path[2] = k2
  OBVIOUS
<1>2. ContentEvent(json, T, path, text, ascii)
  OBVIOUS
<1> HIDE DEF path
<1> QED
  BY <1>1, <1>2, Zenon DEF ContentEvent, InsideEvent, White

\* Every event with a text is understood.
LEMMA ContentRead ==
  ASSUME NEW T \in EventTypes, NEW path \in Carriers(T), NEW text \in Seq(Glyph),
         NEW ascii \in BOOLEAN, NEW json, ContentEvent(json, T, path, text, ascii)
  PROVE  Understood(json, T, {text}, Lossy(text, ascii))
<1> DEFINE content == {text}
           lossy == Lossy(text, ascii)
           other == {<<"provider_error">>}
<1>1. T \in Keys
  BY DEF Keys
<1>2. \A found : Obtains(found, text, ascii) <=> found = content \/ (lossy /\ found = {})
  BY DEF Obtains
<1>3. content # {}
  OBVIOUS
<1> HIDE DEF content, lossy
<1>4. T \in {"session.created", "transcription.delta", "response.output_text.delta",
             "response.output_audio.delta", "transcription.completed",
             "response.output_text.done", "error"}
  BY CarriersAre DEF Plain
<1>5. CASE T \in {"transcription.delta", "response.output_text.delta",
                  "response.output_audio.delta"}
  <2> DEFINE key == "delta"
  <2>1. path = <<key>>
    BY <1>5, CarriersAre
  <2>2. key \in Keys /\ key # "type" /\ key # T
    BY <1>5 DEF Keys
  <2>3. Content(json, T) = FindString(json, key, 1)
    BY <1>5, ContentIs
  <2> HIDE DEF key
  <2>4. AloneEvent(json, T, key, text, ascii)
    BY <2>1, PathOne
  <2>5. AloneIn(json, T, key, text, ascii)
    BY <1>1, <2>2, <2>4, OneTextRead DEF AloneEvent
  <2>6. FindString(json, "type", 1) = {<<T>>} /\ Obtains(FindString(json, key, 1), text, ascii)
    BY <2>5 DEF AloneIn
  <2>7. Content(json, T) = content \/ (lossy /\ Content(json, T) = {})
    BY <1>2, <2>3, <2>6
  <2> QED
    BY <1>3, <2>6, <2>7, Judged DEF content, lossy
<1>6. CASE T = "response.output_text.done"
  <2> DEFINE key == "text"
  <2>1. path = <<key>>
    BY <1>6, CarriersAre
  <2>2. key \in Keys /\ key # "type" /\ key # T
    BY <1>6 DEF Keys
  <2>3. Content(json, T) = FindString(json, key, 1)
    BY <1>6, ContentIs
  <2> HIDE DEF key
  <2>4. AloneEvent(json, T, key, text, ascii)
    BY <2>1, PathOne
  <2>5. AloneIn(json, T, key, text, ascii)
    BY <1>1, <2>2, <2>4, OneTextRead DEF AloneEvent
  <2>6. FindString(json, "type", 1) = {<<T>>} /\ Obtains(FindString(json, key, 1), text, ascii)
    BY <2>5 DEF AloneIn
  <2>7. Content(json, T) = content \/ (lossy /\ Content(json, T) = {})
    BY <1>2, <2>3, <2>6
  <2> QED
    BY <1>3, <2>6, <2>7, Judged DEF content, lossy
<1>7. CASE T = "transcription.completed"
  <2>1. PICK key \in {"transcript", "text"} : path = <<key>>
    BY <1>7, CarriersAre
  <2>2. key \in Keys /\ key # "type" /\ key # T
    BY <1>7 DEF Keys
  <2>3. Content(json, T) = OrElse(FindString(json, "transcript", 1), FindString(json, "text", 1))
    BY <1>7, ContentIs
  <2>4. AloneEvent(json, T, key, text, ascii)
    BY <2>1, PathOne
  <2>5. AloneIn(json, T, key, text, ascii)
    BY <1>1, <2>2, <2>4, OneTextRead DEF AloneEvent
  <2>6. FindString(json, "type", 1) = {<<T>>} /\ Obtains(FindString(json, key, 1), text, ascii)
    BY <2>5 DEF AloneIn
  <2>7. \A other1 \in {"transcript", "text"} : other1 # key => FindString(json, other1, 1) = {}
    <3>1. ASSUME NEW other1 \in {"transcript", "text"}, other1 # key
          PROVE  FindString(json, other1, 1) = {}
      <4>1. other1 \in Keys /\ other1 \notin {"type", T, key}
        BY <1>7, <3>1 DEF Keys
      <4> QED
        BY <2>5, <4>1 DEF AloneIn
    <3> QED
      BY <3>1
  <2>8. Content(json, T) = FindString(json, key, 1)
    <3>1. CASE key = "transcript"
      <4>1. FindString(json, "text", 1) = {}
        BY <2>7, <3>1
      <4> QED
        BY <2>3, <3>1, <4>1 DEF OrElse
    <3>2. CASE key = "text"
      <4>1. FindString(json, "transcript", 1) = {}
        BY <2>7, <3>2
      <4> QED
        BY <2>3, <3>2, <4>1 DEF OrElse
    <3> QED
      BY <3>1, <3>2
  <2>9. Content(json, T) = content \/ (lossy /\ Content(json, T) = {})
    BY <1>2, <2>6, <2>8
  <2> QED
    BY <1>3, <2>6, <2>9, Judged DEF content, lossy
<1>8. CASE T = "session.created"
  <2> DEFINE k1 == "session"
             k2 == "id"
  <2>1. path = <<k1, k2>>
    BY <1>8, CarriersAre
  <2>2. k1 \in Keys /\ k2 \in Keys /\ k1 # "type" /\ k2 \notin {"type", T, k1, "message"}
    BY <1>8 DEF Keys
  <2>3. Content(json, T) = FindInside(json, k1, k2)
    BY <1>8, ContentIs
  <2> HIDE DEF k1, k2
  <2>4. InsideEvent(json, T, k1, k2, text, ascii)
    BY <2>1, PathTwo
  <2>5. InsideOf(json, T, k1, k2, text, ascii)
    BY <1>1, <2>2, <2>4, TwoTextsRead DEF InsideEvent
  <2>6. FindString(json, "type", 1) = {<<T>>} /\ Obtains(FindInside(json, k1, k2), text, ascii)
    BY <2>5 DEF InsideOf
  <2>7. Content(json, T) = content \/ (lossy /\ Content(json, T) = {})
    BY <1>2, <2>3, <2>6
  <2> QED
    BY <1>3, <2>6, <2>7, Judged DEF content, lossy
<1>9. CASE T = "error"
  <2> DEFINE k1 == "error"
             k2 == "code"
             s == "status_code"
  <2>1. path = <<k1, k2>>
    BY <1>9, CarriersAre
  <2>2. /\ k1 \in Keys /\ k2 \in Keys /\ k1 # "type" /\ k2 \notin {"type", T, k1, "message"}
        /\ s \in Keys /\ s \notin {"type", T, k1, "message", k2}
    BY <1>9 DEF Keys
  <2>3. Content(json, T) = OrElse(FindInside(json, k1, k2), OrElse(FindUnsigned(json, s), other))
    BY <1>9, ContentIs
  <2> HIDE DEF k1, k2, s
  <2>4. InsideEvent(json, T, k1, k2, text, ascii)
    BY <2>1, PathTwo
  <2>5. InsideOf(json, T, k1, k2, text, ascii)
    BY <1>1, <2>2, <2>4, TwoTextsRead DEF InsideEvent
  <2>6. FindString(json, "type", 1) = {<<T>>} /\ Obtains(FindInside(json, k1, k2), text, ascii)
        /\ FindUnsigned(json, s) = {}
    BY <2>2, <2>5 DEF InsideOf
  <2>7. Content(json, T) = content \/ (lossy /\ Content(json, T) = other)
    BY <1>2, <1>3, <2>3, <2>6 DEF OrElse
  <2>8. T \notin Essential
    BY <1>9 DEF Essential
  <2> QED
    BY <2>6, <2>7, <2>8, Judged DEF content, lossy
<1> QED
  BY <1>4, <1>5, <1>6, <1>7, <1>8, <1>9

-----------------------------------------------------------------------------
(* All strings of a message.                                               *)

\* What is read from j on ends before n + 2.
EndsIn(found, j, n) ==
  \A r \in found : \E t, a : r = [text |-> t, after |-> a] /\ a \in j + 1 .. n + 1

LEMMA ContinuedEnds ==
  ASSUME NEW found, NEW c, NEW j \in Nat, NEW i \in Nat, i < j, NEW n \in Nat, EndsIn(found, j, n)
  PROVE  EndsIn(Continued(c, found), i, n)
<1>1. ASSUME NEW s \in Continued(c, found)
      PROVE  \E t, a : s = [text |-> t, after |-> a] /\ a \in i + 1 .. n + 1
  <2>1. PICK r \in found : s = [r EXCEPT !.text = <<c>> \o @]
    BY DEF Continued
  <2>2. PICK t, a : r = [text |-> t, after |-> a] /\ a \in j + 1 .. n + 1
    BY DEF EndsIn
  <2>3. s = [text |-> <<c>> \o t, after |-> a]
    BY <2>1, <2>2
  <2>4. a \in i + 1 .. n + 1
    BY <2>2
  <2> QED
    BY <2>3, <2>4
<1> QED
  BY <1>1 DEF EndsIn

\* What is read ends behind where it begins and within the message.
LEMMA RestEnds ==
  ASSUME NEW json \in Seq(Glyph), NEW j \in 1 .. Len(json) + 1
  PROVE  EndsIn(Rest(json)[j], j, Len(json))
<1> DEFINE N == Len(json)
           f == Rest(json)
           S == {k \in 0 .. N + 1 : \A i \in N + 2 - k .. N + 1 : EndsIn(f[i], i, N)}
<1>0. N \in Nat /\ N + 1 \in Nat
  OBVIOUS
<1>1. 0 \in S
  BY <1>0
<1>2. ASSUME NEW k \in 1 .. N + 1, k - 1 \in S
      PROVE  k \in S
  <2> DEFINE m == N + 2 - k
  <2>0. m \in 1 .. N + 1 /\ N + 2 - (k - 1) = m + 1
    BY <1>0
  <2>1. \A i \in m + 1 .. N + 1 : EndsIn(f[i], i, N)
    BY <1>2, <2>0
  <2> HIDE DEF m
  <2>2. EndsIn(f[m], m, N)
    <3>1. f[m] = BodyOf(json, f, m)
      BY <2>0, RestIs
    <3>2. CASE m > Len(json)
      BY <3>1, <3>2 DEF BodyOf, EndsIn
    <3>3. CASE m <= Len(json) /\ json[m] = Quote
      <4>1. f[m] = {[text |-> <<>>, after |-> m + 1]}
        BY <2>0, <3>1, <3>3 DEF BodyOf
      <4>2. m + 1 \in m + 1 .. N + 1
        BY <1>0, <2>0, <3>3
      <4> QED
        BY <4>1, <4>2 DEF EndsIn
    <3>4. CASE m <= Len(json) /\ json[m] # Quote
      <4>1. f[m] = UNION {Continued(read[1], f[read[2]]) : read \in CharAt(json, m)}
        BY <2>0, <3>1, <3>4 DEF BodyOf
      <4>2. ASSUME NEW read \in CharAt(json, m)
            PROVE  EndsIn(Continued(read[1], f[read[2]]), m, N)
        <5>1. m \in 1 .. Len(json)
          BY <2>0, <3>4
        <5>2. read[2] \in m + 1 .. N + 1
          BY <5>1, CharAtWithin
        <5>3. EndsIn(f[read[2]], read[2], N) /\ read[2] \in Nat /\ m < read[2] /\ m \in Nat
          BY <2>0, <2>1, <5>2
        <5> QED
          BY <1>0, <5>3, ContinuedEnds
      <4> QED
        BY <4>1, <4>2 DEF EndsIn
    <3> QED
      BY <1>0, <2>0, <3>2, <3>3, <3>4
  <2>3. \A i \in m .. N + 1 : EndsIn(f[i], i, N)
    <3>1. \A i \in m .. N + 1 : i = m \/ i \in m + 1 .. N + 1
      BY <2>0
    <3> QED
      BY <2>1, <2>2, <3>1
  <2> QED
    BY <2>3 DEF m
<1> HIDE DEF S
<1>3. N + 1 \in S
  <2> DEFINE M == N + 1
  <2>1. M \in Nat /\ \A k \in 1 .. M : k - 1 \in S => k \in S
    BY <1>0, <1>2
  <2> HIDE DEF M
  <2>2. \A k \in 0 .. M : k \in S
    BY <1>1, <2>1, UpTo
  <2> QED
    BY <2>1, <2>2 DEF M
<1>4. N + 2 - (N + 1) = 1
  BY <1>0
<1> QED
  BY <1>3, <1>4 DEF S

StringRead(json, i) == CHOOSE s \in JsonString(json, i) : TRUE

StringsAt(json, f, i) ==
  IF i > Len(json) THEN <<>>
  ELSE IF json[i] # Quote THEN f[i + 1]
  ELSE IF JsonString(json, i) = {} THEN <<"unreadable">>
  ELSE <<StringRead(json, i).text>> \o f[StringRead(json, i).after]

Lists(json, f) == f = [i \in 1 .. Len(json) + 1 |-> StringsAt(json, f, i)]

Listing(json) == CHOOSE f : Lists(json, f)

LEMMA AfterWithin ==
  ASSUME NEW json \in Seq(Glyph), NEW i \in 1 .. Len(json), JsonString(json, i) # {}
  PROVE  StringRead(json, i).after \in i + 1 .. Len(json) + 1
<1> DEFINE r == StringRead(json, i)
<1>1. r \in JsonString(json, i)
  BY DEF StringRead
<1> HIDE DEF r
<1>2. r \in Rest(json)[i + 1]
  BY <1>1, RestIs
<1>3. i + 1 \in 1 .. Len(json) + 1
  OBVIOUS
<1>4. EndsIn(Rest(json)[i + 1], i + 1, Len(json))
  BY <1>3, RestEnds
<1>5. PICK t, a : r = [text |-> t, after |-> a] /\ a \in (i + 1) + 1 .. Len(json) + 1
  BY <1>2, <1>4 DEF EndsIn
<1>6. r.after = a /\ a \in i + 1 .. Len(json) + 1
  BY <1>5
<1> QED
  BY <1>6 DEF r

\* The strings from a place on depend on later places only.
LEMMA SameStrings ==
  ASSUME NEW json \in Seq(Glyph), NEW i \in 1 .. Len(json) + 1, NEW f, NEW g,
         \A j \in i + 1 .. Len(json) + 1 : f[j] = g[j]
  PROVE  StringsAt(json, f, i) = StringsAt(json, g, i)
<1>1. CASE i > Len(json)
  BY <1>1 DEF StringsAt
<1>2. CASE i <= Len(json)
  <2>1. i \in 1 .. Len(json) /\ i + 1 \in i + 1 .. Len(json) + 1
    BY <1>2
  <2>2. f[i + 1] = g[i + 1]
    BY <2>1
  <2>3. JsonString(json, i) # {} => f[StringRead(json, i).after] = g[StringRead(json, i).after]
    BY <2>1, AfterWithin
  <2> QED
    BY <2>2, <2>3 DEF StringsAt
<1> QED
  BY <1>1, <1>2

LEMMA ListingExists ==
  ASSUME NEW json \in Seq(Glyph)
  PROVE  Lists(json, Listing(json))
<1> DEFINE N == Len(json)
           S == {k \in 0 .. N + 1 : \E f : f = [i \in N + 2 - k .. N + 1 |-> StringsAt(json, f, i)]}
<1>0. N \in Nat /\ N + 1 \in Nat
  OBVIOUS
<1>1. 0 \in S
  <2> DEFINE f == [i \in N + 2 - 0 .. N + 1 |-> {}]
  <2>1. N + 2 - 0 .. N + 1 = {}
    BY <1>0
  <2>2. f = [i \in N + 2 - 0 .. N + 1 |-> StringsAt(json, f, i)]
    BY <2>1
  <2> HIDE DEF f
  <2> QED
    BY <1>0, <2>2
<1>2. ASSUME NEW k \in 1 .. N + 1, k - 1 \in S
      PROVE  k \in S
  <2> DEFINE m == N + 2 - k
  <2>0. m \in 1 .. N + 1 /\ N + 2 - (k - 1) = m + 1
    BY <1>0
  <2>1. PICK f : f = [i \in m + 1 .. N + 1 |-> StringsAt(json, f, i)]
    BY <1>2, <2>0
  <2> HIDE DEF m
  <2> DEFINE g == [i \in m .. N + 1 |-> IF i = m THEN StringsAt(json, f, m) ELSE f[i]]
  <2>2. \A i \in m + 1 .. N + 1 : g[i] = f[i] /\ f[i] = StringsAt(json, f, i)
    <3>1. \A i \in m + 1 .. N + 1 : i \in m .. N + 1 /\ i # m
      BY <2>0
    <3> QED
      BY <2>1, <3>1
  <2>3. g[m] = StringsAt(json, f, m)
    BY <2>0
  <2>4. g = [i \in m .. N + 1 |-> g[i]]
    OBVIOUS
  <2> HIDE DEF g
  <2>5. ASSUME NEW i \in m .. N + 1
        PROVE  g[i] = StringsAt(json, g, i)
    <3>1. i \in 1 .. Len(json) + 1 /\ \A j \in i + 1 .. Len(json) + 1 : j \in m + 1 .. N + 1
      BY <2>0
    <3>2. \A j \in i + 1 .. Len(json) + 1 : f[j] = g[j]
      BY <2>2, <3>1
    <3>3. StringsAt(json, f, i) = StringsAt(json, g, i)
      BY <3>1, <3>2, SameStrings
    <3>4. i = m \/ i \in m + 1 .. N + 1
      BY <2>0
    <3> QED
      BY <2>2, <2>3, <3>3, <3>4
  <2>6. g = [i \in m .. N + 1 |-> StringsAt(json, g, i)]
    BY <2>4, <2>5
  <2> QED
    BY <2>6 DEF m
<1> HIDE DEF S
<1>3. N + 1 \in S
  <2> DEFINE M == N + 1
  <2>1. M \in Nat /\ \A k \in 1 .. M : k - 1 \in S => k \in S
    BY <1>0, <1>2
  <2> HIDE DEF M
  <2>2. \A k \in 0 .. M : k \in S
    BY <1>1, <2>1, UpTo
  <2> QED
    BY <2>1, <2>2 DEF M
<1>4. N + 2 - (N + 1) = 1
  BY <1>0
<1>5. \E f : Lists(json, f)
  BY <1>3, <1>4 DEF S, Lists
<1> QED
  BY <1>5 DEF Listing

LEMMA ListingIs ==
  ASSUME NEW json \in Seq(Glyph)
  PROVE  /\ \A i \in 1 .. Len(json) + 1 : Listing(json)[i] = StringsAt(json, Listing(json), i)
         /\ StringsOf(json) = Listing(json)[1]
<1>1. \A i \in 1 .. Len(json) + 1 : Listing(json)[i] = StringsAt(json, Listing(json), i)
  BY ListingExists DEF Lists
<1>2. StringsOf(json) = Listing(json)[1]
  BY Zenon DEF StringsOf, Listing, Lists, StringsAt, StringRead
<1> QED
  BY <1>1, <1>2

-----------------------------------------------------------------------------
(* Strings, read fragment by fragment.                                     *)

TailFrom(w, a) == SubSeq(w, a, Len(w))

\* Whoever has read w from b on behind s has read it from a on with s.
ReadsOn(s, w, a, b) ==
  /\ s \in Seq(Glyph)
  /\ \A json \in Seq(Glyph), p \in Nat :
       Holds(json, s, p) /\ Listing(json)[p + Len(s) + 1] = TailFrom(w, b)
         => Listing(json)[p + 1] = TailFrom(w, a)

\* A character that is no quotation mark adds nothing.
LEMMA ReadsChar ==
  ASSUME NEW c \in Glyph, c # Quote, NEW w, NEW a
  PROVE  ReadsOn(<<c>>, w, a, a)
<1> DEFINE s == <<c>>
<1>1. s \in Seq(Glyph) /\ Len(s) = 1 /\ s[1] = c
  BY Single
<1> HIDE DEF s
<1>2. ASSUME NEW json \in Seq(Glyph), NEW p \in Nat, Holds(json, s, p),
             Listing(json)[p + Len(s) + 1] = TailFrom(w, a)
      PROVE  Listing(json)[p + 1] = TailFrom(w, a)
  <2>1. p + 1 <= Len(json) /\ json[p + 1] = c
    BY <1>1, <1>2 DEF Holds
  <2>2. p + 1 \in 1 .. Len(json) + 1 /\ ~ p + 1 > Len(json) /\ Len(json) \in Nat
    BY <2>1
  <2> DEFINE f == Listing(json)
  <2>3. f[p + 1] = StringsAt(json, f, p + 1)
    BY <2>2, ListingIs
  <2> HIDE DEF f
  <2>4. f[p + 1] = f[(p + 1) + 1]
    BY <2>1, <2>2, <2>3 DEF StringsAt
  <2> QED
    BY <1>1, <1>2, <2>4 DEF f
<1> QED
  BY <1>1, <1>2 DEF ReadsOn, s

\* A quoted text adds itself.
LEMMA ReadsText ==
  ASSUME NEW s, NEW text \in Seq(Glyph), Spelled(s, text, FALSE),
         NEW w \in Seq(Seq(Glyph)), NEW a \in 1 .. Len(w), w[a] = text, NEW b, b = a + 1
  PROVE  ReadsOn(s, w, a, b)
<1>1. s \in Seq(Glyph) /\ Len(s) \in Nat /\ 2 <= Len(s) /\ s[1] = Quote
  BY SpelledFrame DEF Framed
<1>2. ASSUME NEW json \in Seq(Glyph), NEW p \in Nat, Holds(json, s, p),
             Listing(json)[p + Len(s) + 1] = TailFrom(w, b)
      PROVE  Listing(json)[p + 1] = TailFrom(w, a)
  <2> DEFINE after == p + Len(s) + 1
             i == p + 1
             f == Listing(json)
             r == [text |-> text, after |-> after]
  <2>1. json[i] = Quote /\ i \in 1 .. Len(json) + 1 /\ ~ i > Len(json)
    <3>1. p + Len(s) <= Len(json) /\ \A k \in 1 .. Len(s) : json[p + k] = s[k]
      BY <1>2 DEF Holds
    <3>2. 1 \in 1 .. Len(s)
      BY <1>1
    <3>3. json[p + 1] = s[1] /\ Len(json) \in Nat
      BY <3>1, <3>2
    <3> QED
      BY <1>1, <3>1, <3>3
  <2>2. Finds(JsonString(json, i), text, FALSE, after)
    BY <1>2, SpelledRead
  <2>3. ~ Lossy(text, FALSE)
    BY DEF Lossy, Halving
  <2> HIDE DEF after, i, f
  <2>4. JsonString(json, i) = {r}
    BY <2>2, <2>3 DEF Finds, One
  <2>5. StringRead(json, i) = r /\ JsonString(json, i) # {}
    BY <2>4 DEF StringRead
  <2>6. StringRead(json, i).text = text /\ StringRead(json, i).after = after
    BY <2>5
  <2>7. f[i] = StringsAt(json, f, i)
    BY <2>1, ListingIs DEF f
  <2>8. f[i] = <<text>> \o f[after]
    BY <2>1, <2>5, <2>6, <2>7 DEF StringsAt
  <2>9. f[after] = SubSeq(w, a + 1, Len(w))
    BY <1>2 DEF TailFrom, f, after
  <2>10. <<w[a]>> \o SubSeq(w, a + 1, Len(w)) = SubSeq(w, a, Len(w))
    BY TailOf
  <2>11. f[i] = TailFrom(w, a)
    BY <2>8, <2>9, <2>10 DEF TailFrom
  <2> QED
    BY <2>11 DEF f, i
<1> QED
  BY <1>1, <1>2 DEF ReadsOn

\* Two fragments, one behind the other.
LEMMA ReadsJoin ==
  ASSUME NEW s, NEW t, NEW w, NEW a, NEW b, NEW c, ReadsOn(s, w, a, b), ReadsOn(t, w, b, c)
  PROVE  ReadsOn(s \o t, w, a, c)
<1> DEFINE u == s \o t
<1>1. s \in Seq(Glyph) /\ t \in Seq(Glyph)
  BY DEF ReadsOn
<1>2. u \in Seq(Glyph) /\ Len(u) = Len(s) + Len(t)
  BY <1>1, JoinedTo
<1>3. Len(s) \in Nat /\ Len(t) \in Nat
  BY <1>1
<1>4. ASSUME NEW json \in Seq(Glyph), NEW p \in Nat, Holds(json, u, p),
             Listing(json)[p + Len(u) + 1] = TailFrom(w, c)
      PROVE  Listing(json)[p + 1] = TailFrom(w, a)
  <2>1. Holds(json, s, p) /\ p + Len(s) \in Nat /\ Holds(json, t, p + Len(s))
    BY <1>1, <1>4, HoldsParts
  <2> HIDE DEF u
  <2>2. p + Len(u) + 1 = (p + Len(s)) + Len(t) + 1
    BY <1>2, <1>3
  <2>3. Listing(json)[(p + Len(s)) + 1] = TailFrom(w, b)
    BY <1>4, <2>1, <2>2 DEF ReadsOn
  <2> QED
    BY <2>1, <2>3 DEF ReadsOn
<1> QED
  BY <1>2, <1>4 DEF ReadsOn

LEMMA ReadsNamed ==
  ASSUME NEW key, IsKey(key),
         NEW w \in Seq(Seq(Glyph)), NEW a \in 1 .. Len(w), w[a] = <<key>>, NEW b, b = a + 1
  PROVE  ReadsOn(Named(key), w, a, b)
<1> DEFINE text == <<key>>
<1>1. Spelled(Named(key), text, FALSE) /\ text \in Seq(Glyph)
  BY NamedSpelled
<1>2. w[a] = text
  OBVIOUS
<1> HIDE DEF text
<1> QED
  BY <1>1, <1>2, ReadsText

LEMMA ReadsQuoted ==
  ASSUME NEW text \in Seq(Glyph),
         NEW w \in Seq(Seq(Glyph)), NEW a \in 1 .. Len(w), w[a] = text, NEW b, b = a + 1
  PROVE  ReadsOn(Quoted(text), w, a, b)
BY QuotedSpelled, ReadsText

LEMMA ReadsMember ==
  ASSUME NEW key, IsKey(key), NEW v,
         NEW w \in Seq(Seq(Glyph)), NEW a \in 1 .. Len(w), w[a] = <<key>>, NEW b,
         NEW c, b = a + 1, ReadsOn(v, w, b, c)
  PROVE  ReadsOn(Member(key, v), w, a, c)
<1> DEFINE x == Named(key)
           y == <<Colon>>
           z == x \o y
<1>1. ReadsOn(x, w, a, b)
  BY ReadsNamed
<1>2. ReadsOn(y, w, b, b)
  BY MarksAre, ReadsChar
<1>3. Member(key, v) = z \o v
  BY DEF Member, Colon
<1> HIDE DEF x, y
<1>4. ReadsOn(z, w, a, b)
  BY <1>1, <1>2, ReadsJoin
<1> HIDE DEF z
<1> QED
  BY <1>3, <1>4, ReadsJoin

LEMMA ReadsObject ==
  ASSUME NEW m, NEW w, NEW a, NEW b, ReadsOn(m, w, a, b)
  PROVE  ReadsOn(Object(m), w, a, b)
<1> DEFINE x == <<Opening>>
           y == <<Closing>>
           z == x \o m
<1>1. ReadsOn(x, w, a, a) /\ ReadsOn(y, w, b, b)
  BY MarksAre, ReadsChar
<1>2. Object(m) = z \o y
  BY DEF Object, Opening, Closing
<1> HIDE DEF x, y
<1>3. ReadsOn(z, w, a, b)
  BY <1>1, ReadsJoin
<1> HIDE DEF z
<1> QED
  BY <1>1, <1>2, <1>3, ReadsJoin

LEMMA ReadsNext ==
  ASSUME NEW s, NEW t, NEW w, NEW a, NEW b, NEW c, ReadsOn(s, w, a, b), ReadsOn(t, w, b, c)
  PROVE  ReadsOn(s \o Comma \o t, w, a, c)
<1> DEFINE x == Comma
           y == s \o x
<1>1. ReadsOn(x, w, b, b)
  BY MarksAre, ReadsChar DEF Comma, Separator
<1> HIDE DEF x
<1>2. ReadsOn(y, w, a, b)
  BY <1>1, ReadsJoin
<1> HIDE DEF y
<1>3. ReadsOn(y \o t, w, a, c)
  BY <1>2, ReadsJoin
<1> QED
  BY <1>3 DEF x, y

\* A message that has been read from its first character on has these strings.
LEMMA AllRead ==
  ASSUME NEW json, NEW w \in Seq(Seq(Glyph)), NEW b, b = Len(w) + 1, ReadsOn(json, w, 1, b)
  PROVE  StringsOf(json) = w
<1> DEFINE N == Len(json)
           n == Len(w)
<1>1. json \in Seq(Glyph) /\ N \in Nat /\ n \in Nat
  BY DEF ReadsOn
<1>2. Listing(json)[N + 1] = <<>>
  <2>1. N + 1 \in 1 .. N + 1 /\ N + 1 > N
    BY <1>1
  <2> QED
    BY <1>1, <2>1, ListingIs DEF StringsAt
<1>3. TailFrom(w, b) = <<>>
  <2> DEFINE u == SubSeq(w, n + 1, n)
  <2>1. u \in Seq(Seq(Glyph)) /\ Len(u) = n - (n + 1) + 1
    <3>1. n + 1 \in Nat /\ n \in Nat /\ 1 <= n + 1 /\ n + 1 <= n + 1 /\ n <= Len(w)
      BY <1>1
    <3> QED
      BY <3>1, Part
  <2> HIDE DEF u
  <2>2. Len(u) = 0
    BY <1>1, <2>1
  <2>3. u = <<>>
    BY <2>1, <2>2, EmptySeq
  <2> QED
    BY <2>3 DEF u, TailFrom
<1>4. TailFrom(w, 1) = w
  <2> DEFINE u == SubSeq(w, 1, n)
             T == Seq(Glyph)
  <2>1. w \in Seq(T) /\ Len(w) = n
    OBVIOUS
  <2> HIDE DEF T
  <2>2. u \in Seq(T) /\ Len(u) = n - 1 + 1 /\ \A j \in 1 .. n - 1 + 1 : u[j] = w[1 + j - 1]
    <3>1. 1 \in Nat /\ n \in Nat /\ 1 <= 1 /\ 1 <= n + 1 /\ n <= Len(w)
      BY <1>1, <2>1
    <3> HIDE DEF n
    <3> QED
      BY <2>1, <3>1, Part
  <2> HIDE DEF u, n
  <2>3. Len(u) = n /\ \A j \in 1 .. n : u[j] = w[j]
    BY <1>1, <2>2
  <2>4. u = w
    BY <2>1, <2>2, <2>3, SeqEqual
  <2> QED
    BY <2>4 DEF u, n, TailFrom
<1>5. Holds(json, json, 0) /\ 0 \in Nat /\ 0 + N + 1 = N + 1 /\ 0 + 1 = 1
  BY <1>1, HoldsItself
<1>6. Listing(json)[0 + Len(json) + 1] = TailFrom(w, b)
  BY <1>2, <1>3, <1>5
<1> HIDE DEF N, n
<1>7. Listing(json)[0 + 1] = TailFrom(w, 1)
  BY <1>1, <1>5, <1>6 DEF ReadsOn
<1> QED
  BY <1>1, <1>4, <1>5, <1>7, ListingIs

-----------------------------------------------------------------------------
(* The messages of the device.                                             *)

\* beginInput(), commitInput(), muteInput() and close().
LEMMA ControlRead ==
  ASSUME NEW type \in ControlTypes, NEW id \in Seq(Glyph), NEW w,
         w = << <<"type">>, <<type>>, <<"event_id">>, id >>
  PROVE  StringsOf(ControlEvent(type, id)) = w
<1> DEFINE k1 == "type"
           k2 == "event_id"
           t == <<type>>
           u == Quoted(t)
           v == Quoted(id)
           x == Member(k1, u)
           y == Member(k2, v)
           z == x \o Comma \o y
<1>1. IsKey(k1) /\ IsKey(k2) /\ type \in Glyph
  BY KeysAre DEF Keys, IsKey
<1>2. t \in Seq(Glyph)
  BY <1>1, Single
<1>3. Len(w) = 4 /\ w[1] = <<k1>> /\ w[2] = t /\ w[3] = <<k2>> /\ w[4] = id
  OBVIOUS
<1>4. w \in Seq(Seq(Glyph))
  <2>1. <<k1>> \in Seq(Glyph) /\ <<k2>> \in Seq(Glyph)
    BY <1>1, Single DEF IsKey
  <2> DEFINE a1 == <<k1>>
             a3 == <<k2>>
             S == Seq(Glyph)
  <2>2. w = <<a1, t, a3, id>>
    OBVIOUS
  <2>3. a1 \in S /\ t \in S /\ a3 \in S /\ id \in S
    BY <1>2, <2>1
  <2> HIDE DEF a1, t, a3, S
  <2>4. <<a1, t, a3, id>> \in Seq(S)
    BY <2>3
  <2> QED
    BY <2>2, <2>4 DEF S
<1>5. ControlEvent(type, id) = Object(z)
  BY DEF ControlEvent
<1> HIDE DEF k1, k2, t
<1>6. 1 \in 1 .. Len(w) /\ 2 \in 1 .. Len(w) /\ 3 \in 1 .. Len(w) /\ 4 \in 1 .. Len(w) /\ 5 = Len(w) + 1
      /\ 2 = 1 + 1 /\ 3 = 2 + 1 /\ 4 = 3 + 1 /\ 5 = 4 + 1
  BY <1>3
<1>7. ReadsOn(u, w, 2, 3) /\ ReadsOn(v, w, 4, 5)
  BY <1>2, <1>3, <1>4, <1>6, ReadsQuoted
<1> HIDE DEF u, v
<1>8. ReadsOn(x, w, 1, 3) /\ ReadsOn(y, w, 3, 5)
  BY <1>1, <1>3, <1>4, <1>6, <1>7, ReadsMember
<1> HIDE DEF x, y
<1>9. ReadsOn(z, w, 1, 5)
  BY <1>8, ReadsNext
<1> HIDE DEF z
<1>10. ReadsOn(Object(z), w, 1, 5)
  BY <1>9, ReadsObject
<1> QED
  BY <1>4, <1>5, <1>6, <1>10, AllRead

\* The strings that SendSession promises.
SessionStrings(text) ==
  << <<"type">>, <<"session.create">>, <<"event_id">>, text,
     <<"session">>, <<"id">>, text, <<"model">>, <<"1.2.6.1">>,
     <<"instructions">>, text,
     <<"audio">>, <<"input">>, <<"format">>, <<"type">>, <<"pcm">>,
     <<"rate">>, <<"output">>, <<"format">>, <<"type">>,
     <<"pcm_s16le">>, <<"rate">>, <<"voice">>, text >>

LEMMA ListOf24 ==
  ASSUME NEW S, NEW a1 \in S, NEW a2 \in S, NEW a3 \in S, NEW a4 \in S, NEW a5 \in S, NEW a6 \in S, NEW a7 \in S, NEW a8 \in S, NEW a9 \in S, NEW a10 \in S, NEW a11 \in S, NEW a12 \in S, NEW a13 \in S, NEW a14 \in S, NEW a15 \in S, NEW a16 \in S, NEW a17 \in S, NEW a18 \in S, NEW a19 \in S, NEW a20 \in S, NEW a21 \in S, NEW a22 \in S, NEW a23 \in S, NEW a24 \in S,
         NEW w, w = <<a1, a2, a3, a4, a5, a6, a7, a8, a9, a10, a11, a12, a13, a14, a15, a16, a17, a18, a19, a20, a21, a22, a23, a24>>
  PROVE  w \in Seq(S) /\ Len(w) = 24
OBVIOUS

LEMMA SessionStringsAre ==
  ASSUME NEW text \in Seq(Glyph), NEW w, w = SessionStrings(text)
  PROVE  /\ w \in Seq(Seq(Glyph)) /\ Len(w) = 24
         /\ w[1] = <<"type">>
         /\ w[2] = <<"session.create">>
         /\ w[3] = <<"event_id">>
         /\ w[4] = text
         /\ w[5] = <<"session">>
         /\ w[6] = <<"id">>
         /\ w[7] = text
         /\ w[8] = <<"model">>
         /\ w[9] = <<"1.2.6.1">>
         /\ w[10] = <<"instructions">>
         /\ w[11] = text
         /\ w[12] = <<"audio">>
         /\ w[13] = <<"input">>
         /\ w[14] = <<"format">>
         /\ w[15] = <<"type">>
         /\ w[16] = <<"pcm">>
         /\ w[17] = <<"rate">>
         /\ w[18] = <<"output">>
         /\ w[19] = <<"format">>
         /\ w[20] = <<"type">>
         /\ w[21] = <<"pcm_s16le">>
         /\ w[22] = <<"rate">>
         /\ w[23] = <<"voice">>
         /\ w[24] = text
<1>1. /\ w[1] = <<"type">>
      /\ w[2] = <<"session.create">>
      /\ w[3] = <<"event_id">>
      /\ w[4] = text
      /\ w[5] = <<"session">>
      /\ w[6] = <<"id">>
      /\ w[7] = text
      /\ w[8] = <<"model">>
      /\ w[9] = <<"1.2.6.1">>
      /\ w[10] = <<"instructions">>
      /\ w[11] = text
      /\ w[12] = <<"audio">>
      /\ w[13] = <<"input">>
      /\ w[14] = <<"format">>
      /\ w[15] = <<"type">>
      /\ w[16] = <<"pcm">>
      /\ w[17] = <<"rate">>
      /\ w[18] = <<"output">>
      /\ w[19] = <<"format">>
      /\ w[20] = <<"type">>
      /\ w[21] = <<"pcm_s16le">>
      /\ w[22] = <<"rate">>
      /\ w[23] = <<"voice">>
      /\ w[24] = text
  BY DEF SessionStrings
<1>2. \A key \in Keys : <<key>> \in Seq(Glyph)
  BY KeysAre, Single DEF IsKey
<1>3. /\ <<"type">> \in Seq(Glyph)
      /\ <<"session.create">> \in Seq(Glyph)
      /\ <<"event_id">> \in Seq(Glyph)
      /\ <<"session">> \in Seq(Glyph)
      /\ <<"id">> \in Seq(Glyph)
      /\ <<"model">> \in Seq(Glyph)
      /\ <<"1.2.6.1">> \in Seq(Glyph)
      /\ <<"instructions">> \in Seq(Glyph)
      /\ <<"audio">> \in Seq(Glyph)
      /\ <<"input">> \in Seq(Glyph)
      /\ <<"format">> \in Seq(Glyph)
      /\ <<"pcm">> \in Seq(Glyph)
      /\ <<"rate">> \in Seq(Glyph)
      /\ <<"output">> \in Seq(Glyph)
      /\ <<"pcm_s16le">> \in Seq(Glyph)
      /\ <<"voice">> \in Seq(Glyph)
  BY <1>2 DEF Keys
<1> DEFINE S == Seq(Glyph)
           a1 == <<"type">>
           a2 == <<"session.create">>
           a3 == <<"event_id">>
           a4 == text
           a5 == <<"session">>
           a6 == <<"id">>
           a7 == text
           a8 == <<"model">>
           a9 == <<"1.2.6.1">>
           a10 == <<"instructions">>
           a11 == text
           a12 == <<"audio">>
           a13 == <<"input">>
           a14 == <<"format">>
           a15 == <<"type">>
           a16 == <<"pcm">>
           a17 == <<"rate">>
           a18 == <<"output">>
           a19 == <<"format">>
           a20 == <<"type">>
           a21 == <<"pcm_s16le">>
           a22 == <<"rate">>
           a23 == <<"voice">>
           a24 == text
<1>4. /\ a1 \in S
      /\ a2 \in S
      /\ a3 \in S
      /\ a4 \in S
      /\ a5 \in S
      /\ a6 \in S
      /\ a7 \in S
      /\ a8 \in S
      /\ a9 \in S
      /\ a10 \in S
      /\ a11 \in S
      /\ a12 \in S
      /\ a13 \in S
      /\ a14 \in S
      /\ a15 \in S
      /\ a16 \in S
      /\ a17 \in S
      /\ a18 \in S
      /\ a19 \in S
      /\ a20 \in S
      /\ a21 \in S
      /\ a22 \in S
      /\ a23 \in S
      /\ a24 \in S
  BY <1>3
<1>5. w = <<a1, a2, a3, a4, a5, a6, a7, a8, a9, a10, a11, a12, a13, a14, a15, a16, a17, a18, a19, a20, a21, a22, a23, a24>>
  BY DEF SessionStrings
<1> HIDE DEF S, a1, a2, a3, a4, a5, a6, a7, a8, a9, a10, a11, a12, a13, a14, a15, a16, a17, a18, a19, a20, a21, a22, a23, a24
<1>6. w \in Seq(S) /\ Len(w) = 24
  BY <1>4, <1>5, ListOf24
<1> QED
  BY <1>1, <1>6 DEF S

FormatOf(type, rate) ==
  Member("format", Object(Member("type", Named(type)) \o Comma \o Member("rate", <<rate>>)))

\* One of the formats.
LEMMA FormatReads ==
  ASSUME NEW type, IsKey(type), NEW rate \in Glyph, rate # Quote, NEW w \in Seq(Seq(Glyph)),
         NEW a \in Nat \ {0}, a + 3 <= Len(w), w[a] = <<"format">>, w[a + 1] = <<"type">>,
         w[a + 2] = <<type>>, w[a + 3] = <<"rate">>
  PROVE  ReadsOn(FormatOf(type, rate), w, a, a + 4)
<1> DEFINE k1 == "format"
           k2 == "type"
           k3 == "rate"
           s == <<rate>>
           t == Named(type)
           x == Member(k2, t)
           y == Member(k3, s)
           z == x \o Comma \o y
           o == Object(z)
           b == a + 1
           c == a + 2
           d == a + 3
           e == a + 4
<1>1. IsKey(k1) /\ IsKey(k2) /\ IsKey(k3)
  BY KeysAre DEF Keys
<1>2. FormatOf(type, rate) = Member(k1, o)
  BY DEF FormatOf
<1>3. w[a] = <<k1>> /\ w[b] = <<k2>> /\ w[c] = <<type>> /\ w[d] = <<k3>>
  OBVIOUS
<1>4. /\ a \in 1 .. Len(w) /\ b \in 1 .. Len(w) /\ c \in 1 .. Len(w) /\ d \in 1 .. Len(w)
      /\ b = a + 1 /\ c = b + 1 /\ d = c + 1 /\ e = d + 1
  OBVIOUS
<1> HIDE DEF k1, k2, k3, b, c, d, e
<1>5. ReadsOn(s, w, e, e)
  BY ReadsChar
<1>6. ReadsOn(t, w, c, d)
  BY <1>3, <1>4, ReadsNamed
<1> HIDE DEF s, t
<1>7. ReadsOn(x, w, b, d) /\ ReadsOn(y, w, d, e)
  BY <1>1, <1>3, <1>4, <1>5, <1>6, ReadsMember
<1> HIDE DEF x, y
<1>8. ReadsOn(z, w, b, e)
  BY <1>7, ReadsNext
<1> HIDE DEF z
<1>9. ReadsOn(o, w, b, e)
  BY <1>8, ReadsObject
<1> HIDE DEF o
<1>10. ReadsOn(Member(k1, o), w, a, e)
  BY <1>1, <1>3, <1>4, <1>9, ReadsMember
<1> QED
  BY <1>2, <1>10 DEF e

\* session.create, whose three free texts and identifier are the ones given.
LEMMA SessionRead ==
  ASSUME NEW text \in Seq(Glyph)
  PROVE  StringsOf(SessionCreate([id |-> text, instructions |-> text, voice |-> text], text))
           = SessionStrings(text)
<1> DEFINE w == SessionStrings(text)
           json == SessionCreate([id |-> text, instructions |-> text, voice |-> text], text)
           q == Quoted(text)
           k1 == "type"
           k2 == "session.create"
           k3 == "event_id"
           k4 == "session"
           k5 == "id"
           k6 == "model"
           k7 == "1.2.6.1"
           k8 == "instructions"
           k9 == "audio"
           k10 == "input"
           k11 == "format"
           k12 == "pcm"
           k13 == "rate"
           k14 == "output"
           k15 == "pcm_s16le"
           k16 == "voice"
           f1 == FormatOf(k12, "16000")
           f2 == FormatOf(k15, "24000")
           o1 == Object(f1)
           m1 == Member(k10, o1)
           m2 == Member(k16, q)
           p1 == f2 \o Comma \o m2
           o2 == Object(p1)
           m3 == Member(k14, o2)
           p2 == m1 \o Comma \o m3
           o3 == Object(p2)
           m4 == Member(k9, o3)
           m5 == Member(k8, q)
           n1 == Named(k7)
           m6 == Member(k6, n1)
           m7 == Member(k5, q)
           p3 == m7 \o Comma \o m6
           p4 == p3 \o Comma \o m5
           p5 == p4 \o Comma \o m4
           o4 == Object(p5)
           m8 == Member(k4, o4)
           m9 == Member(k3, q)
           n2 == Named(k2)
           m10 == Member(k1, n2)
           p6 == m10 \o Comma \o m9
           p7 == p6 \o Comma \o m8
<1>1. json = Object(p7)
  BY Zenon DEF SessionCreate, FormatOf
<1>2. /\ w \in Seq(Seq(Glyph)) /\ Len(w) = 24
      /\ w[1] = <<k1>>
      /\ w[2] = <<k2>>
      /\ w[3] = <<k3>>
      /\ w[4] = text
      /\ w[5] = <<k4>>
      /\ w[6] = <<k5>>
      /\ w[7] = text
      /\ w[8] = <<k6>>
      /\ w[9] = <<k7>>
      /\ w[10] = <<k8>>
      /\ w[11] = text
      /\ w[12] = <<k9>>
      /\ w[13] = <<k10>>
      /\ w[14] = <<k11>>
      /\ w[15] = <<k1>>
      /\ w[16] = <<k12>>
      /\ w[17] = <<k13>>
      /\ w[18] = <<k14>>
      /\ w[19] = <<k11>>
      /\ w[20] = <<k1>>
      /\ w[21] = <<k15>>
      /\ w[22] = <<k13>>
      /\ w[23] = <<k16>>
      /\ w[24] = text
  BY SessionStringsAre
<1>3. /\ IsKey(k1)
      /\ IsKey(k2)
      /\ IsKey(k3)
      /\ IsKey(k4)
      /\ IsKey(k5)
      /\ IsKey(k6)
      /\ IsKey(k7)
      /\ IsKey(k8)
      /\ IsKey(k9)
      /\ IsKey(k10)
      /\ IsKey(k11)
      /\ IsKey(k12)
      /\ IsKey(k13)
      /\ IsKey(k14)
      /\ IsKey(k15)
      /\ IsKey(k16)
  BY KeysAre DEF Keys
<1>4. w[14] = <<"format">> /\ w[15] = <<"type">> /\ w[17] = <<"rate">>
      /\ w[19] = <<"format">> /\ w[20] = <<"type">> /\ w[22] = <<"rate">>
  BY <1>2
<1> HIDE DEF w, k1, k2, k3, k4, k5, k6, k7, k8, k9, k10, k11, k12, k13, k14, k15, k16
<1>5. \A i \in 1 .. 24 : i \in 1 .. Len(w)
  BY <1>2
<1>6. /\ 1 \in 1 .. Len(w) /\ 2 = 1 + 1
      /\ 2 \in 1 .. Len(w) /\ 3 = 2 + 1
      /\ 3 \in 1 .. Len(w) /\ 4 = 3 + 1
      /\ 4 \in 1 .. Len(w) /\ 5 = 4 + 1
      /\ 5 \in 1 .. Len(w) /\ 6 = 5 + 1
      /\ 6 \in 1 .. Len(w) /\ 7 = 6 + 1
      /\ 7 \in 1 .. Len(w) /\ 8 = 7 + 1
      /\ 8 \in 1 .. Len(w) /\ 9 = 8 + 1
      /\ 9 \in 1 .. Len(w) /\ 10 = 9 + 1
      /\ 10 \in 1 .. Len(w) /\ 11 = 10 + 1
      /\ 11 \in 1 .. Len(w) /\ 12 = 11 + 1
      /\ 12 \in 1 .. Len(w) /\ 13 = 12 + 1
      /\ 13 \in 1 .. Len(w) /\ 14 = 13 + 1
      /\ 14 \in 1 .. Len(w) /\ 15 = 14 + 1
      /\ 15 \in 1 .. Len(w) /\ 16 = 15 + 1
      /\ 16 \in 1 .. Len(w) /\ 17 = 16 + 1
      /\ 17 \in 1 .. Len(w) /\ 18 = 17 + 1
      /\ 18 \in 1 .. Len(w) /\ 19 = 18 + 1
      /\ 19 \in 1 .. Len(w) /\ 20 = 19 + 1
      /\ 20 \in 1 .. Len(w) /\ 21 = 20 + 1
      /\ 21 \in 1 .. Len(w) /\ 22 = 21 + 1
      /\ 22 \in 1 .. Len(w) /\ 23 = 22 + 1
      /\ 23 \in 1 .. Len(w) /\ 24 = 23 + 1
      /\ 24 \in 1 .. Len(w) /\ 25 = 24 + 1
  BY <1>2
<1>7. ReadsOn(f1, w, 14, 18)
  <2>1. "16000" \in Glyph /\ "16000" # Quote
    BY DEF Glyph, Quote
  <2>2. 14 + 1 = 15 /\ 14 + 2 = 16 /\ 14 + 3 = 17 /\ 14 + 4 = 18 /\ 14 \in Nat \ {0} /\ 17 <= Len(w)
    BY <1>2
  <2> QED
    BY <1>2, <1>3, <1>4, <2>1, <2>2, FormatReads, ZenonT(60)
<1>8. ReadsOn(f2, w, 19, 23)
  <2>1. "24000" \in Glyph /\ "24000" # Quote
    BY DEF Glyph, Quote
  <2>2. 19 + 1 = 20 /\ 19 + 2 = 21 /\ 19 + 3 = 22 /\ 19 + 4 = 23 /\ 19 \in Nat \ {0} /\ 22 <= Len(w)
    BY <1>2
  <2> QED
    BY <1>2, <1>3, <1>4, <2>1, <2>2, FormatReads, ZenonT(60)
<1> HIDE DEF f1, f2
<1>9. ReadsOn(q, w, 4, 5) /\ ReadsOn(q, w, 7, 8) /\ ReadsOn(q, w, 11, 12) /\ ReadsOn(q, w, 24, 25)
  BY <1>2, <1>6, ReadsQuoted
<1>10. ReadsOn(n1, w, 9, 10) /\ ReadsOn(n2, w, 2, 3)
  BY <1>2, <1>3, <1>6, ReadsNamed
<1> HIDE DEF q, n1, n2
<1>11. ReadsOn(o1, w, 14, 18)
  BY <1>7, ReadsObject
<1> HIDE DEF o1
<1>12. ReadsOn(m1, w, 13, 18)
  BY <1>2, <1>3, <1>6, <1>11, ReadsMember
<1> HIDE DEF m1
<1>13. ReadsOn(m2, w, 23, 25)
  BY <1>2, <1>3, <1>6, <1>9, ReadsMember
<1> HIDE DEF m2
<1>14. ReadsOn(p1, w, 19, 25)
  BY <1>8, <1>13, ReadsNext
<1> HIDE DEF p1
<1>15. ReadsOn(o2, w, 19, 25)
  BY <1>14, ReadsObject
<1> HIDE DEF o2
<1>16. ReadsOn(m3, w, 18, 25)
  BY <1>2, <1>3, <1>6, <1>15, ReadsMember
<1> HIDE DEF m3
<1>17. ReadsOn(p2, w, 13, 25)
  BY <1>12, <1>16, ReadsNext
<1> HIDE DEF p2
<1>18. ReadsOn(o3, w, 13, 25)
  BY <1>17, ReadsObject
<1> HIDE DEF o3
<1>19. ReadsOn(m4, w, 12, 25)
  BY <1>2, <1>3, <1>6, <1>18, ReadsMember
<1> HIDE DEF m4
<1>20. ReadsOn(m5, w, 10, 12)
  BY <1>2, <1>3, <1>6, <1>9, ReadsMember
<1> HIDE DEF m5
<1>21. ReadsOn(m6, w, 8, 10)
  BY <1>2, <1>3, <1>6, <1>10, ReadsMember
<1> HIDE DEF m6
<1>22. ReadsOn(m7, w, 6, 8)
  BY <1>2, <1>3, <1>6, <1>9, ReadsMember
<1> HIDE DEF m7
<1>23. ReadsOn(p3, w, 6, 10)
  BY <1>22, <1>21, ReadsNext
<1> HIDE DEF p3
<1>24. ReadsOn(p4, w, 6, 12)
  BY <1>23, <1>20, ReadsNext
<1> HIDE DEF p4
<1>25. ReadsOn(p5, w, 6, 25)
  BY <1>24, <1>19, ReadsNext
<1> HIDE DEF p5
<1>26. ReadsOn(o4, w, 6, 25)
  BY <1>25, ReadsObject
<1> HIDE DEF o4
<1>27. ReadsOn(m8, w, 5, 25)
  BY <1>2, <1>3, <1>6, <1>26, ReadsMember
<1> HIDE DEF m8
<1>28. ReadsOn(m9, w, 3, 5)
  BY <1>2, <1>3, <1>6, <1>9, ReadsMember
<1> HIDE DEF m9
<1>29. ReadsOn(m10, w, 1, 3)
  BY <1>2, <1>3, <1>6, <1>10, ReadsMember
<1> HIDE DEF m10
<1>30. ReadsOn(p6, w, 1, 5)
  BY <1>29, <1>28, ReadsNext
<1> HIDE DEF p6
<1>31. ReadsOn(p7, w, 1, 25)
  BY <1>30, <1>27, ReadsNext
<1> HIDE DEF p7
<1>32. ReadsOn(Object(p7), w, 1, 25)
  BY <1>31, ReadsObject
<1>33. 25 = Len(w) + 1
  BY <1>2
<1> HIDE DEF json
<1> QED
  BY <1>1, <1>2, <1>32, <1>33, AllRead DEF json, w

-----------------------------------------------------------------------------
(* Every behaviour.                                                        *)

\* A text that may have been cut, and has other characters only where they are
\* not of the alphabet.
Derived(text, pcm) ==
  /\ text \in Seq(Char) /\ Len(text) <= Len(EncodeBase64(pcm))
  /\ \A k \in 1 .. Len(text) :
       text[k] = EncodeBase64(pcm)[k] \/ text[k] \notin Symbol

\* A text in which one character may have become another.
Altered(text, pcm) ==
  /\ text \in Seq(Char) /\ Len(text) = Len(EncodeBase64(pcm))
  /\ \E i \in 1 .. Len(text) :
       /\ text[i] \in Symbol
       /\ \A k \in 1 .. Len(text) : k # i => text[k] = EncodeBase64(pcm)[k]

\* What the harms to the text of audio leave of it.
Harmed(text, pcm, harm) ==
  /\ harm = "none" => text = EncodeBase64(pcm)
  /\ harm # "altered" => Derived(text, pcm)
  /\ harm = "altered" => Altered(text, pcm)

\* What the harms to the packet of a configuration leave of it.
Damaged(c, wire, harm, volume) ==
  /\ wire \in Seq(Byte)
  /\ harm = "none" => wire = Encode(c)
  /\ harm = "swapped" =>
       \E f, g \in Fields : wire = Packet(Ordered(c, Swapped(f, g)))
  /\ harm \in {"cut", "extended", "repeated", "omitted"} => ~ Accepted(wire)
  /\ harm = "volume" =>
       /\ volume \in Seq(Byte)
       /\ wire = Packet([FieldsOf(c) EXCEPT ![Volume] = Field(Volume, volume)])

ConfigRecord(i, c, wire, harm, volume) ==
  i = [kind |-> "config", config |-> c, wire |-> wire, harm |-> harm,
       volume |-> volume]
ConfigOf(i, c, wire, harm, volume) ==
  ConfigRecord(i, c, wire, harm, volume) /\ Damaged(c, wire, harm, volume)

ConfigItem == \E c \in Configs : \E w, h, v : ConfigOf(item, c, w, h, v)
AudioItem ==
  \E pcm \in Pcms : \E text, h :
    /\ item = [kind |-> "audio", pcm |-> pcm, text |-> text, harm |-> h]
    /\ Harmed(text, pcm, h)
PlayItem ==
  \E pcm \in Pcms, v \in Volumes :
    item = [kind |-> "play", pcm |-> pcm, volume |-> v, out |-> ScalePcm(pcm, v)]
CaptureItem ==
  \E words \in Words :
    item = [kind |-> "capture", words |-> words, pcm |-> Pcm16(words)]
FrameItem ==
  \E n \in Lengths, masked \in BOOLEAN :
    item = [kind |-> "frame", length |-> n, masked |-> masked,
            bytes |-> LengthBytes(n, masked)]

\* What is sent, with what a reader is to find in it.
ControlSent(i) ==
  \E type \in ControlTypes, id \in Phrases :
    i = [kind |-> "message", json |-> ControlEvent(type, id),
         strings |-> << <<"type">>, <<type>>, <<"event_id">>, id >>]
SessionSent(i) ==
  \E text \in Phrases :
    i = [kind |-> "message",
         json |-> SessionCreate([id |-> text, instructions |-> text, voice |-> text], text),
         strings |-> SessionStrings(text)]
HasContent(i, type, path, text, ascii) ==
  \E json : /\ i = [kind |-> "event", type |-> type, content |-> {text},
                    lossy |-> Lossy(text, ascii), json |-> json]
            /\ ContentEvent(json, type, path, text, ascii)
ContentSent(i) ==
  \E type \in EventTypes : \E path \in Carriers(type), text \in Phrases, ascii \in BOOLEAN :
    HasContent(i, type, path, text, ascii)
BareSent(i) ==
  \E type \in EventTypes \cup {"future"} :
    /\ Carriers(type) = {}
    /\ i = [kind |-> "event", type |-> type, content |-> {}, lossy |-> FALSE,
            json |-> BareOf(type)]
HasStatus(i, digits, text) ==
  \E json : /\ i = [kind |-> "event", type |-> "error", content |-> {digits},
                    lossy |-> Len(digits) > 9, json |-> json]
            /\ StatusEvent(json, text, digits)
StatusSent(i) == \E digits \in StatusCodes, text \in Phrases : HasStatus(i, digits, text)
Sent(i) == \/ ControlSent(i) \/ SessionSent(i)
           \/ ContentSent(i) \/ BareSent(i) \/ StatusSent(i)

Message == item.kind \in {"message", "event"} /\ Sent(item)

Form == \/ item = None \/ ConfigItem \/ AudioItem
        \/ PlayItem \/ CaptureItem \/ FrameItem \/ Message

LEMMA FormInit == Init => Form
BY DEF Init, Form

LEMMA EncodedItem ==
  ASSUME NEW c \in Configs, EncodeConfig(c)
  PROVE  ConfigItem'
<1>1. item' = [kind |-> "config", config |-> c, wire |-> Encode(c), harm |-> "none",
               volume |-> <<>>]
  BY DEF EncodeConfig, Start
<1>2. Encode(c) \in Seq(Byte)
  <2>1. IsConfig(c)
    BY InputsAssumption
  <2> QED
    BY <2>1, ConfigPacket
<1>3. Damaged(c, Encode(c), "none", <<>>)
  BY <1>2 DEF Damaged
<1> QED
  BY <1>1, <1>3 DEF ConfigItem, ConfigOf, ConfigRecord

\* What a harm finds.
Found(c, w) ==
  /\ c \in Configs /\ IsConfig(c) /\ w = Encode(c) /\ Short(w)
  /\ item.config = c /\ item.wire = w
  /\ ConfigRecord(item, c, w, "none", item.volume)

LEMMA IntactItem ==
  ASSUME Form, Intact
  PROVE  \E c, w : Found(c, w)
<1>1. ConfigItem
  BY DEF Intact, Form, None, Message, AudioItem, PlayItem, CaptureItem, FrameItem
<1>2. PICK c \in Configs : \E w, h, v : ConfigOf(item, c, w, h, v)
  BY <1>1 DEF ConfigItem
<1>3. PICK w, h, v : ConfigOf(item, c, w, h, v)
  BY <1>2
<1>4. item = [kind |-> "config", config |-> c, wire |-> w, harm |-> h, volume |-> v]
  BY <1>3 DEF ConfigOf, ConfigRecord
<1>5. h = "none"
  BY <1>4 DEF Intact
<1>6. IsConfig(c)
  BY InputsAssumption
<1>7. w = Encode(c)
  BY <1>3, <1>5 DEF ConfigOf, Damaged
<1>8. Len(w) \in Nat
  BY <1>6, <1>7, ConfigPacket
<1>9. Len(w) <= MaxHarmed
  BY <1>4 DEF Intact
<1>10. Short(w)
  BY <1>8, <1>9, InputsAssumption, SMT DEF Short
<1>11. item.config = c /\ item.wire = w /\ item.volume = v
  BY <1>4
<1>12. ConfigRecord(item, c, w, "none", item.volume)
  BY <1>3, <1>5, <1>11 DEF ConfigOf
<1>13. Found(c, w)
  BY <1>6, <1>7, <1>10, <1>11, <1>12 DEF Found
<1> QED
  BY <1>13

\* What a harm makes of it.
Rewires(j, i, wire, harm) == j = [i EXCEPT !.wire = wire, !.harm = harm]
Revolumes(j, i, wire, volume) ==
  j = [i EXCEPT !.harm = "volume", !.volume = volume, !.wire = wire]

LEMMA Rewritten ==
  ASSUME NEW i, NEW j, NEW c, NEW w, NEW v, ConfigRecord(i, c, w, "none", v),
         NEW wire
  PROVE  /\ \A harm : Rewires(j, i, wire, harm) => ConfigRecord(j, c, wire, harm, v)
         /\ \A volume : Revolumes(j, i, wire, volume)
                         => ConfigRecord(j, c, wire, "volume", volume)
BY DEF ConfigRecord, Rewires, Revolumes

LEMMA HarmedItem ==
  ASSUME NEW c, NEW w, Found(c, w), NEW h, NEW new, Harm(h, new),
         Damaged(c, new, h, item.volume)
  PROVE  ConfigItem'
<1>1. Rewires(item', item, new, h)
  BY DEF Harm, Rewires
<1>2. ConfigRecord(item, c, w, "none", item.volume) /\ c \in Configs
  BY DEF Found
<1>3. ConfigRecord(item', c, new, h, item.volume)
  BY <1>1, <1>2, Rewritten
<1> QED
  BY <1>2, <1>3 DEF ConfigItem, ConfigOf

LEMMA HarmStep ==
  ASSUME Form,
         CutWire \/ ExtendWire \/ AlterWire \/ SwapFields \/ RepeatField \/ OmitField
  PROVE  ConfigItem'
<1>1. Intact
  BY DEF CutWire, ExtendWire, AlterWire, SwapFields, RepeatField, OmitField
<1>2. PICK c, w : Found(c, w)
  BY <1>1, IntactItem
<1>3. /\ IsConfig(c) /\ w = Encode(c) /\ Short(w)
      /\ item.config = c /\ item.wire = w
  BY <1>2 DEF Found
<1>4. w \in Seq(Byte)
  BY <1>3, ConfigPacket
<1>5. CASE CutWire
  <2>1. PICK n \in 0 .. Len(w) - 1 : Harm("cut", SubSeq(w, 1, n))
    BY <1>3, <1>5 DEF CutWire
  <2>2. SubSeq(w, 1, n) \in Seq(Byte) /\ ~ Accepted(SubSeq(w, 1, n))
    BY <1>3, <2>1, CutIsRefused
  <2>3. Damaged(c, SubSeq(w, 1, n), "cut", item.volume)
    BY <2>2 DEF Damaged
  <2> QED
    BY <1>2, <2>1, <2>3, HarmedItem
<1>6. CASE ExtendWire
  <2>1. PICK b \in SomeBytes : Harm("extended", Append(w, b))
    BY <1>3, <1>6 DEF ExtendWire
  <2>2. b \in Byte
    BY InputsAssumption
  <2>3. Append(w, b) \in Seq(Byte) /\ ~ Accepted(Append(w, b))
    BY <1>3, <2>2, ExtendedIsRefused
  <2>4. Damaged(c, Append(w, b), "extended", item.volume)
    BY <2>3 DEF Damaged
  <2> QED
    BY <1>2, <2>1, <2>4, HarmedItem
<1>7. CASE AlterWire
  <2>1. PICK i \in DOMAIN w, b \in SomeBytes : Harm("altered", [w EXCEPT ![i] = b])
    BY <1>3, <1>7 DEF AlterWire
  <2>2. b \in Byte
    BY InputsAssumption
  <2>3. [w EXCEPT ![i] = b] \in Seq(Byte)
    BY <1>4, <2>1, <2>2
  <2>4. Damaged(c, [w EXCEPT ![i] = b], "altered", item.volume)
    BY <2>3 DEF Damaged
  <2> QED
    BY <1>2, <2>1, <2>4, HarmedItem
<1>8. CASE SwapFields
  <2>1. PICK f \in Fields, g \in Fields :
          Harm("swapped", Packet([FieldsOf(c) EXCEPT ![f] = FieldsOf(c)[g],
                                                     ![g] = FieldsOf(c)[f]]))
    BY <1>3, <1>8 DEF SwapFields
  <2> DEFINE new == Packet(Ordered(c, Swapped(f, g)))
  <2>2. Packet([FieldsOf(c) EXCEPT ![f] = FieldsOf(c)[g], ![g] = FieldsOf(c)[f]]) = new
    BY <1>3, FieldsInOrder
  <2>3. Harm("swapped", new)
    BY <2>1, <2>2
  <2>4. Permutation(Swapped(f, g))
    BY SwappedPermutes
  <2>5. new \in Seq(Byte)
    BY <1>3, <2>4, SentInOrder
  <2>6. \E x, y \in Fields : new = Packet(Ordered(c, Swapped(x, y)))
    OBVIOUS
  <2> HIDE DEF new
  <2>7. Damaged(c, new, "swapped", item.volume)
    BY <2>5, <2>6 DEF Damaged
  <2> QED
    BY <1>2, <2>3, <2>7, HarmedItem
<1>9. CASE RepeatField
  <2>1. PICK f \in Fields : Harm("repeated", Packet(Append(FieldsOf(c), FieldsOf(c)[f])))
    BY <1>3, <1>9 DEF RepeatField
  <2> DEFINE new == Packet(Append(FieldsOf(c), FieldsOf(c)[f]))
  <2>2. new \in Seq(Byte) /\ ~ Accepted(new)
    BY <1>3, RepeatedIsRefused
  <2> HIDE DEF new
  <2>3. Damaged(c, new, "repeated", item.volume)
    BY <2>2 DEF Damaged
  <2>4. Harm("repeated", new)
    BY <2>1 DEF new
  <2> QED
    BY <1>2, <2>3, <2>4, HarmedItem
<1>10. CASE OmitField
  <2>1. PICK f \in Fields : Harm("omitted", Packet(RemoveAt(FieldsOf(c), f)))
    BY <1>3, <1>10 DEF OmitField
  <2> DEFINE new == Packet(RemoveAt(FieldsOf(c), f))
  <2>2. new \in Seq(Byte) /\ ~ Accepted(new)
    BY <1>3, OmittedIsRefused
  <2> HIDE DEF new
  <2>3. Damaged(c, new, "omitted", item.volume)
    BY <2>2 DEF Damaged
  <2>4. Harm("omitted", new)
    BY <2>1 DEF new
  <2> QED
    BY <1>2, <2>3, <2>4, HarmedItem
<1> QED
  BY <1>5, <1>6, <1>7, <1>8, <1>9, <1>10

LEMMA WrittenItem ==
  ASSUME Form, NEW t \in VolumeTexts, WriteVolume(t)
  PROVE  ConfigItem'
<1>1. PICK c, w : Found(c, w)
  BY IntactItem DEF WriteVolume
<1>2. c \in Configs /\ IsConfig(c) /\ item.config = c
  BY <1>1 DEF Found
<1> DEFINE new == Packet([FieldsOf(c) EXCEPT ![Volume] = Field(Volume, t)])
<1>3. Revolumes(item', item, new, t)
  BY <1>2 DEF WriteVolume, Revolumes
<1>4. t \in Seq(Byte)
  BY InputsAssumption
<1>5. new \in Seq(Byte)
  BY <1>2, <1>4, VolumeIsRead
<1>6. Damaged(c, new, "volume", t)
  BY <1>4, <1>5 DEF Damaged
<1> HIDE DEF new
<1>7. ConfigRecord(item, c, w, "none", item.volume)
  BY <1>1 DEF Found
<1>8. ConfigRecord(item', c, new, "volume", t)
  BY <1>3, <1>7, Rewritten
<1> QED
  BY <1>2, <1>6, <1>8 DEF ConfigItem, ConfigOf

LEMMA FormStep == Form /\ [Next]_vars => Form'
<1> SUFFICES ASSUME Form, [Next]_vars
             PROVE  Form'
  OBVIOUS
<1>1. ASSUME NEW c \in Configs, EncodeConfig(c)
      PROVE  Form'
  BY <1>1, EncodedItem DEF Form
<1>3. ASSUME NEW t \in VolumeTexts, WriteVolume(t)
      PROVE  Form'
  BY <1>3, WrittenItem DEF Form
<1>4. ASSUME NEW pcm \in Pcms, EncodeAudio(pcm)
      PROVE  Form'
  <2>1. pcm \in Seq(Byte)
    BY InputsAssumption
  <2>2. Harmed(EncodeBase64(pcm), pcm, "none")
    BY <2>1, EncodedWhole DEF Harmed, Derived
  <2>3. AudioItem'
    BY <1>4, <2>2 DEF EncodeAudio, Start, AudioItem
  <2> QED BY <2>3 DEF Form
<1>5. ASSUME NEW how, NEW text, HarmText(how, text),
             \A pcm \in Pcms : item.text = EncodeBase64(pcm) => Harmed(text, pcm, how)
      PROVE  Form'
  <2>1. AudioItem /\ item.harm = "none"
    BY <1>5 DEF HarmText, Form, None, Message, ConfigItem, ConfigOf, ConfigRecord,
                PlayItem, CaptureItem, FrameItem
  <2>2. PICK pcm \in Pcms :
          \E old, h : /\ item = [kind |-> "audio", pcm |-> pcm, text |-> old, harm |-> h]
                      /\ Harmed(old, pcm, h)
    BY <2>1 DEF AudioItem
  <2>3. PICK old, h : /\ item = [kind |-> "audio", pcm |-> pcm, text |-> old, harm |-> h]
                      /\ Harmed(old, pcm, h)
    BY <2>2
  <2>4. item' = [kind |-> "audio", pcm |-> pcm, text |-> text, harm |-> how]
    BY <1>5, <2>3 DEF HarmText
  <2>5. item.text = EncodeBase64(pcm)
    BY <2>1, <2>3 DEF Harmed
  <2>6. Harmed(text, pcm, how)
    BY <1>5, <2>5
  <2>7. AudioItem'
    BY <2>4, <2>6 DEF AudioItem
  <2> QED BY <2>7 DEF Form
<1>6. ASSUME CutText
      PROVE  Form'
  <2>1. PICK n \in 0 .. Len(item.text) - 1 : HarmText("cut", SubSeq(item.text, 1, n))
    BY <1>6 DEF CutText
  <2>2. ASSUME NEW pcm \in Pcms, item.text = EncodeBase64(pcm)
        PROVE  Harmed(SubSeq(item.text, 1, n), pcm, "cut")
    <3>1. item.text \in Seq(Char)
      BY <2>2, InputsAssumption, EncodedWhole
    <3>2. /\ SubSeq(item.text, 1, n) \in Seq(Char) /\ Len(SubSeq(item.text, 1, n)) = n
          /\ \A k \in 1 .. n : SubSeq(item.text, 1, n)[k] = item.text[k]
      BY <2>1, <3>1
    <3>3. n <= Len(EncodeBase64(pcm))
      BY <2>1, <2>2, <3>1
    <3>4. Derived(SubSeq(item.text, 1, n), pcm)
      BY <2>2, <3>2, <3>3 DEF Derived
    <3> QED BY <3>4 DEF Harmed
  <2> QED BY <1>5, <2>1, <2>2
<1>7. ASSUME DamageText \/ AlterText
      PROVE  Form'
  <2>1. ASSUME NEW i \in DOMAIN item.text, NEW c \in Char, NEW pcm \in Pcms,
               item.text = EncodeBase64(pcm)
        PROVE  /\ [item.text EXCEPT ![i] = c] \in Seq(Char) /\ i \in 1 .. Len(item.text)
               /\ Len([item.text EXCEPT ![i] = c]) = Len(EncodeBase64(pcm))
               /\ \A k \in 1 .. Len(EncodeBase64(pcm)) :
                    [item.text EXCEPT ![i] = c][k] = IF k = i THEN c ELSE EncodeBase64(pcm)[k]
    <3>1. item.text \in Seq(Char)
      BY <2>1, InputsAssumption, EncodedWhole
    <3> QED BY <2>1, <3>1
  <2>2. CASE DamageText
    <3>1. PICK i \in DOMAIN item.text, c \in {Pad, Alien} :
            HarmText("damaged", [item.text EXCEPT ![i] = c])
      BY <2>2 DEF DamageText
    <3>2. c \in Char /\ c \notin Symbol
      BY <3>1 DEF Pad, Alien, Char, Symbol
    <3>3. ASSUME NEW pcm \in Pcms, item.text = EncodeBase64(pcm)
          PROVE  Harmed([item.text EXCEPT ![i] = c], pcm, "damaged")
      <4>1. Len(EncodeBase64(pcm)) \in Nat
        BY DEF EncodeBase64
      <4>2. Derived([item.text EXCEPT ![i] = c], pcm)
        BY <2>1, <3>2, <3>3, <4>1 DEF Derived
      <4> QED BY <4>2 DEF Harmed
    <3> QED BY <1>5, <3>1, <3>3
  <2>3. CASE AlterText
    <3>1. PICK i \in DOMAIN item.text, c \in SomeSymbols :
            HarmText("altered", [item.text EXCEPT ![i] = c])
      BY <2>3 DEF AlterText
    <3>2. c \in Char /\ c \in Symbol
      BY InputsAssumption DEF Char
    <3>3. ASSUME NEW pcm \in Pcms, item.text = EncodeBase64(pcm)
          PROVE  Harmed([item.text EXCEPT ![i] = c], pcm, "altered")
      <4> DEFINE new == [item.text EXCEPT ![i] = c]
      <4>1. /\ new \in Seq(Char) /\ i \in 1 .. Len(item.text)
            /\ Len(new) = Len(EncodeBase64(pcm))
            /\ \A k \in 1 .. Len(EncodeBase64(pcm)) :
                 new[k] = IF k = i THEN c ELSE EncodeBase64(pcm)[k]
        BY <2>1, <3>2, <3>3
      <4> HIDE DEF new
      <4>2. Altered(new, pcm)
        BY <3>2, <3>3, <4>1 DEF Altered
      <4> QED BY <4>2 DEF Harmed, new
    <3> QED BY <1>5, <3>1, <3>3
  <2> QED BY <1>7, <2>2, <2>3
<1>8. ASSUME NEW pcm \in Pcms, NEW v \in Volumes, Play(pcm, v)
      PROVE  Form'
  BY <1>8 DEF Play, Start, Form, PlayItem
<1>9. ASSUME NEW words \in Words, Capture(words)
      PROVE  Form'
  BY <1>9 DEF Capture, Start, Form, CaptureItem
<1>10. ASSUME NEW n \in Lengths, NEW masked \in BOOLEAN, FrameOf(n, masked)
       PROVE  Form'
  BY <1>10 DEF FrameOf, Start, Form, FrameItem
<1>11. CASE Done
  BY <1>11 DEF Done, Form
<1>12. CASE UNCHANGED vars
  <2>1. item' = item
    BY <1>12 DEF vars
  <2>2. Message => Message'
    BY <2>1 DEF Message, Sent, ControlSent, SessionSent, ContentSent, HasContent,
                BareSent, StatusSent, HasStatus
  <2>3. ConfigItem \/ AudioItem \/ PlayItem \/ CaptureItem \/ FrameItem \/ item = None => Form'
    BY <2>1 DEF Form, ConfigItem, AudioItem, PlayItem, CaptureItem, FrameItem
  <2> QED
    BY <2>2, <2>3 DEF Form
<1>13. CutWire \/ ExtendWire \/ AlterWire \/ SwapFields \/ RepeatField \/ OmitField
       => Form'
  BY HarmStep DEF Form
<1>14. ASSUME NEW type \in ControlTypes, NEW id \in Phrases, SendControl(type, id)
       PROVE  Form'
  <2>1. ControlSent(item') /\ item'.kind = "message"
    BY <1>14 DEF SendControl, Start, ControlSent
  <2> QED
    BY <2>1 DEF Form, Message, Sent
<1>15. ASSUME NEW text \in Phrases, SendSession(text)
       PROVE  Form'
  <2>1. item' = [kind |-> "message",
                 json |-> SessionCreate([id |-> text, instructions |-> text, voice |-> text],
                                        text),
                 strings |-> SessionStrings(text)]
    BY <1>15, Zenon DEF SendSession, Start, SessionStrings
  <2>2. SessionSent(item') /\ item'.kind = "message"
    BY <2>1 DEF SessionSent
  <2> QED
    BY <2>2 DEF Form, Message, Sent
<1>16. ASSUME NEW type \in EventTypes, NEW path \in Carriers(type), NEW text \in Phrases,
              NEW ascii \in BOOLEAN, SendContent(type, path, text, ascii)
       PROVE  Form'
  <2>1. \E json : /\ item' = [kind |-> "event", type |-> type, content |-> {text},
                              lossy |-> ascii /\ \E i \in DOMAIN text : text[i] \in DOMAIN Beyond,
                              json |-> json]
                  /\ ContentEvent(json, type, path, text, ascii)
    BY <1>16, Zenon DEF SendContent, Start, ContentEvent
  <2>2. (ascii /\ \E i \in DOMAIN text : text[i] \in DOMAIN Beyond) = Lossy(text, ascii)
    <3>1. DOMAIN text = 1 .. Len(text)
      BY InputsAssumption
    <3> QED
      BY <3>1, Zenon DEF Lossy, Halving
  <2>3. HasContent(item', type, path, text, ascii)
    BY <2>1, <2>2, Zenon DEF HasContent
  <2>4. ContentSent(item')
    BY <2>3, Zenon DEF ContentSent
  <2>5. item'.kind = "event"
    BY <2>1
  <2> QED
    BY <2>4, <2>5 DEF Form, Message, Sent
<1>17. ASSUME NEW type \in EventTypes \cup {"future"}, Carriers(type) = {}, SendBare(type)
       PROVE  Form'
  <2>1. item' = [kind |-> "event", type |-> type, content |-> {}, lossy |-> FALSE,
                 json |-> BareOf(type)]
    BY <1>17 DEF SendBare, Start, BareOf
  <2>2. BareSent(item') /\ item'.kind = "event"
    BY <1>17, <2>1 DEF BareSent
  <2> QED
    BY <2>2 DEF Form, Message, Sent
<1>18. ASSUME NEW digits \in StatusCodes, NEW text \in Phrases, SendStatus(digits, text)
       PROVE  Form'
  <2>1. \E json : /\ item' = [kind |-> "event", type |-> "error", content |-> {digits},
                              lossy |-> Len(digits) > 9, json |-> json]
                  /\ json = ServerEvent("error",
                               Comma \o Member("message", ServerString(text, FALSE))
                                 \o Comma \o Member("status_code", digits))
    BY <1>18, Zenon DEF SendStatus, Start
  <2>2. StatusSent(item')
    BY <2>1, Zenon DEF StatusSent, HasStatus, StatusEvent, StatusOf
  <2>3. item'.kind = "event"
    BY <2>1
  <2> QED
    BY <2>2, <2>3 DEF Form, Message, Sent
<1> QED BY <1>1, <1>3, <1>4, <1>6, <1>7, <1>8, <1>9, <1>10, <1>11, <1>12, <1>13,
           <1>14, <1>15, <1>16, <1>17, <1>18 DEF Next

LEMMA FormAlways == Spec => []Form
BY FormInit, FormStep, PTL DEF Spec

-----------------------------------------------------------------------------

\* createHeader(), sendFrame() and handleWebsocketCb(): whatever the length, it
\* is read as it was written and the header takes the room it was given.
THEOREM FramesAlwaysAgree == Spec => []FramesAgree
<1>1. Form => FramesAgree
  <2> SUFFICES ASSUME Form, item.kind = "frame"
               PROVE  FramesAgree
    BY DEF FramesAgree
  <2>1. PICK n \in Lengths, masked \in BOOLEAN :
          item = [kind |-> "frame", length |-> n, masked |-> masked,
                  bytes |-> LengthBytes(n, masked)]
    BY DEF Form, None, Message, ConfigItem, ConfigOf, ConfigRecord, AudioItem, PlayItem, CaptureItem, FrameItem
  <2>2. /\ item.length = n /\ item.masked = masked
        /\ item.bytes = LengthBytes(n, masked)
    BY <2>1
  <2>3. n \in Nat /\ n \div 65536 < 65536
    BY InputsAssumption
  <2> QED BY <2>2, <2>3, FrameLength DEF FramesAgree
<1> QED BY <1>1, FormAlways, PTL

LEMMA PlayInputs ==
  ASSUME NEW pcm \in Pcms, NEW v \in Volumes
  PROVE  pcm \in Seq(Byte) /\ v \in Int /\ 0 <= v /\ v <= 100
<1>1. Pcms \subseteq Seq(Byte)
  BY InputsAssumption
<1>2. Volumes \subseteq 0 .. 100
  BY InputsAssumption
<1> QED
  BY <1>1, <1>2

\* scalePcm16Le() and convertI2s32ToPcm16Le(): at every volume, no sample of any
\* audio becomes louder or changes its sign, and every word of the microphone
\* becomes its upper half, sign included.
THEOREM SamplesAlwaysKept == Spec => []SamplesKept
<1>1. Form /\ item.kind = "play" => PlaysSafely
  <2> SUFFICES ASSUME Form, item.kind = "play"
               PROVE  PlaysSafely
    OBVIOUS
  <2>1. PICK pcm \in Pcms, v \in Volumes :
          item = [kind |-> "play", pcm |-> pcm, volume |-> v, out |-> ScalePcm(pcm, v)]
    BY DEF Form, None, Message, ConfigItem, ConfigOf, ConfigRecord, AudioItem, PlayItem, CaptureItem, FrameItem
  <2>2. item.pcm = pcm /\ item.volume = v /\ item.out = ScalePcm(pcm, v)
    BY <2>1
  <2>3. pcm \in Seq(Byte) /\ v \in Int /\ 0 <= v /\ v <= 100
    BY PlayInputs
  <2>4. Len(ScalePcm(pcm, v)) = Len(pcm)
    BY <2>3 DEF ScalePcm
  <2> QED BY <2>2, <2>3, <2>4, PlayedSafely DEF PlaysSafely
<1>2. Form /\ item.kind = "capture" => CapturesSigned
  <2> SUFFICES ASSUME Form, item.kind = "capture"
               PROVE  CapturesSigned
    OBVIOUS
  <2>1. PICK words \in Words :
          item = [kind |-> "capture", words |-> words, pcm |-> Pcm16(words)]
    BY DEF Form, None, Message, ConfigItem, ConfigOf, ConfigRecord, AudioItem, PlayItem, CaptureItem, FrameItem
  <2>2. item.words = words /\ item.pcm = Pcm16(words)
    BY <2>1
  <2>3. words \in Seq(Word)
    BY InputsAssumption
  <2>4. Len(Pcm16(words)) = 2 * Len(words)
    BY <2>3 DEF Pcm16
  <2>5. ASSUME NEW i \in DOMAIN words
        PROVE  /\ words[i] \in Word
               /\ Pcm16(words)[2 * i - 1] = words[i][3]
               /\ Pcm16(words)[2 * i] = words[i][4]
    <3>1. /\ i \in 1 .. Len(words) /\ words[i] \in Word
          /\ 2 * i - 1 \in 1 .. 2 * Len(words) /\ 2 * i \in 1 .. 2 * Len(words)
      BY <2>3
    <3>2. i \in Int
      BY <2>3
    <3>3. /\ (2 * i - 1 + 1) \div 2 = i /\ (2 * i + 1) \div 2 = i
          /\ (2 * i - 1) % 2 = 1 /\ (2 * i) % 2 = 0
      BY <3>2
    <3> QED BY <3>1, <3>3 DEF Pcm16
  <2> QED BY <2>2, <2>4, <2>5, CaptureSigned DEF CapturesSigned
<1>3. Form => SamplesKept
  BY <1>1, <1>2 DEF SamplesKept
<1> QED BY <1>3, FormAlways, PTL

\* How much is decoded of a text that is well formed.
LEMMA DecodedLength ==
  ASSUME NEW text \in Seq(Char), WellFormed(text)
  PROVE  LET size == 3 * (Len(text) \div 4) - Padding(text)
         IN  /\ size \in Nat /\ Len(DecodeBase64(text)) = size
             /\ DOMAIN DecodeBase64(text) = 1 .. size
<1>1. Padding(text) \in 0 .. 2 /\ Len(text) % 4 = 0 /\ Len(text) \in Nat
  BY WellFormedText
<1>2. Len(text) = 0 => Padding(text) = 0
  BY DEF Padding
<1>3. 3 * (Len(text) \div 4) - Padding(text) \in Nat
  BY <1>1, <1>2
<1> QED
  BY <1>3 DEF DecodeBase64

\* Where no character became another letter, no byte became another.
LEMMA DerivedDecoded ==
  ASSUME NEW pcm \in Seq(Byte), NEW text, Derived(text, pcm), WellFormed(text)
  PROVE  IsPrefix(DecodeBase64(text), pcm)
<1> DEFINE decoded == DecodeBase64(text)
           size    == 3 * (Len(text) \div 4) - Padding(text)
<1>1. \A j \in 1 .. size : j <= Len(pcm) /\ decoded[j] = pcm[j]
  <2>1. ASSUME NEW j \in 1 .. size
        PROVE  Kept(text, pcm, (j - 1) \div 3)
    BY DEF Derived, Kept
  <2> QED
    BY <2>1, DecodedByte DEF Derived
<1>2. size \in Nat /\ Len(decoded) = size /\ DOMAIN decoded = 1 .. size
  BY DecodedLength DEF Derived
<1>3. size <= Len(pcm)
  BY <1>1, <1>2
<1> HIDE DEF decoded, size
<1>4. SubSeq(decoded, 1, size) = SubSeq(pcm, 1, size)
  BY <1>1, <1>2, <1>3
<1> QED
  BY <1>2, <1>3, <1>4 DEF IsPrefix, decoded

\* A letter in the place of another character adds one byte at most.
LEMMA AlteredLength ==
  ASSUME NEW pcm \in Seq(Byte), NEW text, Altered(text, pcm), WellFormed(text)
  PROVE  Len(DecodeBase64(text)) - Len(pcm) \in {0, 1}
<1> DEFINE sent == EncodeBase64(pcm)
<1>1. /\ sent \in Seq(Char) /\ WellFormed(sent)
      /\ 3 * (Len(sent) \div 4) - Padding(sent) = Len(pcm)
  BY EncodedWhole
<1>2. text \in Seq(Char) /\ Len(text) = Len(sent)
  BY DEF Altered
<1>3. Len(DecodeBase64(text)) = 3 * (Len(sent) \div 4) - Padding(text)
  BY <1>2, DecodedLength
<1> HIDE DEF sent
<1>4. PICK i \in 1 .. Len(text) :
        /\ text[i] \in Symbol
        /\ \A k \in 1 .. Len(text) : k # i => text[k] = sent[k]
  BY DEF Altered, sent
<1>5. PICK n \in Nat : n = Len(text) /\ n = Len(sent) /\ n >= 4 /\ n % 4 = 0
  BY <1>2, <1>4 DEF WellFormed
<1>6. text[i] # Pad
  <2>1. Pad \notin Symbol
    BY DEF Symbol, Pad
  <2> QED BY <1>4, <2>1
<1>7. text # <<>> /\ sent # <<>>
  BY <1>1, <1>2, <1>5
<1>8. /\ Padding(text) = IF text[n] # Pad THEN 0 ELSE IF text[n - 1] = Pad THEN 2 ELSE 1
      /\ Padding(sent) = IF sent[n] # Pad THEN 0 ELSE IF sent[n - 1] = Pad THEN 2 ELSE 1
  BY <1>5, <1>7 DEF Padding
<1>9. text[n - 1] = Pad => text[n] = Pad
  <2>1. n - 1 \in 1 .. Len(text) /\ n - 1 # n /\ n - 1 + 1 = n
    BY <1>5
  <2>2. Pad \notin Symbol
    BY DEF Pad, Symbol
  <2> QED BY <1>5, <2>1, <2>2 DEF WellFormed
<1>10. Padding(sent) - Padding(text) \in {0, 1}
  <2>1. n \in 1 .. Len(text) /\ n - 1 \in 1 .. Len(text) /\ n # n - 1
    BY <1>5
  <2>2. CASE i = n
    <3>1. text[n - 1] = sent[n - 1]
      BY <1>4, <2>1, <2>2
    <3> QED BY <1>6, <1>8, <1>9, <2>2, <3>1
  <2>3. CASE i = n - 1
    <3>1. text[n] = sent[n]
      BY <1>4, <2>1, <2>3
    <3> QED BY <1>6, <1>8, <2>3, <3>1
  <2>4. CASE i # n /\ i # n - 1
    <3>1. text[n] = sent[n] /\ text[n - 1] = sent[n - 1]
      BY <1>4, <2>1, <2>4
    <3> QED BY <1>8, <3>1
  <2> QED BY <2>2, <2>3, <2>4
<1>11. Padding(text) \in Int /\ Padding(sent) \in Int
  BY <1>8
<1>12. Len(sent) \div 4 \in Int
  BY <1>5
<1> QED
  BY <1>1, <1>3, <1>10, <1>11, <1>12

\* The bytes of the groups that the letter is not of are those of the audio.
LEMMA AlteredDecoded ==
  ASSUME NEW pcm \in Seq(Byte), NEW text, Altered(text, pcm), WellFormed(text)
  PROVE  \E g \in 0 .. Len(pcm) : OnlyGroup(DecodeBase64(text), pcm, g)
<1>1. text \in Seq(Char) /\ Len(text) = Len(EncodeBase64(pcm))
  BY DEF Altered
<1>2. PICK i \in 1 .. Len(text) :
        \A k \in 1 .. Len(text) : k # i => text[k] = EncodeBase64(pcm)[k]
  BY DEF Altered
<1>3. PICK g : g = (i - 1) \div 4
  OBVIOUS
<1>4. g \in 0 .. Len(pcm)
  <2>1. Len(EncodeBase64(pcm)) = 4 * ((Len(pcm) + 2) \div 3)
    BY DEF EncodeBase64
  <2> QED BY <1>1, <1>2, <1>3, <2>1
<1> DEFINE size == 3 * (Len(text) \div 4) - Padding(text)
<1>5. Len(DecodeBase64(text)) = size
  BY <1>1, DecodedLength
<1>6. ASSUME NEW j \in 1 .. size, (j - 1) \div 3 # g
      PROVE  j <= Len(pcm) /\ DecodeBase64(text)[j] = pcm[j]
  <2>1. Kept(text, pcm, (j - 1) \div 3)
    <3>1. ASSUME NEW k \in 1 .. Len(text), (k - 1) \div 4 = (j - 1) \div 3
          PROVE  text[k] = EncodeBase64(pcm)[k]
      <4>1. k # i
        BY <1>3, <1>6, <3>1
      <4> QED BY <1>2, <4>1
    <3> QED BY <3>1 DEF Kept
  <2>2. Len(text) <= Len(EncodeBase64(pcm))
    BY <1>1
  <2> QED BY <1>1, <2>1, <2>2, DecodedByte
<1>7. OnlyGroup(DecodeBase64(text), pcm, g)
  BY <1>5, <1>6 DEF OnlyGroup
<1> QED
  BY <1>4, <1>7

\* encodeBase64() and decodeBase64(): all audio arrives; of text that was cut or
\* has a character outside the alphabet nothing is taken but a beginning of it;
\* and a letter that became another, which passes, changes no byte outside of its
\* group and adds one at most.
THEOREM AudioAlwaysArrives == Spec => []AudioArrives
<1>1. Form => AudioArrives
  <2> SUFFICES ASSUME Form, item.kind = "audio"
               PROVE  AudioArrives
    BY DEF AudioArrives
  <2>1. AudioItem
    BY DEF Form, None, Message, ConfigItem, ConfigOf, ConfigRecord, PlayItem, CaptureItem,
           FrameItem
  <2>2. PICK pcm \in Pcms :
          \E text, h :
            /\ item = [kind |-> "audio", pcm |-> pcm, text |-> text, harm |-> h]
            /\ Harmed(text, pcm, h)
    BY <2>1 DEF AudioItem
  <2>3. PICK text, h :
          /\ item = [kind |-> "audio", pcm |-> pcm, text |-> text, harm |-> h]
          /\ Harmed(text, pcm, h)
    BY <2>2
  <2>4. item.pcm = pcm /\ item.text = text /\ item.harm = h
    BY <2>3
  <2>5. pcm \in Seq(Byte) /\ Len(pcm) \in Nat
    BY InputsAssumption
  <2>6. h # "altered" /\ WellFormed(text) => IsPrefix(DecodeBase64(text), pcm)
    BY <2>3, <2>5, DerivedDecoded DEF Harmed
  <2>7. h = "altered" /\ WellFormed(text) =>
          /\ Len(DecodeBase64(text)) - Len(pcm) \in {0, 1}
          /\ \E g \in 0 .. Len(pcm) : OnlyGroup(DecodeBase64(text), pcm, g)
    BY <2>3, <2>5, AlteredLength, AlteredDecoded DEF Harmed
  <2>8. h = "none" => WellFormed(text) /\ DecodeBase64(text) = pcm
    <3> SUFFICES ASSUME h = "none"
                 PROVE  WellFormed(text) /\ DecodeBase64(text) = pcm
      OBVIOUS
    <3>1. text = EncodeBase64(pcm) /\ Derived(text, pcm)
      BY <2>3 DEF Harmed
    <3> DEFINE decoded == DecodeBase64(text)
               size    == 3 * (Len(text) \div 4) - Padding(text)
    <3>2. WellFormed(text) /\ text \in Seq(Char) /\ size = Len(pcm)
      BY <2>5, <3>1, EncodedWhole
    <3>3. DOMAIN decoded = 1 .. size
      BY <3>2, DecodedLength
    <3>4. \A j \in 1 .. size : decoded[j] = pcm[j]
      <4>1. ASSUME NEW j \in 1 .. size
            PROVE  Kept(text, pcm, (j - 1) \div 3)
        BY <3>1 DEF Derived, Kept
      <4>2. Len(text) <= Len(EncodeBase64(pcm))
        BY <3>1 DEF Derived
      <4> QED
        BY <2>5, <3>2, <4>1, <4>2, DecodedByte
    <3>5. decoded = [j \in 1 .. size |-> decoded[j]]
      BY DEF DecodeBase64
    <3>6. pcm = [j \in 1 .. Len(pcm) |-> pcm[j]]
      BY <2>5
    <3> HIDE DEF decoded, size
    <3>7. decoded = pcm
      BY <3>2, <3>4, <3>5, <3>6
    <3> QED BY <3>2, <3>7 DEF decoded
  <2> QED BY <2>4, <2>6, <2>7, <2>8 DEF AudioArrives
<1> QED BY <1>1, FormAlways, PTL

\* What is known of a configuration that is on its way.
LEMMA ConfigOnItsWay ==
  ASSUME Form, item.kind = "config"
  PROVE  \E c, w, h, v :
           /\ IsConfig(c) /\ Damaged(c, w, h, v)
           /\ item.config = c /\ item.wire = w /\ item.harm = h /\ item.volume = v
<1>1. ConfigItem
  BY DEF Form, None, Message, AudioItem, PlayItem, CaptureItem, FrameItem
<1>2. PICK c \in Configs : \E w, h, v : ConfigOf(item, c, w, h, v)
  BY <1>1 DEF ConfigItem
<1>3. PICK w, h, v : ConfigOf(item, c, w, h, v)
  BY <1>2
<1>4. IsConfig(c)
  BY InputsAssumption
<1> QED
  BY <1>3, <1>4 DEF ConfigOf, ConfigRecord

\* encodeDeviceConfigWire() and decodeDeviceConfigWire(): whatever the texts of
\* a configuration, it is accepted exactly if it is valid and fits, in whatever
\* order its fields come, and is then the one that was sent; and whatever
\* another program wrote for the volume, what is accepted is the number it
\* wrote.
THEOREM ConfigurationsArrive == Spec => []ConfigArrives
<1>1. Form => ConfigArrives
  <2> SUFFICES ASSUME Form, item.kind = "config"
               PROVE  ConfigArrives
    BY DEF ConfigArrives
  <2>1. PICK c, w, h, v :
          /\ IsConfig(c) /\ Damaged(c, w, h, v)
          /\ item.config = c /\ item.wire = w /\ item.harm = h /\ item.volume = v
    BY ConfigOnItsWay
  <2>2. ASSUME h \in {"none", "swapped"}
        PROVE  /\ Accepted(w) <=> Valid(c) /\ Len(w) <= MaxWireBytes
               /\ Accepted(w) => Decode(w).read = c
    <3>1. h = "none" => w = Packet(Ordered(c, InOrder)) /\ Permutation(InOrder)
      BY <2>1, FieldsInOrder, InOrderPermutes DEF Damaged
    <3>2. h = "swapped" => \E ids : w = Packet(Ordered(c, ids)) /\ Permutation(ids)
      <4> SUFFICES ASSUME h = "swapped"
                   PROVE  \E ids : w = Packet(Ordered(c, ids)) /\ Permutation(ids)
        OBVIOUS
      <4>1. PICK f \in Fields, g \in Fields : w = Packet(Ordered(c, Swapped(f, g)))
        BY <2>1 DEF Damaged
      <4>2. Permutation(Swapped(f, g))
        BY SwappedPermutes
      <4> QED
        BY <4>1, <4>2
    <3>3. PICK ids : w = Packet(Ordered(c, ids)) /\ Permutation(ids)
      BY <2>2, <3>1, <3>2
    <3> QED
      BY <2>1, <3>3, SentInOrder
  <2>3. ASSUME h = "volume", Accepted(w)
        PROVE  IsNumber(v) /\ Decode(w).read[Volume] = NumberIn(v)
    <3>1. /\ v \in Seq(Byte)
          /\ w = Packet([FieldsOf(c) EXCEPT ![Volume] = Field(Volume, v)])
      BY <2>1, <2>3 DEF Damaged
    <3> QED
      BY <2>1, <2>3, <3>1, VolumeIsRead
  <2> QED
    BY <2>1, <2>2, <2>3 DEF ConfigArrives
<1> QED BY <1>1, FormAlways, PTL

\* decodeDeviceConfigWire(): no packet that was cut or extended, or in which a
\* field is there twice or not at all, is accepted; and whatever wrong byte is
\* anywhere in it, what is accepted is a valid configuration, which is accepted
\* again when the device stores it, and takes no more room than it came in.
THEOREM DamageIsNoticed == Spec => []DamageNoticed
<1>1. Form => DamageNoticed
  <2> SUFFICES ASSUME Form, item.kind = "config", Accepted(item.wire)
               PROVE  DamageNoticed
    BY DEF DamageNoticed
  <2>1. PICK c, w, h, v :
          /\ IsConfig(c) /\ Damaged(c, w, h, v)
          /\ item.config = c /\ item.wire = w /\ item.harm = h /\ item.volume = v
    BY ConfigOnItsWay
  <2>2. w \in Seq(Byte) /\ Accepted(w)
    BY <2>1 DEF Damaged
  <2>3. h \notin {"cut", "extended", "repeated", "omitted"}
    BY <2>1, <2>2 DEF Damaged
  <2>4. LET config == Decode(w).read
        IN  /\ Valid(config) /\ Decode(Encode(config)).read = config
            /\ Len(Encode(config)) <= Len(w)
    BY <2>2, StoredAgain
  <2> QED
    BY <2>1, <2>3, <2>4 DEF DamageNoticed
<1> QED BY <1>1, FormAlways, PTL

\* json_string.h and realtime_voice_protocol.h: whatever characters the free
\* texts have and however long they are, the strings of a message that the
\* device sends are those that were put there; of an event that the server
\* sends the type is known, and its content is found where it belongs, be the
\* name it has there also in a text, or it is missing, which happens only to a
\* text with a character in two halves and to a status of ten digits or more.
THEOREM MessagesAreRead == Spec => []MessagesRead
<1>1. ASSUME NEW text \in Phrases
      PROVE  text \in Seq(Glyph)
  <2>1. text \in Seq(STRING)
    BY InputsAssumption
  <2>2. STRING \subseteq Glyph
    BY Zenon DEF Glyph
  <2> QED
    BY <2>1, <2>2, Wider, Zenon
<1>2. ControlSent(item) \/ SessionSent(item)
        => item.kind = "message" /\ StringsOf(item.json) = item.strings
  <2>1. ASSUME NEW type \in ControlTypes, NEW id \in Phrases
        PROVE  StringsOf(ControlEvent(type, id))
                 = << <<"type">>, <<type>>, <<"event_id">>, id >>
    BY <1>1, ControlRead
  <2>2. ASSUME NEW text \in Phrases
        PROVE  StringsOf(SessionCreate([id |-> text, instructions |-> text, voice |-> text],
                                       text))
                 = SessionStrings(text)
    BY <1>1, SessionRead
  <2>3. CASE ControlSent(item)
    BY <2>1, <2>3 DEF ControlSent
  <2>4. CASE SessionSent(item)
    BY <2>2, <2>4 DEF SessionSent
  <2> QED
    BY <2>3, <2>4
<1> DEFINE Right(i) == i.kind = "event" /\ Understood(i.json, i.type, i.content, i.lossy)
<1>3. ASSUME NEW i, ContentSent(i)
      PROVE  Right(i)
  <2>1. PICK type \in EventTypes : \E path \in Carriers(type), text \in Phrases,
                                       ascii \in BOOLEAN : HasContent(i, type, path, text, ascii)
    BY <1>3, Zenon DEF ContentSent
  <2>2. PICK path \in Carriers(type), text \in Phrases, ascii \in BOOLEAN :
          HasContent(i, type, path, text, ascii)
    BY <2>1, Zenon
  <2>3. PICK json : /\ i = [kind |-> "event", type |-> type, content |-> {text},
                            lossy |-> Lossy(text, ascii), json |-> json]
                    /\ ContentEvent(json, type, path, text, ascii)
    BY <2>2, Zenon DEF HasContent
  <2>4. Understood(json, type, {text}, Lossy(text, ascii))
    BY <1>1, <2>3, ContentRead
  <2>5. /\ i.kind = "event" /\ i.json = json /\ i.type = type /\ i.content = {text}
        /\ i.lossy = Lossy(text, ascii)
    BY <2>3
  <2> QED
    BY <2>4, <2>5, Zenon
<1>4. ASSUME NEW i, BareSent(i)
      PROVE  Right(i)
  <2>1. PICK type \in EventTypes \cup {"future"} :
          /\ Carriers(type) = {}
          /\ i = [kind |-> "event", type |-> type, content |-> {}, lossy |-> FALSE,
                  json |-> BareOf(type)]
    BY <1>4, Zenon DEF BareSent
  <2>2. Understood(BareOf(type), type, {}, FALSE)
    BY <2>1, BareRead
  <2>3. /\ i.kind = "event" /\ i.json = BareOf(type) /\ i.type = type /\ i.content = {}
        /\ i.lossy = FALSE
    BY <2>1
  <2> QED
    BY <2>2, <2>3, Zenon
<1>5. ASSUME NEW i, StatusSent(i)
      PROVE  Right(i)
  <2>1. PICK digits \in StatusCodes, text \in Phrases : HasStatus(i, digits, text)
    BY <1>5, Zenon DEF StatusSent
  <2>3. PICK json : /\ i = [kind |-> "event", type |-> "error", content |-> {digits},
                            lossy |-> Len(digits) > 9, json |-> json]
                    /\ StatusEvent(json, text, digits)
    BY <2>1, Zenon DEF HasStatus
  <2>2. digits \in Seq(DigitKinds) /\ digits # <<>> /\ LeadsWell(digits)
    BY InputsAssumption DEF DigitKinds, LeadsWell
  <2>4. Understood(json, "error", {digits}, Len(digits) > 9)
    BY <1>1, <2>2, <2>3, StatusRead
  <2>5. /\ i.kind = "event" /\ i.json = json /\ i.type = "error" /\ i.content = {digits}
        /\ i.lossy = (Len(digits) > 9)
    BY <2>3
  <2> QED
    BY <2>4, <2>5, Zenon
<1>6. Right(item) => MessagesRead
  BY DEF MessagesRead, Understood
<1>7. Form => MessagesRead
  <2>1. CASE Message
    <3>1. Right(item) => MessagesRead
      BY <1>6
    <3>2. item.kind = "message" /\ StringsOf(item.json) = item.strings => MessagesRead
      BY DEF MessagesRead
    <3> HIDE DEF Right
    <3> QED
      BY <1>2, <1>3, <1>4, <1>5, <2>1, <3>1, <3>2 DEF Message, Sent
  <2>2. CASE ~ Message
    BY <2>2 DEF Form, MessagesRead, None, ConfigItem, ConfigOf, ConfigRecord, AudioItem,
                PlayItem, CaptureItem, FrameItem
  <2> QED
    BY <2>1, <2>2
<1> QED
  BY <1>7, FormAlways, PTL
=============================================================================
