----------------------- MODULE ContentTransferProofs -----------------------
(***************************************************************************)
(* Contents arrive whatever their length and however they are cut, and no  *)
(* buffer is exceeded.                                                     *)
(***************************************************************************)
EXTENDS ContentTransfer, TLAPS

-----------------------------------------------------------------------------
(***************************************************************************)
(* Sequences.                                                              *)
(***************************************************************************)

Upto(s, n) == SubSeq(s, 1, n)

LEMMA UptoProperties ==
    ASSUME NEW S, NEW s \in Seq(S), NEW n \in 0 .. Len(s)
    PROVE  /\ Upto(s, n) \in Seq(S)
           /\ Len(Upto(s, n)) = n
           /\ \A i \in 1 .. n : Upto(s, n)[i] = s[i]
PROOF BY DEF Upto

LEMMA UptoAll ==
    ASSUME NEW S, NEW s \in Seq(S)
    PROVE  Upto(s, Len(s)) = s
PROOF BY DEF Upto

LEMMA UptoUpto ==
    ASSUME NEW S, NEW s \in Seq(S), NEW n \in 0 .. Len(s), NEW k \in 0 .. n
    PROVE  SubSeq(Upto(s, n), 1, k) = Upto(s, k)
PROOF BY DEF Upto

LEMMA UptoAppend ==
    ASSUME NEW S, NEW s \in Seq(S), NEW n \in 0 .. Len(s), n < Len(s)
    PROVE  Append(Upto(s, n), s[n + 1]) = Upto(s, n + 1)
PROOF BY DEF Upto

LEMMA UptoThree ==
    ASSUME NEW S, NEW s \in Seq(S), NEW n \in 0 .. Len(s), n + 3 <= Len(s)
    PROVE  Upto(s, n) \o <<s[n + 1], s[n + 2], s[n + 3]>> = Upto(s, n + 3)
PROOF BY DEF Upto

LEMMA UptoTwo ==
    ASSUME NEW S, NEW s \in Seq(S), NEW n \in 0 .. Len(s), n + 2 <= Len(s)
    PROVE  Upto(s, n) \o <<s[n + 1], s[n + 2]>> = Upto(s, n + 2)
PROOF BY DEF Upto

LEMMA UptoMore ==
    ASSUME NEW S, NEW s \in Seq(S), NEW n \in 0 .. Len(s), NEW k \in 0 .. Len(s) - n
    PROVE  Upto(s, n) \o SubSeq(s, n + 1, n + k) = Upto(s, n + k)
PROOF BY DEF Upto

LEMMA Two ==
    ASSUME NEW a \in Int, NEW b \in Int
    PROVE  Len(<<a>>) < 3 /\ Append(<<a>>, b) = <<a, b>>
<1>. DEFINE s == Append(<<a>>, b)
<1>1. s \in Seq(Int) /\ Len(s) = 2 /\ s[1] = a /\ s[2] = b
  OBVIOUS
<1>2. Len(<<a>>) < 3
  OBVIOUS
<1>. HIDE DEF s
<1>3. s = <<s[1], s[2]>>
  BY <1>1
<1>. QED  BY <1>1, <1>2, <1>3 DEF s

LEMMA Three ==
    ASSUME NEW a \in Int, NEW b \in Int, NEW c \in Int
    PROVE  Len(<<a, b>>) < 3 /\ Append(<<a, b>>, c) = <<a, b, c>>
<1>. DEFINE s == Append(<<a, b>>, c)
<1>1. s \in Seq(Int) /\ Len(s) = 3 /\ s[1] = a /\ s[2] = b /\ s[3] = c
  OBVIOUS
<1>2. Len(<<a, b>>) < 3
  OBVIOUS
<1>. HIDE DEF s
<1>3. s = <<s[1], s[2], s[3]>>
  BY <1>1
<1>. QED  BY <1>1, <1>2, <1>3 DEF s

-----------------------------------------------------------------------------
(***************************************************************************)
(* Characters.                                                             *)
(***************************************************************************)

\* The library writes characters that mean to the other side what it meant.
LEMMA EncodeValueMeans ==
    ASSUME NEW v \in Sextet
    PROVE  Value(EncodeValue(v)) = v
PROOF BY DEF Sextet, Value, EncodeValue

\* And reads characters as the other side means them.
LEMMA DecodeValueMeans ==
    ASSUME NEW c \in Char, Value(c) # -1
    PROVE  DecodeValue(c) = Value(c) /\ Value(c) \in Sextet
PROOF BY DEF Char, Value, DecodeValue, Int8, Sextet

LEMMA DecodeValueForeign ==
    ASSUME NEW c \in Char, Value(c) = -1
    PROVE  DecodeValue(c) < 0
PROOF BY DEF Char, Value, DecodeValue, Int8

LEMMA PadIsForeign == Pad \in Char /\ Value(Pad) = -1
PROOF BY DEF Pad, Char, Value


-----------------------------------------------------------------------------
(***************************************************************************)
(* Bits.                                                                   *)
(***************************************************************************)

\* A byte falls into two parts in three ways.
LEMMA Parts4 ==
    ASSUME NEW a \in Byte
    PROVE  \E q \in 0 .. 63, r \in 0 .. 3 : a = q * 4 + r /\ a \div 4 = q /\ a % 4 = r
<1>1. PICK q \in 0 .. 63, r \in 0 .. 3 : a = q * 4 + r
  BY DEF Byte
<1>2. a \div 4 = q /\ a % 4 = r
  BY <1>1
<1>. QED  BY <1>1, <1>2

LEMMA Parts16 ==
    ASSUME NEW a \in Byte
    PROVE  \E q \in 0 .. 15, r \in 0 .. 15 : a = q * 16 + r /\ a \div 16 = q /\ a % 16 = r
<1>1. PICK q \in 0 .. 15, r \in 0 .. 15 : a = q * 16 + r
  BY DEF Byte
<1>2. a \div 16 = q /\ a % 16 = r
  BY <1>1
<1>. QED  BY <1>1, <1>2

LEMMA Parts64 ==
    ASSUME NEW a \in Byte
    PROVE  \E q \in 0 .. 3, r \in 0 .. 63 : a = q * 64 + r /\ a \div 64 = q /\ a % 64 = r
<1>1. PICK q \in 0 .. 3, r \in 0 .. 63 : a = q * 64 + r
  BY DEF Byte
<1>2. a \div 64 = q /\ a % 64 = r
  BY <1>1
<1>. QED  BY <1>1, <1>2

\* The sextets of three bytes as the encoder makes them, packed again.
LEMMA Repacked ==
    ASSUME NEW a \in Byte, NEW b \in Byte, NEW c \in Byte
    PROVE  (((a \div 4) * 64 + ((a % 4) * 16 + b \div 16)) * 64
              + ((b % 16) * 4 + c \div 64)) * 64 + (c % 64) = Packed(a, b, c)
<1>1. PICK qa \in 0 .. 63, ra \in 0 .. 3 : a = qa * 4 + ra /\ a \div 4 = qa /\ a % 4 = ra
  BY Parts4
<1>2. PICK qb \in 0 .. 15, rb \in 0 .. 15 : b = qb * 16 + rb /\ b \div 16 = qb /\ b % 16 = rb
  BY Parts16
<1>3. PICK qc \in 0 .. 3, rc \in 0 .. 63 : c = qc * 64 + rc /\ c \div 64 = qc /\ c % 64 = rc
  BY Parts64
<1>4. ((qa * 64 + (ra * 16 + qb)) * 64 + (rb * 4 + qc)) * 64 + rc
        = (qa * 4 + ra) * 65536 + (qb * 16 + rb) * 256 + (qc * 64 + rc)
  OBVIOUS
<1>. QED  BY <1>1, <1>2, <1>3, <1>4 DEF Packed

LEMMA Unpacked ==
    ASSUME NEW a \in Byte, NEW b \in Byte, NEW c \in Byte
    PROVE  /\ ByteOf(Packed(a, b, c), 1) = a
           /\ ByteOf(Packed(a, b, c), 2) = b
           /\ ByteOf(Packed(a, b, c), 3) = c
<1>. DEFINE high == a * 256 + b
<1>1. high \in Int /\ Packed(a, b, c) = high * 256 + c
  BY DEF Byte, Packed
<1>2. high \div 256 = a /\ high % 256 = b
  BY DEF Byte
<1>. HIDE DEF high
<1>3. Packed(a, b, c) \div 256 = high /\ Packed(a, b, c) % 256 = c
  BY <1>1 DEF Byte
<1>. QED  BY <1>2, <1>3 DEF ByteOf

LEMMA Sextets ==
    ASSUME NEW a \in Byte, NEW b \in Byte, NEW c \in Byte
    PROVE  /\ SextetOf(Packed(a, b, c), 1) = a \div 4
           /\ SextetOf(Packed(a, b, c), 2) = (a % 4) * 16 + b \div 16
           /\ SextetOf(Packed(a, b, c), 3) = (b % 16) * 4 + c \div 64
           /\ SextetOf(Packed(a, b, c), 4) = c % 64
<1>1. PICK qa \in 0 .. 63, ra \in 0 .. 3 : a = qa * 4 + ra /\ a \div 4 = qa /\ a % 4 = ra
  BY Parts4
<1>2. PICK qb \in 0 .. 15, rb \in 0 .. 15 : b = qb * 16 + rb /\ b \div 16 = qb /\ b % 16 = rb
  BY Parts16
<1>3. PICK qc \in 0 .. 3, rc \in 0 .. 63 : c = qc * 64 + rc /\ c \div 64 = qc /\ c % 64 = rc
  BY Parts64
<1>. DEFINE two == qa * 64 + (ra * 16 + qb)
            three == two * 64 + (rb * 4 + qc)
<1>4. two \in Int /\ two \div 64 = qa /\ two % 64 = ra * 16 + qb
  <2>1. ra * 16 + qb \in 0 .. 63  OBVIOUS
  <2>. QED  BY <2>1
<1>5. (qa * 4 + ra) * 65536 + (qb * 16 + rb) * 256 + (qc * 64 + rc) = three * 64 + rc
  OBVIOUS
<1>. HIDE DEF two
<1>6. three \in Int /\ three \div 64 = two /\ three % 64 = rb * 4 + qc
  <2>1. rb * 4 + qc \in 0 .. 63  OBVIOUS
  <2>. QED  BY <2>1, <1>4
<1>. HIDE DEF three
<1>7. Packed(a, b, c) = three * 64 + rc
  BY <1>1, <1>2, <1>3, <1>5 DEF Packed
<1>8. Packed(a, b, c) \div 64 = three /\ Packed(a, b, c) % 64 = rc
  BY <1>6, <1>7
<1>. QED  BY <1>1, <1>2, <1>3, <1>4, <1>6, <1>8 DEF SextetOf

-----------------------------------------------------------------------------
(***************************************************************************)
(* The inductive invariant.                                                *)
(***************************************************************************)

\* Between two bytes the server waits for the rest of a group, and the encoder
\* remembers the bits of the last byte it has not written.
EncodedSoFar ==
    way = "encode" /\ ~done =>
      CASE encoder.step = "A" ->
             reader = [sextets |-> <<>>, out |-> Upto(file, pos)]
        [] encoder.step = "B" ->
             /\ pos >= 1
             /\ reader = [sextets |-> <<file[pos] \div 4>>, out |-> Upto(file, pos - 1)]
             /\ encoder.result = (file[pos] % 4) * 16
        [] encoder.step = "C" ->
             /\ pos >= 2
             /\ reader = [sextets |-> <<file[pos - 1] \div 4,
                                        (file[pos - 1] % 4) * 16 + file[pos] \div 16>>,
                          out |-> Upto(file, pos - 2)]
             /\ encoder.result = (file[pos] % 16) * 4

\* A group of three bytes takes five characters at the most.
Written ==
    way = "encode" /\ ~done =>
      /\ encoder.step = "A" => 3 * used <= 5 * pos
      /\ encoder.step = "B" => 3 * (used - 1) <= 5 * (pos - 1)
      /\ encoder.step = "C" => 3 * (used - 2) <= 5 * (pos - 2)
      /\ room = 2 * Len(file) + 6

\* The read callback stands where the server's copy of the part ends.
PostedSoFar ==
    way = "xop" /\ ~done =>
      /\ pos = Len(reader.out)
      /\ reader.out = Upto(file, pos)

\* Within a group the decoder holds the bits of a byte it has not put out.
DecodedSoFar ==
    way = "decode" =>
      /\ pos = Len(file) => sent = 0 /\ decoder.out = file
      /\ pos < Len(file) =>
          /\ sent = 0 => decoder.step = "a" /\ decoder.out = Upto(file, pos)
          /\ sent = 1 => /\ decoder.step = "b" /\ decoder.out = Upto(file, pos)
                         /\ decoder.begun = (file[pos + 1] \div 4) * 4
          /\ sent = 2 => /\ decoder.step = "c" /\ decoder.out = Upto(file, pos + 1)
                         /\ decoder.begun = (ByteAt(pos + 2) \div 16) * 16
          /\ sent = 3 =>
               IF GroupLength = 1
               THEN decoder.step = "c" /\ decoder.out = Upto(file, pos + 1)
               ELSE /\ decoder.step = "d" /\ decoder.out = Upto(file, pos + 2)
                    /\ decoder.begun = (ByteAt(pos + 3) \div 64) * 64

\* Four characters are three bytes at the most.
Decoded ==
    way = "decode" =>
      /\ decoder.step = "a" => 4 * Len(decoder.out) <= 3 * used
      /\ decoder.step = "b" => 4 * Len(decoder.out) <= 3 * (used - 1)
      /\ decoder.step = "c" => 4 * (Len(decoder.out) - 1) <= 3 * (used - 2)
      /\ decoder.step = "d" => 4 * (Len(decoder.out) - 2) <= 3 * (used - 3)

Over == done => Received = file /\ (way = "encode" => used <= room)

ContentInv ==
    /\ TypeOK
    /\ EncodedSoFar /\ Written
    /\ PostedSoFar
    /\ DecodedSoFar /\ Decoded
    /\ Over

LEMMA ContentInit == Init => ContentInv
<1>. SUFFICES ASSUME Init PROVE ContentInv
  OBVIOUS
<1>. USE LineGroupsAssumption, MaxForeignAssumption
<1>1. <<>> \in Seq(Byte) /\ <<>> \in Seq(Sextet) /\ Len(<<>>) = 0
  OBVIOUS
<1>2. 0 \in Sextet /\ 0 \in Byte
  BY DEF Sextet, Byte
<1>3. TypeOK
  BY <1>1, <1>2 DEF Init, TypeOK, EncoderStart, DecoderStart, ReaderStart
<1>4. EncodedSoFar /\ Written /\ PostedSoFar /\ DecodedSoFar /\ Decoded
  BY DEF Init, EncodedSoFar, Written, PostedSoFar, DecodedSoFar, Decoded
<1>5. Over
  BY DEF Init, Over, Received, ReaderStart
<1>. QED  BY <1>3, <1>4, <1>5 DEF ContentInv

LEMMA ContentBegin ==
    ASSUME ContentInv, NEW w \in {"encode", "xop", "decode"}, Begin(w)
    PROVE  ContentInv'
<1>. USE LineGroupsAssumption, MaxForeignAssumption, ContentsAssumption
<1>1. /\ file' \in Seq(Byte) /\ Len(file') \in Nat
      /\ way' = w /\ done' = FALSE /\ pos' = 0 /\ sent' = 0 /\ foreign' = 0 /\ used' = 0
      /\ room' = Len(file') * 2 + 6
      /\ encoder' = EncoderStart /\ decoder' = DecoderStart /\ reader' = ReaderStart
  BY DEF Begin
<1>2. <<>> \in Seq(Byte) /\ <<>> \in Seq(Sextet) /\ Len(<<>>) = 0
  OBVIOUS
<1>3. 0 \in Sextet /\ 0 \in Byte
  BY DEF Sextet, Byte
<1>4. Upto(file', 0) = <<>> /\ (Len(file') = 0 => file' = <<>>)
  BY <1>1 DEF Upto
<1>5. TypeOK'
  <2>1. /\ EncoderStart \in [step : {"A", "B", "C"}, result : Sextet,
                             groups : 0 .. LineGroups - 1]
        /\ DecoderStart \in [step : {"a", "b", "c", "d"}, begun : Byte, out : Seq(Byte)]
        /\ ReaderStart \in [sextets : Seq(Sextet), out : Seq(Byte)]
    BY <1>2, <1>3 DEF EncoderStart, DecoderStart, ReaderStart
  <2>2. way' \in {"encode", "xop", "decode"} /\ pos' \in 0 .. Len(file') /\ room' \in Nat
    BY <1>1
  <2>3. file' \in Seq(Byte) /\ sent' \in 0 .. 3 /\ foreign' \in 0 .. MaxForeign /\ used' \in Nat
    BY <1>1
  <2>5. done' \in BOOLEAN
    BY <1>1
  <2>4. /\ encoder' = EncoderStart /\ decoder' = DecoderStart /\ reader' = ReaderStart
    BY <1>1
  <2>. QED  BY <2>1, <2>2, <2>3, <2>4, <2>5 DEF TypeOK
<1>6. EncodedSoFar'
  BY <1>1, <1>4 DEF EncodedSoFar, EncoderStart, ReaderStart
<1>7. Written'
  BY <1>1 DEF Written, EncoderStart
<1>8. PostedSoFar'
  BY <1>1, <1>2, <1>4 DEF PostedSoFar, ReaderStart
<1>9. DecodedSoFar'
  BY <1>1, <1>4 DEF DecodedSoFar, DecoderStart
<1>10. Decoded'
  BY <1>1, <1>2 DEF Decoded, DecoderStart
<1>11. Over'
  BY <1>1 DEF Over
<1>. QED  BY <1>5, <1>6, <1>7, <1>8, <1>9, <1>10, <1>11 DEF ContentInv

-----------------------------------------------------------------------------
(***************************************************************************)
(* The encoder.                                                            *)
(***************************************************************************)

LEMMA EncoderTypes ==
    ASSUME TypeOK, UNCHANGED <<way, done, file, decoder, sent, foreign, room>>,
           pos' \in 0 .. Len(file), used' \in Nat,
           encoder' \in [step : {"A", "B", "C"}, result : Sextet, groups : 0 .. LineGroups - 1],
           reader' \in [sextets : Seq(Sextet), out : Seq(Byte)]
    PROVE  TypeOK'
PROOF BY DEF TypeOK

LEMMA ContentEncodeA ==
    ASSUME ContentInv, EncodeA
    PROVE  ContentInv'
<1>. USE LineGroupsAssumption, MaxForeignAssumption DEF ContentInv
<1>1. /\ way = "encode" /\ ~done /\ encoder.step = "A" /\ pos < Len(file)
      /\ pos' = pos + 1 /\ used' = used + 1
      /\ reader' = ReadChar(reader, EncodeValue(Plain \div 4))
      /\ encoder' = [encoder EXCEPT !.step = "B", !.result = (Plain % 4) * 16]
      /\ UNCHANGED <<way, done, file, decoder, sent, foreign, room>>
  BY DEF EncodeA, Encoding, Took, Wrote
<1>2. Plain \in Byte /\ pos \in Nat /\ Len(file) \in Nat /\ file \in Seq(Byte)
  BY <1>1 DEF TypeOK, Plain
<1>3. PICK q \in 0 .. 63, r \in 0 .. 3 : Plain = q * 4 + r /\ Plain \div 4 = q /\ Plain % 4 = r
  BY <1>2, Parts4
<1>4. Value(EncodeValue(Plain \div 4)) = Plain \div 4
  BY <1>3, EncodeValueMeans DEF Sextet
<1>5. reader' = [sextets |-> <<Plain \div 4>>, out |-> Upto(file, pos)]
  <2>1. reader = [sextets |-> <<>>, out |-> Upto(file, pos)]
    BY <1>1 DEF EncodedSoFar
  <2>2. Len(reader.sextets) < 3 /\ Append(reader.sextets, Plain \div 4) = <<Plain \div 4>>
    BY <2>1
  <2>. QED  BY <1>1, <1>4, <2>1, <2>2 DEF ReadChar
<1>6. encoder' = [step |-> "B", result |-> (Plain % 4) * 16, groups |-> encoder.groups]
  BY <1>1 DEF TypeOK
<1>7. Plain = file'[pos'] /\ pos' - 1 = pos
  BY <1>1, <1>2 DEF Plain
<1>8. TypeOK'
  <2>1. encoder' \in [step : {"A", "B", "C"}, result : Sextet, groups : 0 .. LineGroups - 1]
    BY <1>3, <1>6 DEF TypeOK, Sextet
  <2>2. reader' \in [sextets : Seq(Sextet), out : Seq(Byte)]
    <3>1. pos \in 0 .. Len(file) /\ Plain \div 4 \in Sextet
      BY <1>1, <1>2, <1>3 DEF Sextet
    <3>2. Upto(file, pos) \in Seq(Byte)
      BY <1>2, <3>1, UptoProperties
    <3>. QED  BY <1>5, <3>1, <3>2
  <2>3. pos' \in 0 .. Len(file) /\ used' \in Nat
    BY <1>1, <1>2 DEF TypeOK
  <2>. QED  BY <1>1, <2>1, <2>2, <2>3, EncoderTypes
<1>9. EncodedSoFar'
  BY <1>1, <1>2, <1>5, <1>6, <1>7 DEF EncodedSoFar
<1>10. Written'
  <2>1. 3 * used <= 5 * pos /\ used \in Nat
    BY <1>1 DEF Written, TypeOK
  <2>. QED  BY <1>1, <1>2, <1>6, <2>1 DEF Written
<1>11. PostedSoFar' /\ DecodedSoFar' /\ Decoded' /\ Over'
  BY <1>1 DEF PostedSoFar, DecodedSoFar, Decoded, Over
<1>. QED  BY <1>8, <1>9, <1>10, <1>11

LEMMA ContentEncodeB ==
    ASSUME ContentInv, EncodeB
    PROVE  ContentInv'
<1>. USE LineGroupsAssumption, MaxForeignAssumption DEF ContentInv
<1>1. /\ way = "encode" /\ ~done /\ encoder.step = "B" /\ pos < Len(file)
      /\ pos' = pos + 1 /\ used' = used + 1
      /\ reader' = ReadChar(reader, EncodeValue(encoder.result + Plain \div 16))
      /\ encoder' = [encoder EXCEPT !.step = "C", !.result = (Plain % 16) * 4]
      /\ UNCHANGED <<way, done, file, decoder, sent, foreign, room>>
  BY DEF EncodeB, Encoding, Took, Wrote
<1>2a. pos \in Nat /\ pos >= 1 /\ Len(file) \in Nat /\ file \in Seq(Byte) /\ used \in Nat
  BY <1>1 DEF TypeOK, EncodedSoFar
<1>2. /\ pos \in Nat /\ pos >= 1 /\ Len(file) \in Nat /\ file \in Seq(Byte)
      /\ reader = [sextets |-> <<file[pos] \div 4>>, out |-> Upto(file, pos - 1)]
      /\ encoder.result = (file[pos] % 4) * 16
  BY <1>1 DEF TypeOK, EncodedSoFar
<1>3. Plain \in Byte /\ file[pos] \in Byte
  BY <1>1, <1>2 DEF Plain
<1>4. PICK qa \in 0 .. 63, ra \in 0 .. 3 :
         file[pos] = qa * 4 + ra /\ file[pos] \div 4 = qa /\ file[pos] % 4 = ra
  BY <1>3, Parts4
<1>5. PICK qb \in 0 .. 15, rb \in 0 .. 15 :
         Plain = qb * 16 + rb /\ Plain \div 16 = qb /\ Plain % 16 = rb
  BY <1>3, Parts16
<1>6. encoder.result + Plain \div 16 = ra * 16 + qb /\ ra * 16 + qb \in Sextet
  BY <1>2, <1>4, <1>5 DEF Sextet
<1>7. Value(EncodeValue(encoder.result + Plain \div 16)) = ra * 16 + qb
  BY <1>6, EncodeValueMeans
<1>8. reader' = [sextets |-> <<qa, ra * 16 + qb>>, out |-> Upto(file, pos - 1)]
  <2>1. reader.sextets = <<qa>>
    BY <1>2, <1>4
  <2>2. Len(reader.sextets) < 3 /\ Append(reader.sextets, ra * 16 + qb) = <<qa, ra * 16 + qb>>
    <3>1. Len(<<qa>>) < 3 /\ Append(<<qa>>, ra * 16 + qb) = <<qa, ra * 16 + qb>>
      BY <1>6, Two DEF Sextet
    <3>. QED  BY <2>1, <3>1
  <2>. QED  BY <1>1, <1>2, <1>7, <2>2 DEF ReadChar
<1>9. encoder' = [step |-> "C", result |-> rb * 4, groups |-> encoder.groups]
  BY <1>1, <1>5 DEF TypeOK
<1>10. Plain = file'[pos'] /\ pos' - 1 = pos /\ pos' - 2 = pos - 1
  BY <1>1, <1>2 DEF Plain
<1>11. TypeOK'
  <2>1. encoder' \in [step : {"A", "B", "C"}, result : Sextet, groups : 0 .. LineGroups - 1]
    BY <1>9 DEF TypeOK, Sextet
  <2>2. reader' \in [sextets : Seq(Sextet), out : Seq(Byte)]
    <3>1. pos - 1 \in 0 .. Len(file) /\ qa \in Sextet
      BY <1>1, <1>2 DEF Sextet
    <3>2. Upto(file, pos - 1) \in Seq(Byte)
      BY <1>2, <3>1, UptoProperties
    <3>. QED  BY <1>6, <1>8, <3>1, <3>2
  <2>3. pos' \in 0 .. Len(file) /\ used' \in Nat
    BY <1>1, <1>2a
  <2>. QED  BY <1>1, <2>1, <2>2, <2>3, EncoderTypes
<1>12. EncodedSoFar'
  <2>1. /\ (file[pos] % 4) * 16 + Plain \div 16 = ra * 16 + qb
        /\ encoder'.result = (Plain % 16) * 4 /\ encoder'.step = "C" /\ pos' >= 2
    BY <1>1, <1>2, <1>4, <1>5, <1>9
  <2>. QED  BY <1>1, <1>2, <1>4, <1>8, <1>10, <2>1 DEF EncodedSoFar
<1>13. Written'
  <2>1. 3 * (used - 1) <= 5 * (pos - 1) /\ used \in Nat
    BY <1>1 DEF Written, TypeOK
  <2>. QED  BY <1>1, <1>2, <1>9, <2>1 DEF Written
<1>14. PostedSoFar' /\ DecodedSoFar' /\ Decoded' /\ Over'
  BY <1>1 DEF PostedSoFar, DecodedSoFar, Decoded, Over
<1>. QED  BY <1>11, <1>12, <1>13, <1>14

LEMMA ContentEncodeC ==
    ASSUME ContentInv, EncodeC
    PROVE  ContentInv'
<1>. USE LineGroupsAssumption, MaxForeignAssumption DEF ContentInv
<1>. DEFINE a == file[pos - 1]
            b == file[pos]
            c == Plain
<1>1. /\ way = "encode" /\ ~done /\ encoder.step = "C" /\ pos < Len(file)
      /\ pos' = pos + 1 /\ used' = used + (IF encoder.groups + 1 = LineGroups THEN 3 ELSE 2)
      /\ reader' = ReadChar(ReadChar(reader, EncodeValue(encoder.result + Plain \div 64)),
                            EncodeValue(Plain % 64))
      /\ encoder' = [step |-> "A", result |-> Plain % 64,
                     groups |-> IF encoder.groups + 1 = LineGroups THEN 0
                                ELSE encoder.groups + 1]
      /\ UNCHANGED <<way, done, file, decoder, sent, foreign, room>>
  BY DEF EncodeC, Encoding, Took, Wrote
<1>2. pos \in Nat /\ pos >= 2 /\ Len(file) \in Nat /\ file \in Seq(Byte) /\ used \in Nat
  BY <1>1 DEF TypeOK, EncodedSoFar
<1>3. /\ reader = [sextets |-> <<a \div 4, (a % 4) * 16 + b \div 16>>,
                   out |-> Upto(file, pos - 2)]
      /\ encoder.result = (b % 16) * 4
  BY <1>1 DEF EncodedSoFar
<1>4. a \in Byte /\ b \in Byte /\ c \in Byte
  BY <1>1, <1>2 DEF Plain
<1>. HIDE DEF a, b
<1>5. PICK qa \in 0 .. 63, ra \in 0 .. 3 : a = qa * 4 + ra /\ a \div 4 = qa /\ a % 4 = ra
  BY <1>4, Parts4
<1>6. PICK qb \in 0 .. 15, rb \in 0 .. 15 : b = qb * 16 + rb /\ b \div 16 = qb /\ b % 16 = rb
  BY <1>4, Parts16
<1>7. PICK qc \in 0 .. 3, rc \in 0 .. 63 : c = qc * 64 + rc /\ c \div 64 = qc /\ c % 64 = rc
  BY <1>4, Parts64
<1>. DEFINE s1 == qa
            s2 == ra * 16 + qb
            s3 == rb * 4 + qc
            s4 == rc
<1>8. s1 \in Sextet /\ s2 \in Sextet /\ s3 \in Sextet /\ s4 \in Sextet
  BY DEF Sextet
<1>9. /\ Value(EncodeValue(encoder.result + Plain \div 64)) = s3
      /\ Value(EncodeValue(Plain % 64)) = s4
  <2>1. encoder.result + Plain \div 64 = s3 /\ Plain % 64 = s4
    BY <1>3, <1>6, <1>7
  <2>. QED  BY <1>8, <2>1, EncodeValueMeans
<1>10. ((s1 * 64 + s2) * 64 + s3) * 64 + s4 = Packed(a, b, c)
  <2>1. (((a \div 4) * 64 + ((a % 4) * 16 + b \div 16)) * 64
           + ((b % 16) * 4 + c \div 64)) * 64 + (c % 64) = Packed(a, b, c)
    BY <1>4, Repacked
  <2>2. a \div 4 = s1 /\ (a % 4) * 16 + b \div 16 = s2 /\ (b % 16) * 4 + c \div 64 = s3
        /\ c % 64 = s4
    BY <1>5, <1>6, <1>7
  <2>. HIDE DEF s1, s2, s3, s4, c
  <2>. QED  BY <2>1, <2>2
<1>11. reader.sextets = <<s1, s2>> /\ reader.out = Upto(file, pos - 2)
  BY <1>3, <1>5, <1>6
<1>. HIDE DEF s1, s2, s3, s4, c
<1>12. ReadChar(reader, EncodeValue(encoder.result + Plain \div 64))
         = [sextets |-> <<s1, s2, s3>>, out |-> Upto(file, pos - 2)]
  <2>1. Len(<<s1, s2>>) < 3 /\ Append(<<s1, s2>>, s3) = <<s1, s2, s3>>
    BY <1>8, Three DEF Sextet
  <2>2. reader = [sextets |-> reader.sextets, out |-> reader.out]
    BY DEF TypeOK
  <2>. QED  BY <1>9, <1>11, <2>1, <2>2 DEF ReadChar
<1>13. reader' = [sextets |-> <<>>, out |-> Upto(file, pos - 2) \o <<a, b, c>>]
  <2>1. Len(<<s1, s2, s3>>) = 3 /\ <<s1, s2, s3>>[1] = s1 /\ <<s1, s2, s3>>[2] = s2
        /\ <<s1, s2, s3>>[3] = s3
    OBVIOUS
  <2>. DEFINE r == [sextets |-> <<s1, s2, s3>>, out |-> Upto(file, pos - 2)]
  <2>2. r.sextets = <<s1, s2, s3>> /\ r.out = Upto(file, pos - 2)
    OBVIOUS
  <2>3. reader' = ReadChar(r, EncodeValue(Plain % 64))
    BY <1>1, <1>12
  <2>. HIDE DEF r
  <2>4. ((r.sextets[1] * 64 + r.sextets[2]) * 64 + r.sextets[3]) * 64
          + Value(EncodeValue(Plain % 64)) = Packed(a, b, c)
    BY <1>9, <1>10, <2>1, <2>2
  <2>5. ~(Len(r.sextets) < 3)
    BY <2>1, <2>2
  <2>. DEFINE p == Packed(a, b, c)
  <2>. HIDE DEF p
  <2>6. ReadChar(r, EncodeValue(Plain % 64))
          = [sextets |-> <<>>,
             out |-> r.out \o <<ByteOf(p, 1), ByteOf(p, 2), ByteOf(p, 3)>>]
    BY <2>4, <2>5 DEF ReadChar, p
  <2>7. ByteOf(p, 1) = a /\ ByteOf(p, 2) = b /\ ByteOf(p, 3) = c
    BY <1>4, Unpacked DEF p
  <2>. QED  BY <2>2, <2>3, <2>6, <2>7
<1>14. reader' = [sextets |-> <<>>, out |-> Upto(file, pos')] /\ Upto(file, pos') \in Seq(Byte)
  <2>1. pos - 2 \in 0 .. Len(file) /\ pos - 2 + 3 <= Len(file) /\ pos' = pos - 2 + 3
        /\ pos' \in 0 .. Len(file)
    BY <1>1, <1>2
  <2>2. a = file[pos - 2 + 1] /\ b = file[pos - 2 + 2] /\ c = file[pos - 2 + 3]
    BY <1>2 DEF a, b, c, Plain
  <2>3. Upto(file, pos - 2) \o <<a, b, c>> = Upto(file, pos - 2 + 3)
    BY <1>2, <2>1, <2>2, UptoThree
  <2>. QED  BY <1>2, <1>13, <2>1, <2>3, UptoProperties
<1>15. TypeOK'
  <2>1. encoder' \in [step : {"A", "B", "C"}, result : Sextet, groups : 0 .. LineGroups - 1]
    <3>1. Plain % 64 \in Sextet
      BY <1>7, <1>8 DEF c, s4
    <3>2. encoder.groups \in 0 .. LineGroups - 1
      BY DEF TypeOK
    <3>. QED  BY <1>1, <3>1, <3>2
  <2>2. reader' \in [sextets : Seq(Sextet), out : Seq(Byte)]
    BY <1>14
  <2>3. pos' \in 0 .. Len(file) /\ used' \in Nat
    BY <1>1, <1>2
  <2>. QED  BY <1>1, <2>1, <2>2, <2>3, EncoderTypes
<1>16. EncodedSoFar'
  BY <1>1, <1>14 DEF EncodedSoFar
<1>17. Written'
  <2>1. 3 * (used - 2) <= 5 * (pos - 2) /\ room = 2 * Len(file) + 6
    BY <1>1 DEF Written
  <2>. QED  BY <1>1, <1>2, <2>1 DEF Written
<1>18. PostedSoFar' /\ DecodedSoFar' /\ Decoded' /\ Over'
  BY <1>1 DEF PostedSoFar, DecodedSoFar, Decoded, Over
<1>. QED  BY <1>15, <1>16, <1>17, <1>18

LEMMA EndOfThree ==
    ASSUME NEW r, Len(r.sextets) = 3, r.sextets[3] % 4 = 0
    PROVE  ReadEnd(r, 1)
             = [sextets |-> <<>>,
                out |-> r.out \o <<r.sextets[1] * 4 + r.sextets[2] \div 16,
                                  (r.sextets[2] % 16) * 16 + r.sextets[3] \div 4>>]
PROOF BY DEF ReadEnd

LEMMA ContentEncodeEnd ==
    ASSUME ContentInv, EncodeEnd
    PROVE  ContentInv'
<1>. USE LineGroupsAssumption, MaxForeignAssumption DEF ContentInv
<1>1. /\ way = "encode" /\ ~done /\ done' = TRUE /\ pos = Len(file)
      /\ UNCHANGED <<way, file, pos, encoder, decoder, sent, foreign, room>>
  BY DEF EncodeEnd, Encoding
<1>2. pos \in Nat /\ Len(file) \in Nat /\ file \in Seq(Byte) /\ used \in Nat
  BY <1>1 DEF TypeOK
<1>3. room = 2 * Len(file) + 6
  BY <1>1 DEF Written
<1>4. SUFFICES reader' = [sextets |-> <<>>, out |-> file] /\ used' \in Nat /\ used' <= room
  <2>1. reader' \in [sextets : Seq(Sextet), out : Seq(Byte)] /\ Received' = file
    BY <1>1, <1>2, <1>4 DEF Received
  <2>2. TypeOK'
    BY <1>1, <1>4, <2>1 DEF TypeOK
  <2>3. Over'
    BY <1>1, <1>4, <2>1 DEF Over
  <2>. QED  BY <1>1, <2>2, <2>3 DEF EncodedSoFar, Written, PostedSoFar, DecodedSoFar, Decoded
<1>5. CASE encoder.step = "A"
  <2>1. used' = used + 2 /\ 3 * used <= 5 * Len(file)
    BY <1>1, <1>5 DEF EncodeEnd, Wrote, Written
  <2>2. reader = [sextets |-> <<>>, out |-> file]
    BY <1>1, <1>2, <1>5, UptoAll DEF EncodedSoFar
  <2>3. reader' = ReadEnd(reader, 0)
    BY <1>5 DEF EncodeEnd
  <2>4. reader' = reader
    BY <2>2, <2>3 DEF ReadEnd
  <2>. QED  BY <1>2, <1>3, <2>1, <2>2, <2>4
<1>6. CASE encoder.step = "B"
  <2>. DEFINE a == file[pos]
  <2>1. /\ used' = used + 5 /\ 3 * (used - 1) <= 5 * (Len(file) - 1)
        /\ reader' = ReadEnd(ReadChar(reader, EncodeValue(encoder.result)), 2)
        /\ pos >= 1
        /\ reader = [sextets |-> <<a \div 4>>, out |-> Upto(file, pos - 1)]
        /\ encoder.result = (a % 4) * 16
    BY <1>1, <1>6 DEF EncodeEnd, Wrote, Written, EncodedSoFar
  <2>2. a \in Byte
    BY <1>1, <1>2, <2>1
  <2>3. PICK q \in 0 .. 63, r \in 0 .. 3 : a = q * 4 + r /\ a \div 4 = q /\ a % 4 = r
    BY <2>2, Parts4
  <2>4. Value(EncodeValue(encoder.result)) = r * 16
    <3>1. encoder.result = r * 16 /\ r * 16 \in Sextet
      BY <2>1, <2>3 DEF Sextet
    <3>. QED  BY <3>1, EncodeValueMeans
  <2>. DEFINE t == r * 16
              e == [sextets |-> <<q, t>>, out |-> Upto(file, pos - 1)]
  <2>5. ReadChar(reader, EncodeValue(encoder.result)) = e
    <3>1. reader.sextets = <<q>> /\ reader.out = Upto(file, pos - 1)
      BY <2>1, <2>3
    <3>2. Len(<<q>>) < 3 /\ Append(<<q>>, t) = <<q, t>>
      BY Two
    <3>. QED  BY <2>1, <2>3, <2>4, <3>1, <3>2 DEF ReadChar
  <2>6. e.sextets = <<q, t>> /\ e.out = Upto(file, pos - 1) /\ t % 16 = 0 /\ q * 4 + t \div 16 = a
    BY <2>3
  <2>7. reader' = ReadEnd(e, 2)
    BY <2>1, <2>5
  <2>. HIDE DEF e, t
  <2>8. Len(e.sextets) = 2 /\ e.sextets[1] = q /\ e.sextets[2] = t
    BY <2>6
  <2>9. reader' = [sextets |-> <<>>, out |-> Append(e.out, a)]
    BY <2>6, <2>7, <2>8 DEF ReadEnd
  <2>10. Append(e.out, a) = file
    <3>1. pos - 1 \in 0 .. Len(file) /\ pos - 1 < Len(file) /\ pos - 1 + 1 = Len(file)
      BY <1>1, <1>2, <2>1
    <3>. QED  BY <1>1, <1>2, <2>6, <3>1, UptoAppend, UptoAll
  <2>. QED  BY <1>2, <1>3, <2>1, <2>9, <2>10
<1>7. CASE encoder.step = "C"
  <2>. DEFINE a == file[pos - 1]
              b == file[pos]
  <2>1. /\ used' = used + 4 /\ 3 * (used - 2) <= 5 * (Len(file) - 2)
        /\ reader' = ReadEnd(ReadChar(reader, EncodeValue(encoder.result)), 1)
        /\ pos >= 2
        /\ reader = [sextets |-> <<a \div 4, (a % 4) * 16 + b \div 16>>,
                     out |-> Upto(file, pos - 2)]
        /\ encoder.result = (b % 16) * 4
    BY <1>1, <1>7 DEF EncodeEnd, Wrote, Written, EncodedSoFar
  <2>2. a \in Byte /\ b \in Byte
    BY <1>1, <1>2, <2>1
  <2>3. PICK qa \in 0 .. 63, ra \in 0 .. 3 : a = qa * 4 + ra /\ a \div 4 = qa /\ a % 4 = ra
    BY <2>2, Parts4
  <2>4. PICK qb \in 0 .. 15, rb \in 0 .. 15 :
           b = qb * 16 + rb /\ b \div 16 = qb /\ b % 16 = rb
    BY <2>2, Parts16
  <2>5. Value(EncodeValue(encoder.result)) = rb * 4
    <3>1. encoder.result = rb * 4 /\ rb * 4 \in Sextet
      BY <2>1, <2>4 DEF Sextet
    <3>. QED  BY <3>1, EncodeValueMeans
  <2>. DEFINE s == ra * 16 + qb
              t == rb * 4
              e == [sextets |-> <<qa, s, t>>, out |-> Upto(file, pos - 2)]
  <2>6. ReadChar(reader, EncodeValue(encoder.result)) = e
    <3>1. reader.sextets = <<qa, s>> /\ reader.out = Upto(file, pos - 2)
      BY <2>1, <2>3, <2>4
    <3>2. Len(<<qa, s>>) < 3 /\ Append(<<qa, s>>, t) = <<qa, s, t>>
      BY Three
    <3>. QED  BY <2>1, <2>5, <3>1, <3>2 DEF ReadChar
  <2>7. /\ e.sextets = <<qa, s, t>> /\ e.out = Upto(file, pos - 2) /\ t % 4 = 0
        /\ qa * 4 + s \div 16 = a /\ (s % 16) * 16 + t \div 4 = b
    BY <2>3, <2>4
  <2>8. reader' = ReadEnd(e, 1)
    BY <2>1, <2>6
  <2>. HIDE DEF e, s, t
  <2>9. Len(e.sextets) = 3 /\ e.sextets[1] = qa /\ e.sextets[2] = s /\ e.sextets[3] = t
    BY <2>7
  <2>10. reader' = [sextets |-> <<>>, out |-> e.out \o <<a, b>>]
    <3>1. /\ e.sextets[3] % 4 = 0 /\ e.sextets[1] * 4 + e.sextets[2] \div 16 = a
          /\ (e.sextets[2] % 16) * 16 + e.sextets[3] \div 4 = b
      BY <2>7, <2>9
    <3>2. Len(e.sextets) = 3
      BY <2>9
    <3>. HIDE DEF a, b
    <3>. QED  BY <2>8, <3>1, <3>2, EndOfThree
  <2>11. e.out \o <<a, b>> = file
    <3>. DEFINE n == pos - 2
    <3>1. n \in 0 .. Len(file) /\ n + 2 = Len(file) /\ n + 2 <= Len(file)
          /\ n + 1 = pos - 1 /\ n + 2 = pos /\ n = pos - 2
      BY <1>1, <1>2, <2>1
    <3>. HIDE DEF n
    <3>2. Upto(file, n) \o <<file[n + 1], file[n + 2]>> = Upto(file, n + 2)
      BY <1>2, <3>1, UptoTwo
    <3>. QED  BY <1>2, <2>7, <3>1, <3>2, UptoAll
  <2>12. used' \in Nat /\ used' <= room
    BY <1>2, <1>3, <2>1
  <2>. QED  BY <2>10, <2>11, <2>12
<1>. QED  BY <1>5, <1>6, <1>7 DEF TypeOK

-----------------------------------------------------------------------------
(***************************************************************************)
(* The part that CURL takes.                                               *)
(***************************************************************************)

LEMMA ContentRead ==
    ASSUME ContentInv, NEW n \in 1 .. MaxBlock, Read(n)
    PROVE  ContentInv'
<1>. USE MaxBlockAssumption DEF ContentInv
<1>. DEFINE rest == Len(file) - pos
            size == IF rest > n THEN n ELSE rest
<1>1. /\ way = "xop" /\ ~done /\ Len(reader.out) < Len(file)
      /\ reader' = [reader EXCEPT !.out = @ \o SubSeq(file, pos + 1, pos + size)]
      /\ pos' = pos + size /\ done' = (size = 0)
      /\ UNCHANGED <<way, file, encoder, decoder, sent, foreign, used, room>>
  BY DEF Read, Posting
<1>2. /\ pos \in Nat /\ Len(file) \in Nat /\ file \in Seq(Byte) /\ n \in Nat /\ n >= 1
      /\ pos = Len(reader.out) /\ reader.out = Upto(file, pos)
  BY <1>1 DEF TypeOK, PostedSoFar
<1>3. size \in 1 .. Len(file) - pos
  <2>1. pos < Len(file)
    BY <1>1, <1>2
  <2>2. rest \in 1 .. Len(file) - pos
    BY <1>2, <2>1
  <2>. HIDE DEF rest
  <2>. QED  BY <1>2, <2>2
<1>. HIDE DEF size
<1>4. pos' \in 0 .. Len(file) /\ done' = FALSE
  <2>1. pos + size \in 0 .. Len(file) /\ size # 0
    BY <1>2, <1>3
  <2>. QED  BY <1>1, <2>1
<1>5. reader' = [sextets |-> reader.sextets, out |-> Upto(file, pos')]
  <2>1. pos \in 0 .. Len(file) /\ size \in 0 .. Len(file) - pos
    BY <1>2, <1>3
  <2>2. Upto(file, pos) \o SubSeq(file, pos + 1, pos + size) = Upto(file, pos + size)
    BY <1>2, <2>1, UptoMore
  <2>. QED  BY <1>1, <1>2, <2>2 DEF TypeOK
<1>6. Upto(file, pos') \in Seq(Byte) /\ Len(Upto(file, pos')) = pos'
  BY <1>2, <1>4, UptoProperties
<1>7. reader' \in [sextets : Seq(Sextet), out : Seq(Byte)] /\ reader'.out = Upto(file, pos')
  BY <1>5, <1>6 DEF TypeOK
<1>8. done' \in BOOLEAN
  BY <1>4
<1>9. TypeOK'
  BY <1>1, <1>4, <1>7, <1>8 DEF TypeOK
<1>10. PostedSoFar'
  BY <1>1, <1>6, <1>7 DEF PostedSoFar
<1>11. EncodedSoFar' /\ Written' /\ DecodedSoFar' /\ Decoded' /\ Over'
  BY <1>1, <1>4 DEF EncodedSoFar, Written, DecodedSoFar, Decoded, Over
<1>. QED  BY <1>9, <1>10, <1>11

LEMMA ContentPartSent ==
    ASSUME ContentInv, PartSent
    PROVE  ContentInv'
<1>. USE DEF ContentInv
<1>1. /\ way = "xop" /\ ~done /\ Len(reader.out) = Len(file) /\ done' = TRUE
      /\ UNCHANGED <<way, file, pos, encoder, decoder, sent, foreign, reader, used, room>>
  BY DEF PartSent, Posting
<1>2. TypeOK'
  BY <1>1 DEF TypeOK
<1>3. reader.out = file
  BY <1>1, UptoAll DEF TypeOK, PostedSoFar
<1>4. Over'
  BY <1>1, <1>3 DEF Over, Received
<1>. QED
  BY <1>1, <1>2, <1>4 DEF EncodedSoFar, Written, PostedSoFar, DecodedSoFar, Decoded

\* Wherever the offset is counted from, the callback goes to where it is told.
LEMMA SeekReaches ==
    ASSUME NEW origin \in Origin, NEW place \in Int, pos \in Int, Len(file) \in Int
    PROVE  SeekTo(origin, place - Base(origin)) = place
PROOF BY DEF Origin, SeekTo, Base

LEMMA ContentRewind ==
    ASSUME ContentInv, Rewind
    PROVE  ContentInv'
<1>. USE DEF ContentInv
<1>1. PICK origin \in Origin, place \in 0 .. Len(reader.out) :
         /\ pos' = SeekTo(origin, place - Base(origin))
         /\ reader' = [reader EXCEPT !.out = SubSeq(@, 1, place)]
  BY DEF Rewind
<1>2. /\ way = "xop" /\ ~done
      /\ UNCHANGED <<way, done, file, encoder, decoder, sent, foreign, used, room>>
  BY DEF Rewind, Posting
<1>3. /\ pos \in Nat /\ pos <= Len(file) /\ Len(file) \in Nat /\ file \in Seq(Byte)
      /\ pos = Len(reader.out) /\ reader.out = Upto(file, pos)
  BY <1>2 DEF TypeOK, PostedSoFar
<1>4. pos' = place
  BY <1>1, <1>3, SeekReaches
<1>5. pos' \in 0 .. Len(file) /\ place \in 0 .. pos /\ pos \in 0 .. Len(file)
  BY <1>3, <1>4
<1>6. reader' = [sextets |-> reader.sextets, out |-> Upto(file, pos')]
  <2>1. SubSeq(reader.out, 1, place) = Upto(file, place)
    BY <1>3, <1>5, UptoUpto
  <2>. QED  BY <1>1, <1>4, <2>1 DEF TypeOK
<1>7. Upto(file, pos') \in Seq(Byte) /\ Len(Upto(file, pos')) = pos'
  BY <1>3, <1>5, UptoProperties
<1>8. reader' \in [sextets : Seq(Sextet), out : Seq(Byte)] /\ reader'.out = Upto(file, pos')
  BY <1>6, <1>7 DEF TypeOK
<1>9. TypeOK'
  BY <1>2, <1>5, <1>8 DEF TypeOK
<1>10. PostedSoFar'
  BY <1>2, <1>7, <1>8 DEF PostedSoFar
<1>11. EncodedSoFar' /\ Written' /\ DecodedSoFar' /\ Decoded' /\ Over'
  BY <1>2 DEF EncodedSoFar, Written, DecodedSoFar, Decoded, Over
<1>. QED  BY <1>9, <1>10, <1>11

-----------------------------------------------------------------------------
(***************************************************************************)
(* The decoder.                                                            *)
(***************************************************************************)

LEMMA AppendLength ==
    ASSUME NEW s \in Seq(Byte), NEW x
    PROVE  Len(Append(s, x)) = Len(s) + 1
PROOF OBVIOUS

\* What a character means to the decoder, step by step.
LEMMA DecodeSteps ==
    ASSUME TypeOK, NEW c \in Char, NEW v, v = DecodeValue(c)
    PROVE  /\ v < 0 => DecodeChar(decoder, c) = decoder
           /\ v >= 0 =>
             /\ decoder.step = "a" => DecodeChar(decoder, c) =
                  [step |-> "b", begun |-> v * 4, out |-> decoder.out]
             /\ decoder.step = "b" => DecodeChar(decoder, c) =
                  [step |-> "c", begun |-> (v % 16) * 16,
                   out |-> Append(decoder.out, decoder.begun + v \div 16)]
             /\ decoder.step = "c" => DecodeChar(decoder, c) =
                  [step |-> "d", begun |-> (v % 4) * 64,
                   out |-> Append(decoder.out, decoder.begun + v \div 4)]
             /\ decoder.step = "d" => DecodeChar(decoder, c) =
                  [step |-> "a", begun |-> 0, out |-> Append(decoder.out, decoder.begun + v)]
<1>1. v \in Int
  BY DEF DecodeValue, Int8, Char
<1>3. CASE v < 0
  BY <1>1, <1>3 DEF DecodeChar
<1>4. CASE v >= 0
  <2>1. ~(v < 0)
    BY <1>1, <1>4
  <2>2. CASE decoder.step = "a"
    <3>1. DecodeChar(decoder, c) = [decoder EXCEPT !.step = "b", !.begun = v * 4]
      BY <1>4, <2>1, <2>2 DEF DecodeChar
    <3>2. decoder \in [step : {"a", "b", "c", "d"}, begun : Byte, out : Seq(Byte)]
      BY DEF TypeOK
    <3>. QED  BY <1>1, <1>4, <2>1, <2>2, <3>1, <3>2
  <2>3. CASE decoder.step = "b"
    BY <1>4, <2>1, <2>3 DEF DecodeChar
  <2>4. CASE decoder.step = "c"
    BY <1>4, <2>1, <2>4 DEF DecodeChar
  <2>5. CASE decoder.step = "d"
    BY <1>4, <2>1, <2>5 DEF DecodeChar
  <2>6. decoder.step \in {"a", "b", "c", "d"}
    BY DEF TypeOK
  <2>. QED  BY <2>1, <2>2, <2>3, <2>4, <2>5, <2>6
<1>. QED  BY <1>1, <1>3, <1>4

\* Whatever the character, four of them are three bytes at the most.
LEMMA DecodedStep ==
    ASSUME TypeOK, Decoded, way = "decode", way' = way, NEW c \in Char,
           decoder' = DecodeChar(decoder, c), used' = used + 1
    PROVE  Decoded'
<1>. DEFINE v == DecodeValue(c)
<1>1. v \in Int
  BY DEF DecodeValue, Int8, Char
<1>2. used \in Nat /\ decoder.out \in Seq(Byte)
      /\ Len(decoder.out) \in Nat /\ decoder.step \in {"a", "b", "c", "d"}
  BY DEF TypeOK
<1>3. CASE v < 0
  <2>1. decoder' = decoder
    BY <1>3, DecodeSteps
  <2>. QED  BY <1>2, <2>1 DEF Decoded
<1>4. CASE v >= 0 /\ decoder.step = "a"
  <2>1. decoder'.step = "b" /\ decoder'.out = decoder.out
    BY <1>4, DecodeSteps
  <2>. QED  BY <1>2, <1>4, <2>1 DEF Decoded
<1>5. CASE v >= 0 /\ decoder.step = "b"
  <2>1. decoder'.step = "c" /\ decoder'.out = Append(decoder.out, decoder.begun + v \div 16)
    BY <1>5, DecodeSteps
  <2>2. Len(decoder'.out) = Len(decoder.out) + 1
    BY <1>1, <1>2, <2>1, AppendLength
  <2>. QED  BY <1>2, <1>5, <2>1, <2>2 DEF Decoded
<1>6. CASE v >= 0 /\ decoder.step = "c"
  <2>1. decoder'.step = "d" /\ decoder'.out = Append(decoder.out, decoder.begun + v \div 4)
    BY <1>6, DecodeSteps
  <2>2. Len(decoder'.out) = Len(decoder.out) + 1
    BY <1>1, <1>2, <2>1, AppendLength
  <2>. QED  BY <1>2, <1>6, <2>1, <2>2 DEF Decoded
<1>7. CASE v >= 0 /\ decoder.step = "d"
  <2>1. decoder'.step = "a" /\ decoder'.out = Append(decoder.out, decoder.begun + v)
    BY <1>7, DecodeSteps
  <2>2. Len(decoder'.out) = Len(decoder.out) + 1
    BY <1>1, <1>2, <2>1, AppendLength
  <2>. QED  BY <1>2, <1>7, <2>1, <2>2 DEF Decoded
<1>. QED  BY <1>1, <1>2, <1>3, <1>4, <1>5, <1>6, <1>7

LEMMA ContentDecodeForeign ==
    ASSUME ContentInv, DecodeForeign
    PROVE  ContentInv'
<1>. USE ForeignAssumption, MaxForeignAssumption DEF ContentInv
<1>1. PICK c \in Foreign : decoder' = DecodeChar(decoder, c)
  BY DEF DecodeForeign
<1>2. /\ way = "decode" /\ ~done /\ foreign < MaxForeign /\ foreign' = foreign + 1
      /\ used' = used + 1
      /\ UNCHANGED <<way, done, file, pos, encoder, sent, reader, room>>
  BY DEF DecodeForeign, Decoding, Wrote
<1>3. c \in Char /\ DecodeValue(c) < 0
  BY DecodeValueForeign
<1>4. decoder' = decoder
  BY <1>1, <1>3, DecodeSteps
<1>5. TypeOK'
  BY <1>2, <1>4 DEF TypeOK
<1>6. Decoded'
  BY <1>1, <1>2, <1>3, DecodedStep
<1>7. DecodedSoFar'
  BY <1>2, <1>4 DEF DecodedSoFar, GroupLength, ByteAt
<1>. QED
  BY <1>2, <1>5, <1>6, <1>7 DEF EncodedSoFar, Written, PostedSoFar, Over

LEMMA ContentTextEnds ==
    ASSUME ContentInv, TextEnds
    PROVE  ContentInv'
<1>. USE DEF ContentInv
<1>1. /\ way = "decode" /\ ~done /\ pos = Len(file) /\ done' = TRUE
      /\ UNCHANGED <<way, file, pos, encoder, decoder, sent, foreign, reader, used, room>>
  BY DEF TextEnds, Decoding
<1>2. TypeOK'
  BY <1>1 DEF TypeOK
<1>3. decoder.out = file
  BY <1>1 DEF DecodedSoFar
<1>4. Over'
  BY <1>1, <1>3 DEF Over, Received
<1>5. DecodedSoFar' /\ Decoded'
  BY <1>1 DEF DecodedSoFar, Decoded, GroupLength, ByteAt
<1>. QED
  BY <1>1, <1>2, <1>4, <1>5 DEF EncodedSoFar, Written, PostedSoFar

LEMMA DecoderTypes ==
    ASSUME TypeOK, UNCHANGED <<way, done, file, encoder, foreign, reader, room>>,
           pos' \in 0 .. Len(file), sent' \in 0 .. 3, used' = used + 1,
           NEW step \in {"a", "b", "c", "d"}, NEW begun \in Byte,
           NEW n \in 0 .. Len(file),
           decoder' = [step |-> step, begun |-> begun, out |-> Upto(file, n)]
    PROVE  TypeOK'
<1>1. Upto(file, n) \in Seq(Byte)
  BY UptoProperties DEF TypeOK
<1>2. decoder' \in [step : {"a", "b", "c", "d"}, begun : Byte, out : Seq(Byte)]
  BY <1>1
<1>. QED  BY <1>2 DEF TypeOK

LEMMA ContentDecodeNext ==
    ASSUME ContentInv, DecodeNext
    PROVE  ContentInv'
<1>. USE DEF ContentInv
<1>. DEFINE a == file[pos + 1]
            b == ByteAt(pos + 2)
            c == ByteAt(pos + 3)
            L == GroupLength
<1>1. PICK x \in Char : InGroup(sent + 1, x) /\ decoder' = DecodeChar(decoder, x)
  BY DEF DecodeNext
<1>2. /\ way = "decode" /\ ~done /\ pos < Len(file) /\ used' = used + 1
      /\ sent' = (sent + 1) % 4 /\ pos' = IF sent = 3 THEN pos + GroupLength ELSE pos
      /\ UNCHANGED <<way, done, file, encoder, foreign, reader, room>>
  BY DEF DecodeNext, Decoding, Wrote
<1>3. pos \in Nat /\ Len(file) \in Nat /\ file \in Seq(Byte) /\ sent \in 0 .. 3
  BY DEF TypeOK
<1>4. a \in Byte /\ b \in Byte /\ c \in Byte /\ ByteAt(pos + 1) = a
  <2>1. ASSUME NEW i \in Nat, i > 0 PROVE ByteAt(i) \in Byte
    <3>1. i <= Len(file) => file[i] \in Byte
      BY <1>3, <2>1
    <3>. QED  BY <3>1 DEF ByteAt, Byte
  <2>2. pos + 1 \in Nat /\ pos + 2 \in Nat /\ pos + 3 \in Nat
        /\ pos + 1 > 0 /\ pos + 2 > 0 /\ pos + 3 > 0 /\ pos + 1 <= Len(file)
    BY <1>2, <1>3
  <2>3. ByteAt(pos + 1) = a
    BY <2>2 DEF ByteAt
  <2>. QED  BY <2>1, <2>2, <2>3
<1>5. /\ L \in 1 .. 3 /\ pos + L <= Len(file)
      /\ L < 3 => pos + L = Len(file)
  BY <1>2, <1>3 DEF GroupLength
<1>6. /\ L >= 2 => b = file[pos + 2]
      /\ L >= 3 => c = file[pos + 3]
  <2>1. (L >= 2 => pos + 2 <= Len(file)) /\ (L >= 3 => pos + 3 <= Len(file))
    BY <1>3, <1>5
  <2>. QED  BY <2>1 DEF ByteAt
<1>. HIDE DEF a, b, c, L
<1>7. Decoded'
  BY <1>1, <1>2, DecodedStep
<1>8. EncodedSoFar' /\ Written' /\ PostedSoFar' /\ Over'
  BY <1>2 DEF EncodedSoFar, Written, PostedSoFar, Over
<1>9. SUFFICES TypeOK' /\ DecodedSoFar'
  BY <1>7, <1>8
<1>10. InGroup(sent + 1, x) =>
         IF sent > L THEN x = Pad ELSE Value(x) = SextetOf(Packed(a, b, c), sent + 1)
  <2>1. (sent + 1 > L + 1) <=> (sent > L)
    BY <1>3, <1>5
  <2>. QED  BY <1>4, <2>1 DEF InGroup, b, c, L
<1>. DEFINE v == DecodeValue(x)
<1>11. CASE sent > L
  \* Padding: nothing happens until the group is over.
  <2>1. x = Pad /\ v < 0
    BY <1>1, <1>10, <1>11, PadIsForeign, DecodeValueForeign
  <2>2. decoder' = decoder
    BY <1>1, <2>1, DecodeSteps
  <2>3. CASE sent = 2
    <3>1. L = 1 /\ sent' = 3 /\ pos' = pos
      BY <1>2, <1>5, <1>11, <2>3
    <3>2. decoder.step = "c" /\ decoder.out = Upto(file, pos + 1)
      BY <1>2, <2>3 DEF DecodedSoFar
    <3>3. GroupLength' = 1
      BY <1>2, <3>1 DEF GroupLength, L
    <3>4. DecodedSoFar'
      BY <1>2, <1>3, <2>2, <3>1, <3>2, <3>3 DEF DecodedSoFar
    <3>5. TypeOK'
      BY <1>2, <2>2, <3>1 DEF TypeOK
    <3>. QED  BY <3>4, <3>5
  <2>4. CASE sent = 3
    <3>1. L \in 1 .. 2 /\ sent' = 0 /\ pos' = pos + L /\ pos' = Len(file)
      BY <1>2, <1>5, <1>11, <2>4 DEF L
    <3>2. decoder.out = Upto(file, pos + L)
      BY <1>2, <2>4, <3>1 DEF DecodedSoFar, L
    <3>3. decoder'.out = file'
      BY <1>2, <1>3, <2>2, <3>1, <3>2, UptoAll
    <3>4. DecodedSoFar'
      BY <1>2, <1>3, <3>1, <3>3 DEF DecodedSoFar
    <3>5. TypeOK'
      BY <1>2, <1>3, <2>2, <3>1 DEF TypeOK
    <3>. QED  BY <3>4, <3>5
  <2>. QED  BY <1>3, <1>5, <1>11, <2>3, <2>4
<1>12. CASE ~(sent > L)
  <2>. DEFINE p == Packed(a, b, c)
  <2>1. Value(x) = SextetOf(p, sent + 1)
    BY <1>1, <1>10, <1>12
  <2>2. /\ SextetOf(p, 1) = a \div 4
        /\ SextetOf(p, 2) = (a % 4) * 16 + b \div 16
        /\ SextetOf(p, 3) = (b % 16) * 4 + c \div 64
        /\ SextetOf(p, 4) = c % 64
    BY <1>4, Sextets
  <2>. HIDE DEF p
  <2>3. PICK qa \in 0 .. 63, ra \in 0 .. 3 : a = qa * 4 + ra /\ a \div 4 = qa /\ a % 4 = ra
    BY <1>4, Parts4
  <2>4. PICK qb \in 0 .. 15, rb \in 0 .. 15 :
           b = qb * 16 + rb /\ b \div 16 = qb /\ b % 16 = rb
    BY <1>4, Parts16
  <2>5. PICK qc \in 0 .. 3, rc \in 0 .. 63 :
           c = qc * 64 + rc /\ c \div 64 = qc /\ c % 64 = rc
    BY <1>4, Parts64
  <2>6. CASE sent = 0
    <3>1. Value(x) = qa
      BY <2>1, <2>2, <2>3, <2>6
    <3>2. v = qa
      BY <3>1, DecodeValueMeans
    <3>3. decoder.step = "a" /\ decoder.out = Upto(file, pos) /\ sent' = 1 /\ pos' = pos
      BY <1>2, <2>6 DEF DecodedSoFar
    <3>4. decoder' = [step |-> "b", begun |-> qa * 4, out |-> Upto(file, pos)]
      BY <1>1, <3>2, <3>3, DecodeSteps
    <3>5. TypeOK'
      <4>1. qa * 4 \in Byte /\ pos \in 0 .. Len(file)
        BY <1>2, <1>3 DEF Byte
      <4>. QED  BY <1>2, <3>3, <3>4, <4>1, DecoderTypes
    <3>6. DecodedSoFar'
      <4>1. decoder'.begun = (file'[pos' + 1] \div 4) * 4
        BY <1>2, <2>3, <3>3, <3>4 DEF a
      <4>. QED  BY <1>2, <1>3, <3>3, <3>4, <4>1 DEF DecodedSoFar
    <3>. QED  BY <3>5, <3>6
  <2>7. CASE sent = 1
    <3>1. Value(x) = ra * 16 + qb
      BY <2>1, <2>2, <2>3, <2>4, <2>7
    <3>2. v = ra * 16 + qb /\ v >= 0 /\ v \div 16 = ra /\ v % 16 = qb
      <4>1. v = ra * 16 + qb
        BY <3>1, DecodeValueMeans
      <4>. QED  BY <4>1
    <3>3. decoder.step = "b" /\ decoder.out = Upto(file, pos) /\ decoder.begun = qa * 4
          /\ sent' = 2 /\ pos' = pos
      BY <1>2, <2>3, <2>7 DEF DecodedSoFar, a
    <3>4. decoder' = [step |-> "c", begun |-> qb * 16, out |-> Append(Upto(file, pos), a)]
      BY <1>1, <2>3, <3>2, <3>3, DecodeSteps
    <3>5. decoder' = [step |-> "c", begun |-> qb * 16, out |-> Upto(file, pos + 1)]
      <4>1. pos \in 0 .. Len(file)
        BY <1>2, <1>3
      <4>. QED  BY <1>2, <1>3, <3>4, <4>1, UptoAppend DEF a
    <3>6. TypeOK'
      <4>1. qb * 16 \in Byte /\ pos \in 0 .. Len(file) /\ pos + 1 \in 0 .. Len(file)
        BY <1>2, <1>3 DEF Byte
      <4>. QED  BY <1>2, <3>3, <3>5, <4>1, DecoderTypes
    <3>7. DecodedSoFar'
      <4>1. decoder'.begun = (ByteAt(pos + 2)' \div 16) * 16
        BY <1>2, <2>4, <3>3, <3>5 DEF b, ByteAt
      <4>. QED  BY <1>2, <1>3, <3>3, <3>5, <4>1 DEF DecodedSoFar
    <3>. QED  BY <3>6, <3>7
  <2>8. CASE sent = 2
    <3>1. Value(x) = rb * 4 + qc
      BY <2>1, <2>2, <2>4, <2>5, <2>8
    <3>2. v = rb * 4 + qc /\ v >= 0 /\ v \div 4 = rb /\ v % 4 = qc
      <4>1. v = rb * 4 + qc
        BY <3>1, DecodeValueMeans
      <4>. QED  BY <4>1
    <3>3. decoder.step = "c" /\ decoder.out = Upto(file, pos + 1) /\ decoder.begun = qb * 16
          /\ sent' = 3 /\ pos' = pos
      BY <1>2, <2>4, <2>8 DEF DecodedSoFar, b
    <3>4. L >= 2 /\ b = file[pos + 2] /\ pos + 2 <= Len(file)
      BY <1>3, <1>5, <1>6, <1>12, <2>8
    <3>5. decoder' = [step |-> "d", begun |-> qc * 64, out |-> Append(Upto(file, pos + 1), b)]
      BY <1>1, <2>4, <3>2, <3>3, DecodeSteps
    <3>6. decoder' = [step |-> "d", begun |-> qc * 64, out |-> Upto(file, pos + 2)]
      <4>. DEFINE n == pos + 1
      <4>1. n \in 0 .. Len(file) /\ n < Len(file) /\ n + 1 = pos + 2
        BY <1>3, <3>4
      <4>. HIDE DEF n
      <4>2. Append(Upto(file, n), file[n + 1]) = Upto(file, n + 1)
        BY <1>3, <4>1, UptoAppend
      <4>. QED  BY <3>4, <3>5, <4>1, <4>2 DEF n
    <3>7. TypeOK'
      <4>1. qc * 64 \in Byte /\ pos \in 0 .. Len(file) /\ pos + 2 \in 0 .. Len(file)
        BY <1>2, <1>3, <3>4 DEF Byte
      <4>. QED  BY <1>2, <3>3, <3>6, <4>1, DecoderTypes
    <3>8. DecodedSoFar'
      <4>1. decoder'.begun = (ByteAt(pos + 3)' \div 64) * 64
        BY <1>2, <2>5, <3>3, <3>6 DEF c, ByteAt
      <4>2. GroupLength' # 1
        BY <1>2, <1>3, <3>3, <3>4 DEF GroupLength, L
      <4>. QED  BY <1>2, <1>3, <3>3, <3>6, <4>1, <4>2 DEF DecodedSoFar
    <3>. QED  BY <3>7, <3>8
  <2>9. CASE sent = 3
    <3>1. Value(x) = rc
      BY <2>1, <2>2, <2>5, <2>9
    <3>2. v = rc
      BY <3>1, DecodeValueMeans
    <3>3. L = 3 /\ c = file[pos + 3] /\ pos + 3 <= Len(file)
      BY <1>5, <1>6, <1>12, <2>9
    <3>4. decoder.step = "d" /\ decoder.out = Upto(file, pos + 2) /\ decoder.begun = qc * 64
          /\ sent' = 0 /\ pos' = pos + 3
      BY <1>2, <2>5, <2>9, <3>3 DEF DecodedSoFar, c, L
    <3>5. decoder' = [step |-> "a", begun |-> 0, out |-> Append(Upto(file, pos + 2), c)]
      <4>1. v >= 0 /\ decoder.begun + v = c
        BY <2>5, <3>2, <3>4
      <4>. QED  BY <1>1, <3>4, <4>1, DecodeSteps
    <3>6. decoder' = [step |-> "a", begun |-> 0, out |-> Upto(file, pos + 3)]
      <4>. DEFINE n == pos + 2
      <4>1. n \in 0 .. Len(file) /\ n < Len(file) /\ n + 1 = pos + 3
        BY <1>3, <3>3
      <4>. HIDE DEF n
      <4>2. Append(Upto(file, n), file[n + 1]) = Upto(file, n + 1)
        BY <1>3, <4>1, UptoAppend
      <4>. QED  BY <3>3, <3>5, <4>1, <4>2 DEF n
    <3>7. TypeOK'
      <4>1. 0 \in Byte /\ pos + 3 \in 0 .. Len(file)
        BY <1>2, <1>3, <3>3 DEF Byte
      <4>. QED  BY <1>2, <3>4, <3>6, <4>1, DecoderTypes
    <3>8. DecodedSoFar'
      <4>1. pos' = Len(file) => Upto(file, pos') = file
        BY <1>3, UptoAll
      <4>. QED  BY <1>2, <1>3, <3>4, <3>6, <4>1 DEF DecodedSoFar
    <3>. QED  BY <3>7, <3>8
  <2>. QED  BY <1>3, <2>6, <2>7, <2>8, <2>9
<1>. QED  BY <1>11, <1>12

LEMMA ContentStep == ContentInv /\ [Next]_vars => ContentInv'
<1>. SUFFICES ASSUME ContentInv, [Next]_vars PROVE ContentInv'
  OBVIOUS
<1>1. CASE BeginEncode
  BY <1>1, ContentBegin DEF BeginEncode
<1>2. CASE BeginXop
  BY <1>2, ContentBegin DEF BeginXop
<1>3. CASE BeginDecode
  BY <1>3, ContentBegin DEF BeginDecode
<1>4. CASE EncodeA
  BY <1>4, ContentEncodeA
<1>5. CASE EncodeB
  BY <1>5, ContentEncodeB
<1>6. CASE EncodeC
  BY <1>6, ContentEncodeC
<1>7. CASE EncodeEnd
  BY <1>7, ContentEncodeEnd
<1>8. CASE \E n \in 1 .. MaxBlock : Read(n)
  BY <1>8, ContentRead
<1>9. CASE PartSent
  BY <1>9, ContentPartSent
<1>10. CASE Rewind
  BY <1>10, ContentRewind
<1>11. CASE DecodeNext
  BY <1>11, ContentDecodeNext
<1>12. CASE DecodeForeign
  BY <1>12, ContentDecodeForeign
<1>13. CASE TextEnds
  BY <1>13, ContentTextEnds
<1>14. CASE UNCHANGED vars
  <2>. USE <1>14 DEF vars, ContentInv
  <2>1. TypeOK'
    BY DEF TypeOK
  <2>2. EncodedSoFar' /\ Written' /\ PostedSoFar'
    BY DEF EncodedSoFar, Written, PostedSoFar
  <2>3. DecodedSoFar'
    BY DEF DecodedSoFar, GroupLength, ByteAt
  <2>4. Decoded' /\ Over'
    BY DEF Decoded, Over, Received
  <2>. QED  BY <2>1, <2>2, <2>3, <2>4
<1>. QED
  BY <1>1, <1>2, <1>3, <1>4, <1>5, <1>6, <1>7, <1>8, <1>9, <1>10, <1>11, <1>12, <1>13, <1>14
  DEF Next

\* What the invariant says of the other end.
LEMMA SoFarIsPrefix ==
    ASSUME ContentInv
    PROVE  \E n \in 0 .. Len(file) : Received = Upto(file, n)
<1>. USE DEF ContentInv
<1>1. /\ pos \in Nat /\ pos <= Len(file) /\ Len(file) \in Nat /\ file \in Seq(Byte)
      /\ sent \in 0 .. 3 /\ way \in {"encode", "xop", "decode"}
      /\ encoder.step \in {"A", "B", "C"}
  BY DEF TypeOK
<1>2. Upto(file, Len(file)) = file
  BY <1>1, UptoAll
<1>3. CASE done
  BY <1>1, <1>2, <1>3 DEF Over
<1>4. CASE ~done /\ way = "encode"
  <2>1. Received = reader.out
    BY <1>4 DEF Received
  <2>2. CASE encoder.step = "A"
    BY <1>1, <1>4, <2>1, <2>2 DEF EncodedSoFar
  <2>3. CASE encoder.step = "B"
    <3>1. reader.out = Upto(file, pos - 1) /\ pos >= 1
      BY <1>4, <2>3 DEF EncodedSoFar
    <3>. QED  BY <1>1, <2>1, <3>1
  <2>4. CASE encoder.step = "C"
    <3>1. reader.out = Upto(file, pos - 2) /\ pos >= 2
      BY <1>4, <2>4 DEF EncodedSoFar
    <3>. QED  BY <1>1, <2>1, <3>1
  <2>. QED  BY <1>1, <2>2, <2>3, <2>4
<1>5. CASE ~done /\ way = "xop"
  BY <1>1, <1>5 DEF PostedSoFar, Received
<1>6. CASE way = "decode"
  <2>1. Received = decoder.out
    BY <1>6 DEF Received
  <2>2. CASE pos = Len(file)
    BY <1>1, <1>2, <1>6, <2>1, <2>2 DEF DecodedSoFar
  <2>3. CASE pos < Len(file) /\ sent = 0
    BY <1>1, <1>6, <2>1, <2>3 DEF DecodedSoFar
  <2>4. CASE pos < Len(file) /\ sent = 1
    BY <1>1, <1>6, <2>1, <2>4 DEF DecodedSoFar
  <2>5. CASE pos < Len(file) /\ sent = 2
    BY <1>1, <1>6, <2>1, <2>5 DEF DecodedSoFar
  <2>6. CASE pos < Len(file) /\ sent = 3 /\ GroupLength = 1
    BY <1>1, <1>6, <2>1, <2>6 DEF DecodedSoFar
  <2>7. CASE pos < Len(file) /\ sent = 3 /\ GroupLength # 1
    <3>1. pos + 2 <= Len(file)
      BY <1>1, <2>7 DEF GroupLength
    <3>. QED  BY <1>1, <1>6, <2>1, <2>7, <3>1 DEF DecodedSoFar
  <2>. QED  BY <1>1, <2>2, <2>3, <2>4, <2>5, <2>6, <2>7
<1>. QED  BY <1>1, <1>3, <1>4, <1>5, <1>6

LEMMA InvArrives == ContentInv => Arrives
<1>. SUFFICES ASSUME ContentInv PROVE Arrives
  OBVIOUS
<1>1. file \in Seq(Byte)
  BY DEF ContentInv, TypeOK
<1>2. PICK n \in 0 .. Len(file) : Received = Upto(file, n)
  BY SoFarIsPrefix
<1>3. Len(Received) = n
  BY <1>1, <1>2, UptoProperties
<1>4. Received = SubSeq(file, 1, Len(Received))
  BY <1>2, <1>3 DEF Upto
<1>. QED  BY <1>4 DEF Arrives, ContentInv, Over

LEMMA InvWithinBuffer == ContentInv => WithinBuffer
<1>. SUFFICES ASSUME ContentInv PROVE WithinBuffer
  OBVIOUS
<1>. USE DEF ContentInv
<1>1. /\ pos \in Nat /\ pos <= Len(file) /\ Len(file) \in Nat /\ used \in Nat
      /\ encoder.step \in {"A", "B", "C"} /\ decoder.step \in {"a", "b", "c", "d"}
      /\ Len(decoder.out) \in Nat
  BY DEF TypeOK
<1>2. ASSUME way = "encode" PROVE used <= room
  <2>1. CASE done
    BY <1>2, <2>1 DEF Over
  <2>2. CASE ~done
    BY <1>1, <1>2, <2>2 DEF Written
  <2>. QED  BY <2>1, <2>2
<1>3. ASSUME way = "decode", used > 0 PROVE Len(decoder.out) < used
  BY <1>1, <1>3 DEF Decoded
<1>. QED  BY <1>2, <1>3 DEF WithinBuffer

-----------------------------------------------------------------------------
\* The types of a transfer, of contents and texts of any length.
THEOREM ContentTypes == Spec => []TypeOK
<1>1. ContentInv => TypeOK
  BY DEF ContentInv
<1>. QED  BY ContentInit, ContentStep, <1>1, PTL DEF Spec

\* The other end has the content from its beginning, and all of it in the end:
\* what _isds_base64_encode_block() and its end write is Base64 of the content,
\* what _isds_base64_decode_block() reads is the content that was encoded, with
\* foreign characters wherever they stand, and what CURL takes through
\* read_callback() is the file, however often seek_callback() goes back.
THEOREM ContentArrives == Spec => []Arrives
<1>. QED  BY ContentInit, ContentStep, InvArrives, PTL DEF Spec

\* Neither _isds_b64encode() nor _isds_b64decode() leaves its buffer.
THEOREM ContentWithinBuffer == Spec => []WithinBuffer
<1>. QED  BY ContentInit, ContentStep, InvWithinBuffer, PTL DEF Spec

=============================================================================
