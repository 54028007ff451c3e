------------------------------- MODULE Base64 -------------------------------
(***************************************************************************)
(* Base64 as RFC 4648 has it (Value, Packed: the other side's reading) and *)
(* as the library's tables and its decoder have it (cencode.c, cdecode.c). *)
(* A byte is its bit pattern; a character is an int8_t.                    *)
(***************************************************************************)
EXTENDS Integers, Sequences

Byte == 0 .. 255
Char == -128 .. 127
Sextet == 0 .. 63

Pad == 61           \* '='

-----------------------------------------------------------------------------
\* The alphabet of RFC 4648: what a character stands for, -1 for none.
Value(c) ==
    CASE c \in 65 .. 90  -> c - 65
      [] c \in 97 .. 122 -> c - 71
      [] c \in 48 .. 57  -> c + 4
      [] c = 43          -> 62
      [] c = 47          -> 63
      [] OTHER           -> -1

\* The bits of three bytes (absent ones are zero), as one number, and its
\* sextets and bytes.
Packed(a, b, c) == a * 65536 + b * 256 + c
SextetOf(packed, i) ==
    CASE i = 1 -> ((packed \div 64) \div 64) \div 64
      [] i = 2 -> ((packed \div 64) \div 64) % 64
      [] i = 3 -> (packed \div 64) % 64
      [] i = 4 -> packed % 64
ByteOf(packed, i) ==
    CASE i = 1 -> (packed \div 256) \div 256
      [] i = 2 -> (packed \div 256) % 256
      [] i = 3 -> packed % 256

-----------------------------------------------------------------------------
\* base64_encode_value()
EncodeValue(v) ==
    CASE v \in 0 .. 25  -> v + 65
      [] v \in 26 .. 51 -> v + 71
      [] v \in 52 .. 61 -> v - 4
      [] v = 62         -> 43
      [] v = 63         -> 47
      [] OTHER          -> Pad

Int8(n) == ((n + 128) % 256) - 128

\* Mutant: padding counts as zero bits.
DecodeValue_PadIsZero(c) ==
    LET v == Int8(c - 43) IN
    CASE v = 0         -> 62
      [] v = 4         -> 63
      [] v \in 5 .. 14 -> v + 47
      [] v = 18        -> 0
      [] v \in 22 .. 47 -> v - 22
      [] v \in 54 .. 79 -> v - 28
      [] OTHER         -> -1

\* base64_decode_value(): the table starts at '+' and has 80 entries; '=' is
\* the one marked -2.
DecodeValue(c) ==
    LET v == Int8(c - 43) IN
    CASE v = 0         -> 62
      [] v = 4         -> 63
      [] v \in 5 .. 14 -> v + 47
      [] v = 18        -> -2
      [] v \in 22 .. 47 -> v - 22
      [] v \in 54 .. 79 -> v - 28
      [] OTHER         -> -1

\* One character more for the decoder: its step, the byte begun (plainchar) and
\* what it has put out.  Characters of no value are passed over.  After step d
\* the byte begun is what the buffer holds there; step a overwrites it.
DecodeChar(d, c) ==
    LET v == DecodeValue(c) IN
    CASE v < 0        -> d
      [] v >= 0 /\ d.step = "a" -> [d EXCEPT !.step = "b", !.begun = v * 4]
      [] v >= 0 /\ d.step = "b" -> [step |-> "c", begun |-> (v % 16) * 16,
                                    out |-> Append(d.out, d.begun + v \div 16)]
      [] v >= 0 /\ d.step = "c" -> [step |-> "d", begun |-> (v % 4) * 64,
                                    out |-> Append(d.out, d.begun + v \div 4)]
      [] v >= 0 /\ d.step = "d" -> [step |-> "a", begun |-> 0,
                                    out |-> Append(d.out, d.begun + v)]

DecoderStart == [step |-> "a", begun |-> 0, out |-> <<>>]

-----------------------------------------------------------------------------
\* The other side reads: sextets gather, and four of them are three bytes.
ReadChar(r, c) ==
    IF Len(r.sextets) < 3 THEN [r EXCEPT !.sextets = Append(@, Value(c))]
    ELSE LET packed == ((r.sextets[1] * 64 + r.sextets[2]) * 64 + r.sextets[3]) * 64
                         + Value(c)
         IN  [sextets |-> <<>>,
              out |-> r.out \o <<ByteOf(packed, 1), ByteOf(packed, 2), ByteOf(packed, 3)>>]

\* The end after a number of pads; what does not come out even is not Base64.
ReadEnd(r, pads) ==
    CASE pads = 0 /\ r.sextets = <<>> -> r
      [] pads = 2 /\ Len(r.sextets) = 2 /\ r.sextets[2] % 16 = 0 ->
            [sextets |-> <<>>, out |-> Append(r.out, r.sextets[1] * 4 + r.sextets[2] \div 16)]
      [] pads = 1 /\ Len(r.sextets) = 3 /\ r.sextets[3] % 4 = 0 ->
            [sextets |-> <<>>,
             out |-> r.out \o <<r.sextets[1] * 4 + r.sextets[2] \div 16,
                                (r.sextets[2] % 16) * 16 + r.sextets[3] \div 4>>]
      [] OTHER -> [r EXCEPT !.sextets = Append(@, -1)]

ReaderStart == [sextets |-> <<>>, out |-> <<>>]

=============================================================================
