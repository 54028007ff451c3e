-------------------------- MODULE ContentTransfer --------------------------
(***************************************************************************)
(* The content of a document or an attachment on its way between the       *)
(* application and the server:                                             *)
(*   "encode"  as Base64 text in the request (insert_dmFile(),             *)
(*             insert_document(), _isds_b64encode()),                      *)
(*   "xop"     as it is in a part of its own, taken by CURL through        *)
(*             callbacks (isds_UploadAttachment_mtomxop(), mimepost()),    *)
(*   "decode"  as Base64 text in an answer (_isds_b64decode()).            *)
(* An attachment that arrives in a part of its own is in XopDownload.      *)
(***************************************************************************)
EXTENDS Base64

CONSTANTS Contents,     \* contents that are transferred
          LineGroups,   \* groups of four characters in a line (CHARS_PER_LINE / 4)
          MaxBlock,     \* the most CURL asks the read callback for
          Foreign,      \* characters outside the alphabet that may stand in a text
          MaxForeign    \* how many of them in one text (bound)

ASSUME ContentsAssumption == Contents \subseteq Seq(Byte)
ASSUME LineGroupsAssumption == LineGroups \in Nat \ {0}
ASSUME MaxBlockAssumption == MaxBlock \in Nat \ {0}
ASSUME ForeignAssumption == Foreign \subseteq {c \in Char : Value(c) = -1}
ASSUME MaxForeignAssumption == MaxForeign \in Nat

VARIABLES way,          \* how the content is transferred
          done,         \* the transfer is over
          file,         \* the content
          pos,          \* how much of it is taken: by the encoder, CURL, the server
          encoder,      \* base64_encodestate
          decoder,      \* base64_decodestate, and what is decoded
          sent,         \* characters of the group in progress the server has sent
          foreign,      \* foreign characters in its text
          reader,       \* the server reading
          used,         \* characters written to the buffer, or read from the text
          room          \* characters the buffer was allocated for

vars == <<way, done, file, pos, encoder, decoder, sent, foreign, reader, used, room>>

EncoderStart == [step |-> "A", result |-> 0, groups |-> 0]

Init ==
    /\ way = "encode" /\ done = TRUE /\ file = <<>> /\ pos = 0
    /\ encoder = EncoderStart /\ decoder = DecoderStart /\ reader = ReaderStart
    /\ sent = 0 /\ foreign = 0 /\ used = 0 /\ room = 0

\* Mutant: room for the characters and the terminator, none for line ends.
Begin_NoLineEnds(w) ==
    /\ done
    /\ way' = w /\ done' = FALSE
    /\ file' \in Contents
    /\ pos' = 0
    /\ encoder' = EncoderStart /\ decoder' = DecoderStart /\ reader' = ReaderStart
    /\ sent' = 0 /\ foreign' = 0 /\ used' = 0
    /\ room' = ((Len(file') + 2) \div 3) * 4 + 1

Begin(w) ==
    /\ done
    /\ way' = w /\ done' = FALSE
    /\ file' \in Contents
    /\ pos' = 0
    /\ encoder' = EncoderStart /\ decoder' = DecoderStart /\ reader' = ReaderStart
    /\ sent' = 0 /\ foreign' = 0 /\ used' = 0
    /\ room' = Len(file') * 2 + 6

\* insert_dmFile() refuses to upload nothing, insert_document() does not.
BeginEncode == Begin("encode")
BeginXop == Begin("xop") /\ file' # <<>>
BeginDecode == Begin("decode")

-----------------------------------------------------------------------------
(***************************************************************************)
(* _isds_base64_encode_block(), case by case, and the server reading what  *)
(* it writes; line ends mean nothing to the server.                        *)
(***************************************************************************)
Encoding == way = "encode" /\ ~done
Plain == file[pos + 1]

Wrote(n) == used' = used + n
Took == pos' = pos + 1

EncodeA ==
    /\ Encoding /\ encoder.step = "A" /\ pos < Len(file)
    /\ Took /\ Wrote(1)
    /\ reader' = ReadChar(reader, EncodeValue(Plain \div 4))
    /\ encoder' = [encoder EXCEPT !.step = "B", !.result = (Plain % 4) * 16]
    /\ UNCHANGED <<way, done, file, decoder, sent, foreign, room>>

EncodeB ==
    /\ Encoding /\ encoder.step = "B" /\ pos < Len(file)
    /\ Took /\ Wrote(1)
    /\ reader' = ReadChar(reader, EncodeValue(encoder.result + Plain \div 16))
    /\ encoder' = [encoder EXCEPT !.step = "C", !.result = (Plain % 16) * 4]
    /\ UNCHANGED <<way, done, file, decoder, sent, foreign, room>>

\* The third byte is two characters and, in the last group of a line, a third.
EncodeC ==
    /\ Encoding /\ encoder.step = "C" /\ pos < Len(file)
    /\ Took
    /\ Wrote(IF encoder.groups + 1 = LineGroups THEN 3 ELSE 2)
    /\ reader' = ReadChar(ReadChar(reader, EncodeValue(encoder.result + Plain \div 64)),
                          EncodeValue(Plain % 64))
    /\ encoder' = [step |-> "A", result |-> Plain % 64,
                   groups |-> IF encoder.groups + 1 = LineGroups THEN 0
                              ELSE encoder.groups + 1]
    /\ UNCHANGED <<way, done, file, decoder, sent, foreign, room>>

\* _isds_base64_encode_blockend() and the zero that _isds_b64encode() appends.
EncodeEnd ==
    /\ Encoding /\ pos = Len(file)
    /\ done' = TRUE
    /\ CASE encoder.step = "A" -> reader' = ReadEnd(reader, 0) /\ Wrote(2)
         [] encoder.step = "B" ->
              reader' = ReadEnd(ReadChar(reader, EncodeValue(encoder.result)), 2) /\ Wrote(5)
         [] encoder.step = "C" ->
              reader' = ReadEnd(ReadChar(reader, EncodeValue(encoder.result)), 1) /\ Wrote(4)
    /\ UNCHANGED <<way, file, pos, encoder, decoder, sent, foreign, room>>

-----------------------------------------------------------------------------
(***************************************************************************)
(* CURL takes a part through read_callback(), and goes back with           *)
(* seek_callback() when it has to send the request again.                  *)
(***************************************************************************)
Posting == way = "xop" /\ ~done

\* A call that returns nothing is the end of the part for CURL.
Read(n) ==
    LET rest == Len(file) - pos
        size == IF rest > n THEN n ELSE rest
    IN  /\ Posting /\ Len(reader.out) < Len(file)
        /\ reader' = [reader EXCEPT !.out = @ \o SubSeq(file, pos + 1, pos + size)]
        /\ pos' = pos + size
        /\ done' = (size = 0)
        /\ UNCHANGED <<way, file, encoder, decoder, sent, foreign, used, room>>

PartSent ==
    /\ Posting /\ Len(reader.out) = Len(file)
    /\ done' = TRUE
    /\ UNCHANGED <<way, file, pos, encoder, decoder, sent, foreign, reader, used, room>>

Origin == {"SEEK_SET", "SEEK_CUR", "SEEK_END"}

\* Mutant: offsets from the end count backwards.
SeekTo_Backwards(origin, offset) ==
    CASE origin = "SEEK_END" -> Len(file) - offset
      [] origin = "SEEK_CUR" -> pos + offset
      [] origin = "SEEK_SET" -> offset

SeekTo(origin, offset) ==
    CASE origin = "SEEK_END" -> Len(file) + offset
      [] origin = "SEEK_CUR" -> pos + offset
      [] origin = "SEEK_SET" -> offset

\* What lseek(2) calls the place it starts from, and so does CURL.
Base(origin) ==
    CASE origin = "SEEK_END" -> Len(file)
      [] origin = "SEEK_CUR" -> pos
      [] origin = "SEEK_SET" -> 0

\* CURL sends again from a place it has been at; the server forgets the rest.
Rewind ==
    /\ Posting
    /\ \E origin \in Origin, place \in 0 .. Len(reader.out) :
         LET offset == place - Base(origin) IN
         /\ pos' = SeekTo(origin, offset)
         /\ reader' = [reader EXCEPT !.out = SubSeq(@, 1, place)]
    /\ UNCHANGED <<way, done, file, encoder, decoder, sent, foreign, used, room>>

-----------------------------------------------------------------------------
(***************************************************************************)
(* The server sends a text in groups, with foreign characters anywhere,    *)
(* and _isds_base64_decode_block() takes it character by character.        *)
(***************************************************************************)
Decoding == way = "decode" /\ ~done

ByteAt(i) == IF i <= Len(file) THEN file[i] ELSE 0
GroupLength == IF Len(file) - pos > 3 THEN 3 ELSE Len(file) - pos

\* The i-th character of the group after pos may be this one.
InGroup(i, c) ==
    IF i > GroupLength + 1 THEN c = Pad
    ELSE Value(c) = SextetOf(Packed(ByteAt(pos + 1), ByteAt(pos + 2), ByteAt(pos + 3)), i)

DecodeNext ==
    /\ Decoding /\ pos < Len(file)
    /\ \E c \in Char : InGroup(sent + 1, c) /\ decoder' = DecodeChar(decoder, c)
    /\ Wrote(1)
    /\ sent' = (sent + 1) % 4
    /\ pos' = IF sent = 3 THEN pos + GroupLength ELSE pos
    /\ UNCHANGED <<way, done, file, encoder, foreign, reader, room>>

DecodeForeign ==
    /\ Decoding /\ foreign < MaxForeign
    /\ \E c \in Foreign : decoder' = DecodeChar(decoder, c)
    /\ Wrote(1)
    /\ foreign' = foreign + 1
    /\ UNCHANGED <<way, done, file, pos, encoder, sent, reader, room>>

TextEnds ==
    /\ Decoding /\ pos = Len(file)
    /\ done' = TRUE
    /\ UNCHANGED <<way, file, pos, encoder, decoder, sent, foreign, reader, used, room>>

-----------------------------------------------------------------------------
Next ==
    \/ BeginEncode \/ BeginXop \/ BeginDecode
    \/ EncodeA \/ EncodeB \/ EncodeC \/ EncodeEnd
    \/ (\E n \in 1 .. MaxBlock : Read(n)) \/ PartSent \/ Rewind
    \/ DecodeNext \/ DecodeForeign \/ TextEnds

Spec == Init /\ [][Next]_vars

-----------------------------------------------------------------------------
Received == IF way = "decode" THEN decoder.out ELSE reader.out

\* The types of a transfer.
TypeOK ==
    /\ way \in {"encode", "xop", "decode"}
    /\ done \in BOOLEAN
    /\ file \in Seq(Byte)
    /\ pos \in 0 .. Len(file)
    /\ encoder \in [step : {"A", "B", "C"}, result : Sextet, groups : 0 .. LineGroups - 1]
    /\ decoder \in [step : {"a", "b", "c", "d"}, begun : Byte, out : Seq(Byte)]
    /\ sent \in 0 .. 3
    /\ foreign \in 0 .. MaxForeign
    /\ reader \in [sextets : Seq(Sextet), out : Seq(Byte)]
    /\ used \in Nat
    /\ room \in Nat

\* What the other end has is the content from its beginning, and all of it in
\* the end, whatever its length and wherever lines break, CURL cuts or begins
\* again, or foreign characters stand.
Arrives ==
    /\ Received = SubSeq(file, 1, Len(Received))
    /\ done => Received = file

\* _isds_b64encode() allocates two characters for a byte and six more, and
\* _isds_b64decode() as many bytes as the text has characters, of which the
\* byte begun (read and written at the end of what is decoded) is one.
WithinBuffer ==
    /\ way = "encode" => used <= room
    /\ way = "decode" /\ used > 0 => Len(decoder.out) < used

=============================================================================
