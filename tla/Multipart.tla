----------------------------- MODULE Multipart -----------------------------
(***************************************************************************)
(* The reader of multipart bodies: multipart_parser.c, a byte at a time,   *)
(* multipart_intermediate.c, which gathers what the parser hands over, and *)
(* multipart_parts.c, which keeps the parts.                               *)
(*                                                                         *)
(* CURL calls write_multipart_body() with one chunk of the body after      *)
(* another and the library does not choose where a chunk ends.  The parser *)
(* hands names, values and contents over as runs of bytes of the chunk it  *)
(* was called with, so the end of a chunk cuts a run.  Here `body' is the  *)
(* whole body, `pos' the byte to be read and `mark' where the run begins;  *)
(* every action takes `last', whether its byte is the last of its chunk.   *)
(***************************************************************************)
EXTENDS Naturals, Sequences

CONSTANTS
    Byte,       \* the bytes of bodies and headers
    Letter,     \* those of a header name, with the hyphen
    LowerCase,  \* function from upper case letters to lower case ones
    FieldName,  \* the names of the headers that are kept, by field
    Null        \* no value

CR == "CR"
LF == "LF"
SP == "SP"
HY == "-"
COLON == ":"

Field == {"id", "type", "encoding"}

ASSUME BytesAssumption ==
    /\ {CR, LF, SP, HY, COLON} \cup Letter \subseteq Byte
    /\ LowerCase \in [DOMAIN LowerCase -> Byte]
    /\ FieldName \in [Field -> Seq(Letter)]

\* Letters are none of the signs around names, and the names differ.
ASSUME NamesAssumption ==
    /\ Letter \cap {CR, LF, SP, COLON} = {}
    /\ \A f, g \in Field : FieldName[f] = FieldName[g] => f = g

VARIABLES
    body,       \* the body as sent by the server
    pos,        \* index of the byte to be read
    mark,       \* index of the first byte of the run not handed over yet
    parser,     \* struct multipart_parser, Null until the boundary is known
    interm,     \* struct multipart_intermediate
    parts       \* struct multipart_parts

multipartVars == <<body, pos, mark, parser, interm, parts>>

(***************************************************************************)
(* Types.  A header that came twice is invalid and its value is forgotten  *)
(* when the part is complete.                                              *)
(***************************************************************************)
ParserState ==
    {"start_boundary", "header_field_start", "header_field",
     "headers_almost_done", "header_value_start", "header_value",
     "header_value_almost_done", "part_data_start", "part_data",
     "part_data_almost_boundary", "part_data_boundary",
     "part_data_almost_end", "part_data_end", "part_data_final_hyphen",
     "end"}

Text == Seq(Byte)
TextOrNull == Text \cup {Null}

Part == [id : TextOrNull, type : TextOrNull, encoding : TextOrNull,
         invalid : SUBSET Field, data : Text]

NewPart == [id |-> Null, type |-> Null, encoding |-> Null,
            invalid |-> {}, data |-> <<>>]

Interm == [hfld : Text, hval : Text, content : Text, unfinished : BOOLEAN]

NewInterm == [hfld |-> <<>>, hval |-> <<>>, content |-> <<>>,
              unfinished |-> FALSE]

\* processed is Null between parts, root is the place of the root part in
\* the list, 0 without one.
Parts == [expected : TextOrNull, processed : Part \cup {Null},
          list : Seq(Part), root : Nat]

NewParts == [expected |-> Null, processed |-> Null, list |-> <<>>, root |-> 0]

Parser == [boundary : Text, state : ParserState, index : Nat]

ASSUME NullAssumption == Null \notin Text \cup Part \cup Parser

\* multipart_parser_init(): the boundary is kept with its two hyphens.
NewParser(boundary) ==
    [boundary |-> <<HY, HY>> \o boundary, state |-> "start_boundary", index |-> 0]

-----------------------------------------------------------------------------
(***************************************************************************)
(* The parts: on_hfld_and_hval_read() and on_content_read().               *)
(***************************************************************************)
Lower(name) ==
    [k \in 1..Len(name) |-> IF name[k] \in DOMAIN LowerCase
                            THEN LowerCase[name[k]] ELSE name[k]]

Current == IF parts.processed = Null THEN NewPart ELSE parts.processed

\* A header is kept when its name is one of the three; the second of a name
\* makes the field invalid.
WithHeader(part, name, value) ==
    IF \E f \in Field : FieldName[f] = name
    THEN LET f == CHOOSE g \in Field : FieldName[g] = name
         IN  IF part[f] = Null THEN [part EXCEPT ![f] = value]
                               ELSE [part EXCEPT !.invalid = @ \cup {f}]
    ELSE part

Kept(part, f) == IF f \in part.invalid THEN Null ELSE part[f]

Normalised(part, content) ==
    [id |-> Kept(part, "id"), type |-> Kept(part, "type"),
     encoding |-> Kept(part, "encoding"),
     invalid |-> part.invalid, data |-> content]

\* Mutant: the place of the root is taken from the list to come.
WithContent_RootPastEnd(content) ==
    LET part == Normalised(Current, content)
        list == Append(parts.list, part)
    IN  IF part.id \in {Null, <<>>}
        THEN [parts EXCEPT !.processed = Null]
        ELSE [parts EXCEPT !.processed = Null, !.list = list,
                !.root = IF @ = 0 /\ part.id = parts.expected THEN Len(list) + 1 ELSE @]

\* A part without an identifier is dropped; the first part with the expected
\* identifier is the root.
WithContent(content) ==
    LET part == Normalised(Current, content)
        list == Append(parts.list, part)
    IN  IF part.id \in {Null, <<>>}
        THEN [parts EXCEPT !.processed = Null]
        ELSE [parts EXCEPT !.processed = Null, !.list = list,
                !.root = IF @ = 0 /\ part.id = parts.expected THEN Len(list) ELSE @]

-----------------------------------------------------------------------------
(***************************************************************************)
(* Handing over.                                                           *)
(***************************************************************************)
ReadingBody == parser # Null /\ pos <= Len(body)

At(states) == ReadingBody /\ parser.state \in states

\* Every byte may end a chunk, the last one of the body does.
MayEnd(last) == pos = Len(body) => last

\* Past this byte; the next chunk starts a new run at its first byte.
Past(m, last) ==
    /\ MayEnd(last)
    /\ pos' = pos + 1
    /\ mark' = IF last THEN pos + 1 ELSE m

GoTo(state) == parser' = [parser EXCEPT !.state = state]

Run(m) == SubSeq(body, m, pos - 1)

\* Mutant: the rest of a chunk is not handed over.
Cut_Forgotten(m, last) == <<>>

\* A run that goes on is handed over only with the last byte of a chunk.
Cut(m, last) == IF last THEN SubSeq(body, m, pos) ELSE <<>>

-----------------------------------------------------------------------------
(***************************************************************************)
(* multipart_parser_execute(), one action per branch of its states.        *)
(*                                                                         *)
(* The first boundary, which has to be the very start of the body.         *)
(***************************************************************************)
FirstLine == parser.boundary \o <<CR, LF>>

FirstBoundary(last) ==
    /\ At({"start_boundary"})
    /\ body[pos] = FirstLine[parser.index + 1]
    /\ Past(mark, last)
    /\ IF parser.index + 1 < Len(FirstLine)
       THEN /\ parser' = [parser EXCEPT !.index = @ + 1]
            /\ interm' = interm
       ELSE /\ parser' = [parser EXCEPT !.state = "header_field_start", !.index = 0]
            /\ interm' = [interm EXCEPT !.content = <<>>]
    /\ UNCHANGED <<body, parts>>

(***************************************************************************)
(* Headers of a part.                                                      *)
(***************************************************************************)
InName == At({"header_field_start", "header_field"})

NameMark == IF parser.state = "header_field_start" THEN pos ELSE mark

NameByte(last) ==
    /\ InName
    /\ body[pos] \in Letter \cup {HY}
    /\ Past(NameMark, last)
    /\ GoTo("header_field")
    /\ interm' = [interm EXCEPT !.hfld = @ \o Lower(Cut(NameMark, last))]
    /\ UNCHANGED <<body, parts>>

NameEnd(last) ==
    /\ InName
    /\ body[pos] = COLON
    /\ Past(NameMark, last)
    /\ GoTo("header_value_start")
    /\ interm' = [interm EXCEPT !.hfld = @ \o Lower(Run(NameMark))]
    /\ UNCHANGED <<body, parts>>

\* The empty line after the headers, and any line without a colon.
HeadersEnd(last) ==
    /\ InName
    /\ body[pos] = CR
    /\ Past(NameMark, last)
    /\ GoTo("headers_almost_done")
    /\ UNCHANGED <<body, interm, parts>>

HeadersDone(last) ==
    /\ At({"headers_almost_done"})
    /\ body[pos] = LF
    /\ Past(mark, last)
    /\ GoTo("part_data_start")
    /\ UNCHANGED <<body, interm, parts>>

ValueSpace(last) ==
    /\ At({"header_value_start"})
    /\ body[pos] = SP
    /\ Past(mark, last)
    /\ UNCHANGED <<body, parser, interm, parts>>

InValue ==
    \/ At({"header_value"})
    \/ At({"header_value_start"}) /\ body[pos] # SP

ValueMark == IF parser.state = "header_value_start" THEN pos ELSE mark

ValueByte(last) ==
    /\ InValue
    /\ body[pos] # CR
    /\ Past(ValueMark, last)
    /\ GoTo("header_value")
    /\ interm' = [interm EXCEPT !.hval = @ \o Cut(ValueMark, last)]
    /\ UNCHANGED <<body, parts>>

ValueEnd(last) ==
    /\ InValue
    /\ body[pos] = CR
    /\ Past(ValueMark, last)
    /\ GoTo("header_value_almost_done")
    /\ parts' = [parts EXCEPT !.processed =
                    WithHeader(Current, interm.hfld, interm.hval \o Run(ValueMark))]
    /\ interm' = [interm EXCEPT !.hfld = <<>>, !.hval = <<>>]
    /\ UNCHANGED body

HeaderDone(last) ==
    /\ At({"header_value_almost_done"})
    /\ body[pos] = LF
    /\ Past(mark, last)
    /\ GoTo("header_field_start")
    /\ UNCHANGED <<body, interm, parts>>

(***************************************************************************)
(* Content.  What may be the start of a boundary is held back and handed   *)
(* over from a copy, `lookbehind', when it turns out to be content.        *)
(***************************************************************************)
\* Mutant: the line end in front of a supposed boundary is forgotten.
LookBehind_BoundaryOnly ==
    IF parser.state = "part_data_boundary"
    THEN SubSeq(parser.boundary, 1, parser.index) ELSE <<>>

LookBehind ==
    CASE parser.state = "part_data_almost_boundary" -> <<CR>>
      [] parser.state = "part_data_boundary" ->
            <<CR, LF>> \o SubSeq(parser.boundary, 1, parser.index)
      [] OTHER -> <<>>

\* The state s_part_data on the byte at pos, with a content already gathered
\* and a run from m.
Content(content, m, last) ==
    LET run == IF body[pos] = CR THEN Run(m) ELSE Cut(m, last)
    IN  /\ Past(IF body[pos] = CR THEN pos ELSE m, last)
        /\ GoTo(IF body[pos] = CR THEN "part_data_almost_boundary" ELSE "part_data")
        /\ interm' = [interm EXCEPT !.content = content \o run,
                        !.unfinished = @ \/ LookBehind # <<>> \/ run # <<>>]
        /\ UNCHANGED <<body, parts>>

FirstDataByte(last) ==
    /\ At({"part_data_start"})
    /\ Content(<<>>, pos, last)

DataByte(last) ==
    /\ At({"part_data"})
    /\ Content(interm.content, mark, last)

AlmostBoundary(last) ==
    /\ At({"part_data_almost_boundary"})
    /\ body[pos] = LF
    /\ Past(mark, last)
    /\ parser' = [parser EXCEPT !.state = "part_data_boundary", !.index = 0]
    /\ UNCHANGED <<body, interm, parts>>

\* Mutant: the run goes on from where it began before the look behind.
NoBoundary_OldMark(last) ==
    /\ \/ At({"part_data_almost_boundary"}) /\ body[pos] # LF
       \/ At({"part_data_boundary"}) /\ body[pos] # parser.boundary[parser.index + 1]
    /\ Content(interm.content \o LookBehind, mark, last)

NoBoundary(last) ==
    /\ \/ At({"part_data_almost_boundary"}) /\ body[pos] # LF
       \/ At({"part_data_boundary"}) /\ body[pos] # parser.boundary[parser.index + 1]
    /\ Content(interm.content \o LookBehind, pos, last)

BoundaryByte(last) ==
    /\ At({"part_data_boundary"})
    /\ body[pos] = parser.boundary[parser.index + 1]
    /\ parser.index + 1 < Len(parser.boundary)
    /\ Past(mark, last)
    /\ parser' = [parser EXCEPT !.index = @ + 1]
    /\ UNCHANGED <<body, interm, parts>>

\* part_data_end() of multipart_intermediate.c.
PartRead ==
    /\ parts' = WithContent(interm.content)
    /\ interm' = [interm EXCEPT !.content = <<>>, !.unfinished = FALSE]

BoundaryEnd(last) ==
    /\ At({"part_data_boundary"})
    /\ body[pos] = parser.boundary[parser.index + 1]
    /\ parser.index + 1 = Len(parser.boundary)
    /\ Past(mark, last)
    /\ parser' = [parser EXCEPT !.state = "part_data_almost_end", !.index = @ + 1]
    /\ PartRead
    /\ UNCHANGED body

(***************************************************************************)
(* After a boundary: another part, or the end and whatever follows it.     *)
(***************************************************************************)
AfterBoundary(last) ==
    /\ At({"part_data_almost_end"})
    /\ \/ body[pos] = HY /\ GoTo("part_data_final_hyphen")
       \/ body[pos] = CR /\ GoTo("part_data_end")
    /\ Past(mark, last)
    /\ UNCHANGED <<body, interm, parts>>

NextPart(last) ==
    /\ At({"part_data_end"})
    /\ body[pos] = LF
    /\ Past(mark, last)
    /\ GoTo("header_field_start")
    /\ interm' = [interm EXCEPT !.content = <<>>]
    /\ UNCHANGED <<body, parts>>

FinalHyphen(last) ==
    /\ At({"part_data_final_hyphen"})
    /\ body[pos] = HY
    /\ Past(mark, last)
    /\ GoTo("end")
    /\ UNCHANGED <<body, interm, parts>>

Epilogue(last) ==
    /\ At({"end"})
    /\ Past(mark, last)
    /\ UNCHANGED <<body, parser, interm, parts>>

(***************************************************************************)
(* A byte no state accepts: the parser returns in the middle of the chunk. *)
(* write_multipart_body() does not look at how far it got, so the rest of  *)
(* the chunk is lost and the next chunk goes on in the same state.         *)
(***************************************************************************)
Unexpected ==
    \/ At({"start_boundary"}) /\ body[pos] # FirstLine[parser.index + 1]
    \/ InName /\ body[pos] \notin Letter \cup {HY, COLON, CR}
    \/ At({"headers_almost_done", "header_value_almost_done", "part_data_end"})
         /\ body[pos] # LF
    \/ At({"part_data_almost_end"}) /\ body[pos] \notin {HY, CR}
    \/ At({"part_data_final_hyphen"}) /\ body[pos] # HY

Refuse ==
    /\ Unexpected
    /\ \E next \in (pos + 1) .. (Len(body) + 1) : pos' = next /\ mark' = next
    /\ IF parser.state = "header_field_start" THEN GoTo("header_field")
                                              ELSE parser' = parser
    /\ UNCHANGED <<body, interm, parts>>

(***************************************************************************)
(* multipart_intermediate_finish(), after the last byte: content without a *)
(* boundary behind it makes a part as well.                                *)
(***************************************************************************)
Finished ==
    IF parser # Null /\ interm.unfinished
    THEN PartRead
    ELSE UNCHANGED <<interm, parts>>

Accept(last) ==
    \/ FirstBoundary(last)
    \/ NameByte(last) \/ NameEnd(last) \/ HeadersEnd(last) \/ HeadersDone(last)
    \/ ValueSpace(last) \/ ValueByte(last) \/ ValueEnd(last) \/ HeaderDone(last)
    \/ FirstDataByte(last) \/ DataByte(last)
    \/ AlmostBoundary(last) \/ NoBoundary(last)
    \/ BoundaryByte(last) \/ BoundaryEnd(last)
    \/ AfterBoundary(last) \/ NextPart(last) \/ FinalHyphen(last)
    \/ Epilogue(last)

ReadBody == (\E last \in BOOLEAN : Accept(last)) \/ Refuse

-----------------------------------------------------------------------------
(***************************************************************************)
(* Properties.                                                             *)
(***************************************************************************)

\* The types of the reader's state; the look behind of the parser never holds
\* more than the line end and the boundary it has room for.
MultipartTypeOK ==
    /\ body \in Text
    /\ pos \in 1 .. (Len(body) + 1) /\ mark \in 1 .. (Len(body) + 1)
    /\ \/ parser = Null
       \/ parser \in Parser /\ parser.index <= Len(parser.boundary) + 1
    /\ interm \in Interm
    /\ parts \in Parts /\ parts.root <= Len(parts.list)

InContent ==
    parser # Null /\ parser.state \in
        {"part_data", "part_data_almost_boundary", "part_data_boundary"}

Gathered ==
    interm.content \o (IF parser.state = "part_data" THEN Run(mark) ELSE LookBehind)

\* What was gathered of a content, with the run not handed over and the bytes
\* held back, is what was received since the line end in front of it.
NothingLost ==
    InContent =>
        LET length == Len(Gathered)
        IN  /\ length + 1 < pos
            /\ Gathered = SubSeq(body, pos - length, pos - 1)
            /\ body[pos - length - 1] = LF

=============================================================================
