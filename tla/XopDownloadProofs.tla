------------------------- MODULE XopDownloadProofs -------------------------
(***************************************************************************)
(* Proofs about the download of an attachment with MTOM/XOP: the types of  *)
(* the reader's state (TypeOK), that no byte of a content is lost wherever *)
(* CURL cuts the chunks (NoByteLost), and that the parts in the list are   *)
(* the pieces of the body between the end of their headers and the first   *)
(* delimiter after it (ContentsDelimited).                                 *)
(***************************************************************************)
EXTENDS XopDownload, SequenceTheorems, WellFoundedInduction, TLAPS

-----------------------------------------------------------------------------
(***************************************************************************)
(* Places and slices of texts.                                             *)
(***************************************************************************)

LEMMA Least ==
    ASSUME NEW T \in SUBSET Nat, T # {}
    PROVE  \E x \in T : \A y \in T : x <= y
<1>1. PICK x \in T : \A y \in T : <<y, x>> \notin OpToRel(<, Nat)
    BY NatLessThanWellFounded, WFMin
<1>2. \A y \in T : ~(y < x)
    BY <1>1 DEF OpToRel
<1>. QED  BY <1>2

LEMMA FirstPlaceFound ==
    ASSUME NEW n \in Nat, NEW T \in SUBSET (1 .. n)
    PROVE  FirstPlace(T) \in 0 .. n
<1>1. T \in SUBSET Nat
    OBVIOUS
<1>2. T # {} => Min(T) \in T
    BY <1>1, Least DEF Min
<1>3. CASE T = {}
    BY <1>3 DEF FirstPlace
<1>4. CASE T # {}
  <2>1. FirstPlace(T) = Min(T)
      BY <1>4 DEF FirstPlace
  <2>2. \A x \in T : x \in 0 .. n
      OBVIOUS
  <2>. HIDE DEF FirstPlace
  <2>. QED  BY <1>2, <1>4, <2>1, <2>2
<1>. QED  BY <1>3, <1>4

LEMMA FirstFound ==
    ASSUME NEW T \in SUBSET Nat, T # {}
    PROVE  First(T) \in T /\ \A k \in T : First(T) <= k
BY Least DEF First

LEMMA Slice ==
    ASSUME NEW text \in Text, NEW m \in Nat \ {0}, NEW n \in Nat, n <= Len(text)
    PROVE  /\ SubSeq(text, m, n) \in Text
           /\ Len(SubSeq(text, m, n)) = IF m <= n THEN n - m + 1 ELSE 0
           /\ \A i \in 1 .. (n - m + 1) : SubSeq(text, m, n)[i] = text[m + i - 1]
<1>1. \A i \in m .. n : text[i] \in Byte
    BY ElementOfSeq DEF Text
<1>. QED  BY <1>1, SubSeqProperties DEF Text

LEMMA RestIsText ==
    ASSUME NEW text \in Text, NEW m \in Nat
    PROVE  m # 0 => SubSeq(text, m, Len(text)) \in Text
<1>1. Len(text) \in Nat
    BY DEF Text
<1>. QED  BY <1>1, Slice

LEMMA OneByte ==
    ASSUME NEW text \in Text, NEW n \in 1 .. Len(text)
    PROVE  SubSeq(text, n, n) = <<text[n]>> /\ <<text[n]>> \in Text
<1>1. text[n] \in Byte
    BY ElementOfSeq DEF Text
<1>2. <<text[n]>> \in Text
    BY <1>1 DEF Text
<1>3. /\ SubSeq(text, n, n) \in Text /\ Len(SubSeq(text, n, n)) = 1
      /\ SubSeq(text, n, n)[1] = text[n]
    BY Slice
<1>4. /\ Len(<<text[n]>>) = 1
      /\ \A i \in 1 .. 1 : SubSeq(text, n, n)[i] = <<text[n]>>[i]
    BY <1>3
<1>. HIDE DEF Text
<1>5. \A a, b : a \in Text /\ b \in Text /\ Len(a) = Len(b)
                /\ (\A i \in 1 .. Len(a) : a[i] = b[i]) => a = b
    BY SeqEqual DEF Text
<1>. QED  BY <1>2, <1>3, <1>4, <1>5

LEMMA Joined ==
    ASSUME NEW a \in Text, NEW b \in Text
    PROVE  a \o b \in Text /\ Len(a \o b) = Len(a) + Len(b)
BY ConcatProperties DEF Text

LEMMA Associative ==
    ASSUME NEW a \in Text, NEW b \in Text, NEW c \in Text
    PROVE  (a \o b) \o c = a \o (b \o c)
BY ConcatAssociative DEF Text

LEMMA EmptyAdded == ASSUME NEW a \in Text PROVE a \o <<>> = a /\ <<>> \o a = a
BY ConcatEmptySeq DEF Text

LEMMA TwoBytes ==
    ASSUME NEW a \in Byte, NEW b \in Byte
    PROVE  <<a>> \o <<b>> = <<a, b>>
<1>. DEFINE first == <<a>>
            second == <<b>>
            both == <<a, b>>
<1>1. /\ first \in Seq(Byte) /\ Len(first) = 1 /\ first[1] = a
      /\ second \in Seq(Byte) /\ Len(second) = 1 /\ second[1] = b
      /\ both \in Seq(Byte) /\ Len(both) = 2 /\ both[1] = a /\ both[2] = b
    OBVIOUS
<1>. HIDE DEF first, second, both
<1>2. /\ first \o second \in Seq(Byte) /\ Len(first \o second) = Len(first) + Len(second)
      /\ \A i \in 1 .. Len(first) + Len(second) :
           (first \o second)[i] = IF i <= Len(first) THEN first[i] ELSE second[i - Len(first)]
    BY <1>1, ConcatProperties
<1>3. PICK joined : joined = first \o second
    OBVIOUS
<1>4. /\ joined \in Seq(Byte) /\ Len(joined) = 2 /\ joined[1] = a /\ joined[2] = b
    BY <1>1, <1>2, <1>3
<1>5. joined = both
    BY <1>1, <1>4, SeqEqual
<1>. QED  BY <1>3, <1>5 DEF first, second, both

LEMMA ValueIsText ==
    ASSUME NEW text \in Text
    PROVE  ValueAt(text) \in Text
<1>. DEFINE start == FirstPlace({n \in DOMAIN text : text[n] \notin White})
            rest == IF start = 0 THEN <<>> ELSE SubSeq(text, start, Len(text))
            semi == FirstPlace({n \in DOMAIN rest : rest[n] = Semicolon})
            cut == IF semi = 0 THEN rest ELSE SubSeq(rest, 1, semi - 1)
            value == IF cut # <<>> /\ Last(cut) \in White THEN Front(cut) ELSE cut
<1>1. start \in 0 .. Len(text)
  <2>1. DOMAIN text = 1 .. Len(text) /\ Len(text) \in Nat
      BY DEF Text
  <2>2. {n \in DOMAIN text : text[n] \notin White} \in SUBSET (1 .. Len(text))
      BY <2>1
  <2>. QED  BY <2>1, <2>2, FirstPlaceFound
<1>2. rest \in Text
  <2>1. <<>> \in Text
      BY DEF Text
  <2>. HIDE DEF start
  <2>. QED  BY <1>1, <2>1, RestIsText
<1>3. semi \in 0 .. Len(rest)
  <2>. HIDE DEF rest
  <2>1. DOMAIN rest = 1 .. Len(rest) /\ Len(rest) \in Nat
      BY <1>2 DEF Text
  <2>2. {n \in DOMAIN rest : rest[n] = Semicolon} \in SUBSET (1 .. Len(rest))
      BY <2>1
  <2>. QED  BY <2>1, <2>2, FirstPlaceFound
<1>4. cut \in Text
  <2>. HIDE DEF rest, semi
  <2>. QED  BY <1>2, <1>3, Slice DEF Text
<1>5. value \in Text
  <2>. HIDE DEF cut
  <2>. QED  BY <1>4, Slice DEF Text, Front
<1>. HIDE DEF value
<1>6. Len(value) >= 2 => SubSeq(value, 2, Len(value) - 1) \in Text
    BY <1>5, Slice DEF Text
<1>7. ValueAt(text) = IF Len(value) < 2 THEN <<>>
                      ELSE IF Len(value) > 2 /\ Head(value) = Quote /\ Last(value) = Quote
                      THEN SubSeq(value, 2, Len(value) - 1)
                      ELSE value
    BY DEF ValueAt, value
<1>8. <<>> \in Text
    BY DEF Text
<1>9. Len(value) \in Nat
    BY <1>5 DEF Text
<1>. QED  BY <1>5, <1>6, <1>7, <1>8, <1>9

LEMMA AssignedIsText ==
    ASSUME NEW text \in Text, NEW name
    PROVE  AssignedValue(text, name) \in Text
<1>. DEFINE at == FirstPlace({n \in DOMAIN text : text[n] = name})
<1>1. at \in 0 .. Len(text)
  <2>1. DOMAIN text = 1 .. Len(text) /\ Len(text) \in Nat
      BY DEF Text
  <2>2. {n \in DOMAIN text : text[n] = name} \in SUBSET (1 .. Len(text))
      BY <2>1
  <2>. QED  BY <2>1, <2>2, FirstPlaceFound
<1>. HIDE DEF at
<1>2. ValueAt(SubSeq(text, at + 1, Len(text))) \in Text
    BY <1>1, RestIsText, ValueIsText
<1>3. <<>> \in Text
    BY DEF Text
<1>. QED  BY <1>2, <1>3 DEF AssignedValue, at

LEMMA LowerIsText ==
    ASSUME NEW name \in Text
    PROVE  Lower(name) \in Text
<1>1. \A k \in 1 .. Len(name) : name[k] \in Byte
    BY ElementOfSeq DEF Text
<1>2. \A k \in 1 .. Len(name) :
        (IF name[k] \in DOMAIN LowerCase THEN LowerCase[name[k]] ELSE name[k]) \in Byte
    BY <1>1, BytesAssumption
<1>3. Lower(name) \in [1 .. Len(name) -> Byte]
    BY <1>2 DEF Lower
<1>. QED  BY <1>3 DEF Text

-----------------------------------------------------------------------------
(***************************************************************************)
(* The parts.                                                              *)
(***************************************************************************)

LEMMA CurrentIsPart ==
    ASSUME parts \in Parts
    PROVE  Current \in Part
<1>1. NewPart \in Part
    BY DEF NewPart, Part, TextOrNull, Text
<1>. QED  BY <1>1 DEF Current, Parts

LEMMA WithHeaderIsPart ==
    ASSUME NEW part \in Part, NEW name \in Text, NEW value \in Text
    PROVE  WithHeader(part, name, value) \in Part
<1>1. \A f \in Field :
        /\ [part EXCEPT ![f] = value] \in Part
        /\ [part EXCEPT !.invalid = @ \cup {f}] \in Part
  <2>1. TAKE f \in Field
  <2>2. CASE f = "id"
      BY <2>2 DEF Part, TextOrNull, Field
  <2>3. CASE f = "type"
      BY <2>3 DEF Part, TextOrNull, Field
  <2>4. CASE f = "encoding"
      BY <2>4 DEF Part, TextOrNull, Field
  <2>. QED  BY <2>2, <2>3, <2>4 DEF Field
<1>. QED  BY <1>1 DEF WithHeader

LEMMA NormalisedIsPart ==
    ASSUME NEW part \in Part, NEW content \in Text
    PROVE  Normalised(part, content) \in Part /\ Normalised(part, content).data = content
BY DEF Normalised, Kept, Part, TextOrNull

\* The content ends up in the part at the end of the list, or nowhere.
LEMMA WithContentParts ==
    ASSUME parts \in Parts, parts.root <= Len(parts.list), NEW content \in Text
    PROVE  /\ WithContent(content) \in Parts
           /\ WithContent(content).root <= Len(WithContent(content).list)
           /\ WithContent(content).expected = parts.expected
           /\ \/ WithContent(content).list = parts.list
              \/ /\ Len(WithContent(content).list) = Len(parts.list) + 1
                 /\ WithContent(content).list[Len(parts.list) + 1].data = content
                 /\ \A n \in 1 .. Len(parts.list) :
                      WithContent(content).list[n] = parts.list[n]
<1>. DEFINE part == Normalised(Current, content)
<1>1. part \in Part /\ part.data = content
    BY CurrentIsPart, NormalisedIsPart
<1>. HIDE DEF part
<1>2. parts.list \in Seq(Part) /\ parts.root \in Nat /\ parts.expected \in TextOrNull
    BY DEF Parts
<1>3. /\ Append(parts.list, part) \in Seq(Part)
      /\ Len(Append(parts.list, part)) = Len(parts.list) + 1
      /\ \A n \in 1 .. Len(parts.list) : Append(parts.list, part)[n] = parts.list[n]
      /\ Append(parts.list, part)[Len(parts.list) + 1] = part
    BY <1>1, <1>2, AppendProperties
<1>4. Len(parts.list) \in Nat
    BY <1>2
<1>5. CASE part.id \in {Null, <<>>}
  <2>1. WithContent(content) = [parts EXCEPT !.processed = Null]
      BY <1>5 DEF WithContent, part
  <2>. QED  BY <1>2, <2>1 DEF Parts
<1>6. CASE part.id \notin {Null, <<>>}
  <2>1. PICK root : /\ root \in {parts.root, Len(parts.list) + 1}
                    /\ WithContent(content) =
                         [parts EXCEPT !.processed = Null, !.list = Append(parts.list, part),
                                       !.root = root]
    <3>1. WithContent(content) =
            [parts EXCEPT !.processed = Null, !.list = Append(parts.list, part),
               !.root = IF parts.root = 0 /\ part.id = parts.expected
                        THEN Len(Append(parts.list, part)) ELSE parts.root]
        BY <1>6 DEF WithContent, part, Parts
    <3>. QED  BY <1>3, <3>1
  <2>2. /\ WithContent(content) \in Parts
        /\ WithContent(content).root = root
        /\ WithContent(content).list = Append(parts.list, part)
        /\ WithContent(content).expected = parts.expected
    <3>1. PICK list \in Seq(Part) : list = Append(parts.list, part)
        BY <1>3
    <3>2. root \in Nat
        BY <1>2, <1>4, <2>1
    <3>. DEFINE new == [parts EXCEPT !.processed = Null, !.list = list, !.root = root]
    <3>3. /\ new \in Parts /\ new.root = root /\ new.list = list
          /\ new.expected = parts.expected
        BY <3>2 DEF Parts
    <3>4. WithContent(content) = new
        BY <2>1, <3>1
    <3>. HIDE DEF new
    <3>. QED  BY <3>1, <3>3, <3>4
  <2>. QED  BY <1>1, <1>2, <1>3, <1>4, <2>1, <2>2
<1>. QED  BY <1>5, <1>6

-----------------------------------------------------------------------------
(***************************************************************************)
(* The invariants.                                                         *)
(***************************************************************************)

\* The boundary has its two hyphens, and the parser is in front of its end
\* while it compares.
Bounded ==
    parser # Null =>
        /\ Len(parser.boundary) >= 2
        /\ parser.state = "part_data_boundary" => parser.index < Len(parser.boundary)

\* Nothing is parsed before the body, nor in a body that is no multipart one.
Waiting ==
    /\ phase = "headers" \/ ~multi =>
         /\ parser # Null => parser.state = "start_boundary"
         /\ parts.list = <<>> /\ ~interm.unfinished
    /\ phase = "headers" => pos = 1 /\ mark = 1

\* The run begins in front of a byte of the body, and is empty at its end.
RunAt(m, p) == m <= p /\ (p > Len(body) => m = p)

\* A content begins behind a line end; only in a content is anything gathered.
InFront ==
    /\ RunAt(mark, pos)
    /\ parser # Null /\ parser.state = "part_data_start" => pos > 1 /\ body[pos - 1] = LF
    /\ interm.unfinished => InContent

ContentEnd == <<CR, LF>> \o parser.boundary

\* The end of a content may stand at this place.
Delimits(k) ==
    /\ k + Len(ContentEnd) - 1 <= Len(body)
    /\ \A i \in 1 .. Len(ContentEnd) : body[k + i - 1] = ContentEnd[i]

Unbroken == \A i \in 1 .. Len(parser.boundary) : parser.boundary[i] # CR

Beginning == pos - Len(Gathered)

\* The only place in a content where its end may have begun is the one the
\* parser looks behind at.
OneCandidate ==
    InContent /\ Unbroken =>
        \A k \in Beginning .. (pos - 1) :
            (\A i \in 1 .. Len(ContentEnd) : k + i - 1 < pos => body[k + i - 1] = ContentEnd[i])
                => k = pos - Len(LookBehind)

\* Where the contents of the parts stand in the body: in their order, each up to
\* the first delimiter after its beginning.  The last one may lack a delimiter
\* when the body is read and has no room for one.
StandAt(from, to) ==
    \A n \in 1 .. Len(parts.list) :
        /\ from[n] > 1 /\ from[n] <= to[n] + 1 /\ to[n] < pos
        /\ body[from[n] - 1] = LF
        /\ parts.list[n].data = SubSeq(body, from[n], to[n])
        /\ \A k \in from[n] .. to[n] : ~Delimits(k)
        /\ \/ Delimits(to[n] + 1)
           \/ /\ n = Len(parts.list) /\ phase # "body"
              /\ Len(body) < to[n] + Len(ContentEnd)
        /\ \A m \in 1 .. Len(parts.list) : m > n => to[n] + Len(ContentEnd) < from[m]

Border == IF InContent THEN Beginning ELSE pos

Ledger ==
    parser # Null /\ Unbroken =>
        \E from, to \in [1 .. Len(parts.list) -> Nat] :
            /\ StandAt(from, to)
            /\ phase = "body" => \A n \in 1 .. Len(parts.list) : to[n] + Len(ContentEnd) < Border

Reading == phase \in {"headers", "body"} => NothingLost /\ OneCandidate

ContentsDelimited ==
    parser # Null /\ Unbroken =>
        \E from, to \in [1 .. Len(parts.list) -> Nat] : StandAt(from, to)

-----------------------------------------------------------------------------
(***************************************************************************)
(* Bytes outside contents.                                                 *)
(***************************************************************************)

Reader == MultipartTypeOK /\ Bounded /\ InFront

LEMMA PastStep ==
    ASSUME Reader, pos <= Len(body), NEW m \in 1 .. pos, NEW last \in BOOLEAN, Past(m, last)
    PROVE  /\ pos' = pos + 1 /\ pos' \in 1 .. (Len(body) + 1)
           /\ mark' \in 1 .. (Len(body) + 1) /\ RunAt(mark', pos')
<1>1. pos \in Nat /\ Len(body) \in Nat
    BY DEF Reader, MultipartTypeOK, Text
<1>. QED  BY <1>1 DEF Past, MayEnd, RunAt

LEMMA ParserKnown ==
    ASSUME Reader, parser # Null
    PROVE  /\ parser \in Parser
           /\ parser.boundary \in Text /\ Len(parser.boundary) \in Nat /\ parser.index \in Nat
           /\ parser.index <= Len(parser.boundary) + 1
           /\ Len(parser.boundary) >= 2
<1>1. parser \in Parser /\ parser.index <= Len(parser.boundary) + 1
    BY DEF Reader, MultipartTypeOK
<1>. QED  BY <1>1 DEF Reader, Bounded, Parser, Text

\* The parser goes to a state with an index within the boundary.
LEMMA ParserStep ==
    ASSUME Reader, parser # Null, NEW state \in ParserState, NEW index \in Nat,
           index <= Len(parser.boundary) + 1,
           state = "part_data_boundary" => index < Len(parser.boundary),
           parser' = [parser EXCEPT !.state = state, !.index = index]
    PROVE  /\ parser' \in Parser /\ parser' # Null
           /\ parser'.boundary = parser.boundary
           /\ parser'.state = state /\ parser'.index = index
           /\ parser'.index <= Len(parser'.boundary) + 1
           /\ Bounded'
<1>1. parser \in Parser /\ Len(parser.boundary) >= 2
    BY ParserKnown
<1>2. /\ parser' \in Parser /\ parser'.boundary = parser.boundary
      /\ parser'.state = state /\ parser'.index = index
    BY <1>1 DEF Parser
<1>3. parser' # Null
    BY <1>2, NullAssumption
<1>. QED  BY <1>1, <1>2, <1>3 DEF Bounded

LEMMA GoToStep ==
    ASSUME Reader, parser # Null, NEW state \in ParserState \ {"part_data_boundary"},
           GoTo(state)
    PROVE  /\ parser' \in Parser /\ parser' # Null
           /\ parser'.boundary = parser.boundary
           /\ parser'.state = state /\ parser'.index = parser.index
           /\ parser'.index <= Len(parser'.boundary) + 1
           /\ Bounded'
<1>1. parser' = [parser EXCEPT !.state = state, !.index = parser.index]
    BY ParserKnown DEF GoTo, Parser
<1>. QED  BY <1>1, ParserKnown, ParserStep

\* A step that neither begins nor ends a content.
Elsewhere ==
    /\ MultipartTypeOK' /\ Bounded' /\ RunAt(mark', pos') /\ body' = body
    /\ pos' \in (pos + 1) .. (Len(body) + 1)
    /\ parser' # Null /\ parser'.boundary = parser.boundary
    /\ parts'.list = parts.list /\ parts'.expected = parts.expected
    /\ interm'.unfinished = interm.unfinished
    /\ ~InContent /\ ~InContent'
    /\ parser'.state = "part_data_start" => pos' = pos + 1 /\ body[pos] = LF

LEMMA FirstBoundaryStep ==
    ASSUME Reader, NEW last \in BOOLEAN, FirstBoundary(last)
    PROVE  Elsewhere
<1>1. /\ parser # Null /\ pos <= Len(body) /\ parser.state = "start_boundary"
      /\ body' = body /\ parts' = parts
    BY DEF FirstBoundary, At, ReadingBody
<1>2. /\ pos' \in (pos + 1) .. (Len(body) + 1) /\ mark' \in 1 .. (Len(body) + 1)
      /\ RunAt(mark', pos')
  <2>1. mark \in 1 .. pos
      BY DEF Reader, InFront, RunAt, MultipartTypeOK, Text
  <2>2. Past(mark, last)
      BY DEF FirstBoundary
  <2>3. pos \in Nat
      BY DEF Reader, MultipartTypeOK, Text
  <2>. QED  BY <1>1, <2>1, <2>2, <2>3, PastStep
<1>3. Len(FirstLine) = Len(parser.boundary) + 2
  <2>1. <<CR, LF>> \in Text
      BY BytesAssumption DEF Text
  <2>. QED  BY <1>1, <2>1, ParserKnown, Joined DEF FirstLine
<1>4. interm' \in Interm /\ interm'.unfinished = interm.unfinished
  <2>1. interm \in Interm /\ <<>> \in Text
      BY DEF Reader, MultipartTypeOK, Text
  <2>. QED  BY <2>1 DEF FirstBoundary, Interm
<1>5. /\ parser' \in Parser /\ parser' # Null /\ parser'.boundary = parser.boundary
      /\ parser'.state \in {"start_boundary", "header_field_start"}
      /\ parser'.index <= Len(parser'.boundary) + 1 /\ Bounded'
  <2>1. CASE parser.index + 1 < Len(FirstLine)
    <3>1. parser' = [parser EXCEPT !.state = "start_boundary", !.index = parser.index + 1]
        BY <1>1, <2>1, ParserKnown DEF FirstBoundary, Parser
    <3>2. PICK state \in ParserState, index \in Nat :
            state = "start_boundary" /\ index = parser.index + 1
        BY <1>1, ParserKnown DEF ParserState
    <3>3. parser' = [parser EXCEPT !.state = state, !.index = index]
        BY <3>1, <3>2
    <3>4. index <= Len(parser.boundary) + 1
        BY <1>1, <1>3, <2>1, <3>2, ParserKnown
    <3>. QED  BY <1>1, <3>2, <3>3, <3>4, ParserStep
  <2>2. CASE ~(parser.index + 1 < Len(FirstLine))
    <3>1. parser' = [parser EXCEPT !.state = "header_field_start", !.index = 0]
        BY <2>2 DEF FirstBoundary
    <3>2. PICK state \in ParserState, index \in Nat :
            state = "header_field_start" /\ index = 0
        BY DEF ParserState
    <3>3. parser' = [parser EXCEPT !.state = state, !.index = index]
        BY <3>1, <3>2
    <3>4. index <= Len(parser.boundary) + 1
        BY <1>1, <3>2, ParserKnown
    <3>. QED  BY <1>1, <3>2, <3>3, <3>4, ParserStep
  <2>. QED  BY <2>1, <2>2
<1>. QED
    BY <1>1, <1>2, <1>4, <1>5 DEF Elsewhere, Reader, MultipartTypeOK, InContent

ContentState == {"part_data", "part_data_almost_boundary", "part_data_boundary"}

LEMMA ElsewhereByte ==
    ASSUME Reader, ReadingBody, ~InContent, body' = body,
           NEW last \in BOOLEAN, NEW m \in 1 .. pos, Past(m, last),
           NEW state \in ParserState \ ContentState, GoTo(state),
           state = "part_data_start" => body[pos] = LF,
           interm' \in Interm, interm'.unfinished = interm.unfinished,
           parts' \in Parts, parts'.list = parts.list, parts'.root = parts.root,
           parts'.expected = parts.expected
    PROVE  Elsewhere
<1>1. /\ pos' = pos + 1 /\ pos' \in 1 .. (Len(body) + 1)
      /\ mark' \in 1 .. (Len(body) + 1) /\ RunAt(mark', pos')
    BY PastStep DEF ReadingBody
<1>2. /\ parser' \in Parser /\ parser' # Null /\ parser'.boundary = parser.boundary
      /\ parser'.state = state /\ parser'.index <= Len(parser'.boundary) + 1 /\ Bounded'
    BY GoToStep DEF ReadingBody, ContentState
<1>3. pos' \in (pos + 1) .. (Len(body) + 1)
    BY <1>1 DEF Reader, MultipartTypeOK, Text
<1>. QED
    BY <1>1, <1>2, <1>3 DEF Elsewhere, Reader, MultipartTypeOK, InContent, ContentState

LEMMA MarkBehind == ASSUME Reader PROVE mark \in 1 .. pos /\ pos \in 1 .. pos
BY DEF Reader, InFront, RunAt, MultipartTypeOK, Text

\* A run and what a chunk's end cuts off are texts.
LEMMA RunIsText ==
    ASSUME Reader, pos <= Len(body), NEW m \in 1 .. pos, NEW last \in BOOLEAN
    PROVE  Run(m) \in Text /\ Cut(m, last) \in Text
<1>1. body \in Text /\ pos \in Nat \ {0} /\ Len(body) \in Nat
    BY DEF Reader, MultipartTypeOK, Text
<1>2. SubSeq(body, m, pos - 1) \in Text /\ SubSeq(body, m, pos) \in Text
    BY <1>1, Slice
<1>. QED  BY <1>2 DEF Run, Cut, Text

LEMMA NameSteps ==
    ASSUME Reader, NEW last \in BOOLEAN, NameByte(last) \/ NameEnd(last)
    PROVE  Elsewhere
<1>1. ReadingBody /\ parser.state \in {"header_field_start", "header_field"}
    BY DEF NameByte, NameEnd, InName, At
<1>2. /\ ~InContent /\ body' = body /\ parts' = parts
      /\ Past(NameMark, last)
      /\ \/ GoTo("header_field")
            /\ interm' = [interm EXCEPT !.hfld = @ \o Lower(Cut(NameMark, last))]
         \/ GoTo("header_value_start")
            /\ interm' = [interm EXCEPT !.hfld = @ \o Lower(Run(NameMark))]
    BY <1>1 DEF NameByte, NameEnd, InContent
<1>3. PICK m \in 1 .. pos : m = NameMark
    BY MarkBehind DEF NameMark
<1>4. interm' \in Interm /\ interm'.unfinished = interm.unfinished
  <2>1. PICK name \in Text : interm' = [interm EXCEPT !.hfld = @ \o name]
    <3>1. Lower(Run(m)) \in Text /\ Lower(Cut(m, last)) \in Text
        BY <1>1, RunIsText, LowerIsText DEF ReadingBody
    <3>. QED  BY <1>2, <1>3, <3>1
  <2>2. interm \in Interm /\ interm.hfld \in Text
      BY DEF Reader, MultipartTypeOK, Interm
  <2>3. interm.hfld \o name \in Text
      BY <2>2, Joined
  <2>. QED  BY <2>1, <2>2, <2>3 DEF Interm
<1>5. parts \in Parts
    BY DEF Reader, MultipartTypeOK
<1>6. PICK state \in ParserState \ ContentState : GoTo(state) /\ state # "part_data_start"
    BY <1>2 DEF ParserState, ContentState
<1>. QED  BY <1>1, <1>2, <1>3, <1>4, <1>5, <1>6, ElsewhereByte

LEMMA ValueSteps ==
    ASSUME Reader, NEW last \in BOOLEAN, ValueByte(last) \/ ValueEnd(last)
    PROVE  Elsewhere
<1>1. ReadingBody /\ parser.state \in {"header_value_start", "header_value"}
    BY DEF ValueByte, ValueEnd, InValue, At
<1>2. ~InContent /\ body' = body /\ Past(ValueMark, last)
    BY <1>1 DEF ValueByte, ValueEnd, InContent
<1>3. PICK m \in 1 .. pos : m = ValueMark
    BY MarkBehind DEF ValueMark
<1>4. /\ interm \in Interm /\ interm.hfld \in Text /\ interm.hval \in Text /\ <<>> \in Text
      /\ parts \in Parts
    BY DEF Reader, MultipartTypeOK, Interm, Text
<1>5. Run(m) \in Text /\ Cut(m, last) \in Text
    BY <1>1, RunIsText DEF ReadingBody
<1>6. interm.hval \o Run(m) \in Text /\ interm.hval \o Cut(m, last) \in Text
    BY <1>4, <1>5, Joined
<1>7. interm' \in Interm /\ interm'.unfinished = interm.unfinished
  <2>1. CASE ValueByte(last)
    <3>1. interm' = [interm EXCEPT !.hval = interm.hval \o Cut(m, last)]
        BY <1>3, <1>4, <2>1 DEF ValueByte, Interm
    <3>. QED  BY <1>4, <1>6, <3>1 DEF Interm
  <2>2. CASE ValueEnd(last)
      BY <1>4, <2>2 DEF ValueEnd, Interm
  <2>. QED  BY <2>1, <2>2
<1>8. /\ parts' \in Parts /\ parts'.list = parts.list /\ parts'.root = parts.root
      /\ parts'.expected = parts.expected
  <2>1. CASE ValueByte(last)
      BY <1>4, <2>1 DEF ValueByte
  <2>2. CASE ValueEnd(last)
    <3>1. PICK part \in Part : part = WithHeader(Current, interm.hfld, interm.hval \o Run(m))
        BY <1>4, <1>6, CurrentIsPart, WithHeaderIsPart
    <3>2. parts' = [parts EXCEPT !.processed = part]
        BY <1>3, <2>2, <3>1 DEF ValueEnd
    <3>. QED  BY <1>4, <3>2 DEF Parts
  <2>. QED  BY <2>1, <2>2
<1>9. PICK state \in ParserState \ ContentState : GoTo(state) /\ state # "part_data_start"
    BY DEF ValueByte, ValueEnd, ParserState, ContentState
<1>. QED  BY <1>1, <1>2, <1>3, <1>7, <1>8, <1>9, ElsewhereByte

\* Bytes that only take the parser further.
LEMMA PassingSteps ==
    ASSUME Reader, NEW last \in BOOLEAN,
           \/ HeadersEnd(last) \/ HeadersDone(last) \/ ValueSpace(last) \/ HeaderDone(last)
           \/ AfterBoundary(last) \/ NextPart(last) \/ FinalHyphen(last) \/ Epilogue(last)
    PROVE  Elsewhere
<1>1. /\ ReadingBody /\ body' = body /\ parts' = parts
      /\ parser.state \in
           {"header_field_start", "header_field", "headers_almost_done",
            "header_value_start", "header_value_almost_done", "part_data_almost_end",
            "part_data_end", "part_data_final_hyphen", "end"}
    BY DEF HeadersEnd, HeadersDone, ValueSpace, HeaderDone, AfterBoundary, NextPart,
       FinalHyphen, Epilogue, InName, At
<1>2. ~InContent
    BY <1>1 DEF InContent
<1>3. PICK m \in 1 .. pos : Past(m, last)
    BY MarkBehind DEF HeadersEnd, HeadersDone, ValueSpace, HeaderDone, AfterBoundary,
       NextPart, FinalHyphen, Epilogue, NameMark
<1>4. interm' \in Interm /\ interm'.unfinished = interm.unfinished
  <2>1. interm \in Interm /\ <<>> \in Text
      BY DEF Reader, MultipartTypeOK, Text
  <2>2. interm' = interm \/ interm' = [interm EXCEPT !.content = <<>>]
      BY DEF HeadersEnd, HeadersDone, ValueSpace, HeaderDone, AfterBoundary,
         NextPart, FinalHyphen, Epilogue
  <2>. QED  BY <2>1, <2>2 DEF Interm
<1>5. parts \in Parts
    BY DEF Reader, MultipartTypeOK
<1>6. PICK state \in ParserState \ ContentState :
        GoTo(state) /\ (state = "part_data_start" => body[pos] = LF)
  <2>1. CASE parser' = parser
    <3>1. GoTo(parser.state)
        BY <1>1, <2>1, ParserKnown DEF GoTo, Parser, ReadingBody
    <3>. QED  BY <1>1, <3>1 DEF ParserState, ContentState
  <2>2. CASE parser' # parser
      BY <2>2 DEF HeadersEnd, HeadersDone, ValueSpace, HeaderDone, AfterBoundary,
         NextPart, FinalHyphen, Epilogue, ParserState, ContentState
  <2>. QED  BY <2>1, <2>2
<1>. QED  BY <1>1, <1>2, <1>3, <1>4, <1>5, <1>6, ElsewhereByte

LEMMA RefuseStep ==
    ASSUME Reader, Refuse
    PROVE  Elsewhere
<1>1. /\ ReadingBody /\ body' = body /\ parts' = parts /\ interm' = interm
      /\ parser.state \in
           {"start_boundary", "header_field_start", "header_field", "headers_almost_done",
            "header_value_almost_done", "part_data_end", "part_data_almost_end",
            "part_data_final_hyphen"}
    BY DEF Refuse, Unexpected, InName, At
<1>2. ~InContent
    BY <1>1 DEF InContent
<1>3. PICK next \in (pos + 1) .. (Len(body) + 1) : pos' = next /\ mark' = next
    BY DEF Refuse
<1>4. pos \in Nat \ {0} /\ Len(body) \in Nat
    BY DEF Reader, MultipartTypeOK, Text
<1>5. PICK state \in ParserState \ (ContentState \cup {"part_data_start"}) : GoTo(state)
  <2>1. CASE parser.state = "header_field_start"
      BY <2>1 DEF Refuse, ParserState, ContentState
  <2>2. CASE parser.state # "header_field_start"
    <3>1. GoTo(parser.state)
        BY <1>1, <2>2, ParserKnown DEF Refuse, GoTo, Parser, ReadingBody
    <3>. QED  BY <1>1, <3>1 DEF ParserState, ContentState
  <2>. QED  BY <2>1, <2>2
<1>6. /\ parser' \in Parser /\ parser' # Null /\ parser'.boundary = parser.boundary
      /\ parser'.state = state /\ parser'.index <= Len(parser'.boundary) + 1 /\ Bounded'
    BY <1>1, <1>5, GoToStep DEF ReadingBody, ContentState
<1>. QED
    BY <1>1, <1>2, <1>3, <1>4, <1>5, <1>6
       DEF Elsewhere, Reader, MultipartTypeOK, InContent, ContentState, RunAt

-----------------------------------------------------------------------------
(***************************************************************************)
(* Bytes of contents.                                                      *)
(***************************************************************************)

\* What has been received of the content the next byte may belong to.
Received == IF InContent THEN Gathered ELSE <<>>

\* A step that goes on with a content.
Inside ==
    /\ MultipartTypeOK' /\ Bounded' /\ RunAt(mark', pos') /\ body' = body
    /\ pos' = pos + 1 /\ pos <= Len(body)
    /\ parser # Null /\ parser' # Null /\ parser'.boundary = parser.boundary
    /\ parts' = parts
    /\ InContent \/ parser.state = "part_data_start"
    /\ InContent' /\ parser'.state # "part_data_start"
    /\ Received \in Text /\ Gathered' = Received \o <<body[pos]>>

LEMMA LookBehindIsText ==
    ASSUME Reader, InContent
    PROVE  LookBehind \in Text /\ Gathered \in Text
<1>1. /\ <<CR>> \in Text /\ <<CR, LF>> \in Text /\ <<>> \in Text
    BY BytesAssumption DEF Text
<1>2. parser.state = "part_data_boundary" => SubSeq(parser.boundary, 1, parser.index) \in Text
  <2>1. parser # Null
      BY DEF InContent
  <2>2. parser.boundary \in Text /\ parser.index \in Nat
      BY <2>1, ParserKnown
  <2>3. parser.state = "part_data_boundary" => parser.index <= Len(parser.boundary)
      BY <2>1, <2>2 DEF Reader, Bounded, Text
  <2>. QED  BY <2>2, <2>3, Slice
<1>3. parser.state = "part_data_boundary" =>
        <<CR, LF>> \o SubSeq(parser.boundary, 1, parser.index) \in Text
    BY <1>1, <1>2, Joined
<1>4. LookBehind \in Text
  <2>1. CASE parser.state = "part_data_boundary"
      BY <1>3, <2>1 DEF LookBehind
  <2>2. CASE parser.state # "part_data_boundary"
      BY <1>1, <2>2 DEF LookBehind
  <2>. QED  BY <2>1, <2>2
<1>5. interm.content \in Text
    BY DEF Reader, MultipartTypeOK, Interm
<1>6. Run(mark) \in Text
  <2>1. body \in Text /\ pos \in Nat \ {0} /\ mark \in Nat \ {0} /\ pos - 1 <= Len(body)
      BY DEF Reader, MultipartTypeOK, Text
  <2>. QED  BY <2>1, Slice DEF Run
<1>. QED  BY <1>4, <1>5, <1>6, Joined DEF Gathered

\* One byte more than the run there was.
LEMMA RunGrows ==
    ASSUME Reader, pos <= Len(body), NEW m \in 1 .. pos
    PROVE  /\ SubSeq(body, m, pos) = Run(m) \o <<body[pos]>>
           /\ SubSeq(body, pos + 1, pos) = <<>> /\ Run(pos) = <<>>
           /\ <<body[pos]>> \in Text /\ SubSeq(body, m, pos) \in Text
<1>1. body \in Seq(Byte) /\ pos \in 1 .. Len(body) /\ Len(body) \in Nat
    BY DEF Reader, MultipartTypeOK, Text
<1>2. SubSeq(body, m, pos) = SubSeq(body, m, pos - 1) \o <<body[pos]>>
    BY <1>1, SubSeqRecursiveSecond
<1>3. SubSeq(body, pos + 1, pos) = <<>> /\ SubSeq(body, pos, pos - 1) = <<>>
    BY <1>1, SubSeqEmpty
<1>4. <<body[pos]>> \in Text /\ SubSeq(body, m, pos) \in Text
    BY <1>1, OneByte, Slice DEF Text
<1>. QED  BY <1>2, <1>3, <1>4 DEF Run

\* The state s_part_data on a byte.
LEMMA ContentStep ==
    ASSUME Reader, ReadingBody, NEW last \in BOOLEAN,
           InContent \/ parser.state = "part_data_start",
           NEW content \in Text, NEW m \in 1 .. pos, Content(content, m, last),
           Received = content \o Run(m)
    PROVE  /\ Inside
           /\ parser'.state = IF body[pos] = CR THEN "part_data_almost_boundary" ELSE "part_data"
<1>. DEFINE run == IF body[pos] = CR THEN Run(m) ELSE Cut(m, last)
            state == IF body[pos] = CR THEN "part_data_almost_boundary" ELSE "part_data"
<1>1. parser # Null /\ pos <= Len(body)
    BY DEF ReadingBody
<1>2. /\ Past(IF body[pos] = CR THEN pos ELSE m, last) /\ GoTo(state)
      /\ body' = body /\ parts' = parts
      /\ interm' = [interm EXCEPT !.content = content \o run,
                      !.unfinished = @ \/ LookBehind # <<>> \/ run # <<>>]
    BY DEF Content
<1>3. /\ Run(m) \in Text /\ Cut(m, last) \in Text /\ <<body[pos]>> \in Text
      /\ SubSeq(body, m, pos) = Run(m) \o <<body[pos]>>
      /\ SubSeq(body, pos + 1, pos) = <<>>
    BY <1>1, RunIsText, RunGrows
<1>4. run \in Text /\ content \o run \in Text /\ Received \in Text
    BY <1>3, Joined
<1>5. interm' \in Interm /\ interm'.content = content \o run
  <2>1. PICK text \in Text : text = content \o run
      BY <1>4
  <2>2. PICK unfinished \in BOOLEAN :
          unfinished <=> (interm.unfinished \/ LookBehind # <<>> \/ run # <<>>)
      OBVIOUS
  <2>3. interm' = [interm EXCEPT !.content = text, !.unfinished = unfinished]
    <3>. HIDE DEF run
    <3>. QED  BY <1>2, <2>1, <2>2
  <2>4. interm \in Interm
      BY DEF Reader, MultipartTypeOK
  <2>. QED  BY <2>1, <2>3, <2>4 DEF Interm
<1>6. /\ parser' \in Parser /\ parser' # Null /\ parser'.boundary = parser.boundary
      /\ parser'.state = state /\ parser'.index <= Len(parser'.boundary) + 1 /\ Bounded'
  <2>1. state \in ParserState \ {"part_data_boundary"}
      BY DEF ParserState
  <2>. HIDE DEF state
  <2>. QED  BY <1>1, <1>2, <2>1, GoToStep
<1>7. /\ pos' = pos + 1 /\ pos' \in 1 .. (Len(body) + 1)
      /\ mark' \in 1 .. (Len(body) + 1) /\ RunAt(mark', pos')
  <2>1. PICK k \in 1 .. pos : k = IF body[pos] = CR THEN pos ELSE m
      BY MarkBehind
  <2>. QED  BY <1>1, <1>2, <2>1, PastStep
<1>8. InContent'
    BY <1>6 DEF InContent
<1>9. Gathered' = Received \o <<body[pos]>>
  <2>1. CASE body[pos] = CR
    <3>1. Gathered' = interm'.content \o <<CR>>
        BY <1>6, <2>1 DEF Gathered, LookBehind
    <3>2. interm'.content = Received
        BY <1>5, <2>1
    <3>. QED  BY <2>1, <3>1, <3>2
  <2>2. CASE body[pos] # CR
    <3>1. Gathered' = interm'.content \o SubSeq(body, mark', pos)
      <4>1. pos' - 1 = pos
          BY <1>7 DEF Reader, MultipartTypeOK, Text
      <4>. QED  BY <1>2, <1>6, <2>2, <4>1 DEF Gathered, Run
    <3>2. content \o (Run(m) \o <<body[pos]>>) = Received \o <<body[pos]>>
        BY <1>3, ConcatAssociative DEF Text
    <3>3. CASE last
      <4>1. mark' = pos + 1 /\ interm'.content = content \o SubSeq(body, m, pos)
          BY <1>2, <1>5, <2>2, <3>3 DEF Past, Cut
      <4>2. content \o SubSeq(body, m, pos) \in Text
          BY <1>3, Joined
      <4>. QED  BY <1>3, <3>1, <3>2, <4>1, <4>2, ConcatEmptySeq DEF Text
    <3>4. CASE ~last
      <4>1. mark' = m /\ interm'.content = content \o <<>>
          BY <1>2, <1>5, <2>2, <3>4 DEF Past, Cut
      <4>. QED  BY <1>3, <3>1, <3>2, <4>1, ConcatEmptySeq DEF Text
    <3>. QED  BY <3>3, <3>4
  <2>. QED  BY <2>1, <2>2
<1>. QED
    BY <1>1, <1>2, <1>4, <1>5, <1>6, <1>7, <1>8, <1>9 DEF Inside, Reader, MultipartTypeOK

LEMMA DataSteps ==
    ASSUME Reader, NEW last \in BOOLEAN,
           FirstDataByte(last) \/ DataByte(last) \/ NoBoundary(last)
    PROVE  /\ Inside
           /\ parser'.state = IF body[pos] = CR THEN "part_data_almost_boundary" ELSE "part_data"
<1>1. mark \in 1 .. pos /\ pos \in 1 .. pos
    BY MarkBehind
<1>2. interm.content \in Text /\ <<>> \in Text
    BY DEF Reader, MultipartTypeOK, Interm, Text
<1>3. CASE FirstDataByte(last)
  <2>1. /\ ReadingBody /\ parser.state = "part_data_start" /\ Content(<<>>, pos, last)
        /\ ~InContent
      BY <1>3 DEF FirstDataByte, At, InContent
  <2>2. Received = <<>> \o Run(pos)
    <3>1. Run(pos) = <<>>
        BY <1>1, <2>1, RunGrows DEF ReadingBody
    <3>2. <<>> \o <<>> = <<>>
        BY <1>2, EmptyAdded
    <3>. QED  BY <2>1, <3>1, <3>2 DEF Received
  <2>. QED  BY <1>1, <1>2, <2>1, <2>2, ContentStep
<1>4. CASE DataByte(last)
  <2>1. /\ ReadingBody /\ parser.state = "part_data" /\ Content(interm.content, mark, last)
        /\ InContent
      BY <1>4 DEF DataByte, At, InContent, ReadingBody
  <2>2. Received = interm.content \o Run(mark)
      BY <2>1 DEF Received, Gathered
  <2>. QED  BY <1>1, <1>2, <2>1, <2>2, ContentStep
<1>5. CASE NoBoundary(last)
  <2>1. /\ ReadingBody /\ parser.state # "part_data" /\ InContent
        /\ Content(interm.content \o LookBehind, pos, last)
      BY <1>5 DEF NoBoundary, At, InContent, ReadingBody
  <2>2. interm.content \o LookBehind \in Text
      BY <1>2, <2>1, LookBehindIsText, Joined
  <2>3. Run(pos) = <<>>
      BY <2>1, <1>1, RunGrows DEF ReadingBody
  <2>4. Received = (interm.content \o LookBehind) \o Run(pos)
      BY <2>1, <2>2, <2>3, ConcatEmptySeq DEF Received, Gathered, Text
  <2>. QED  BY <1>1, <2>1, <2>2, <2>4, ContentStep
<1>. QED  BY <1>3, <1>4, <1>5

LEMMA BoundaryGrows ==
    ASSUME Reader, parser # Null, parser.index < Len(parser.boundary)
    PROVE  /\ SubSeq(parser.boundary, 1, parser.index) \in Text
           /\ Len(SubSeq(parser.boundary, 1, parser.index)) = parser.index
           /\ SubSeq(parser.boundary, 1, parser.index + 1) =
                SubSeq(parser.boundary, 1, parser.index) \o <<parser.boundary[parser.index + 1]>>
           /\ <<parser.boundary[parser.index + 1]>> \in Text
<1>1. /\ parser.boundary \in Seq(Byte) /\ parser.boundary \in Text
      /\ parser.index \in Nat /\ Len(parser.boundary) \in Nat
    BY ParserKnown DEF Text
<1>2. /\ 1 \in 1 .. Len(parser.boundary)
      /\ parser.index + 1 \in 1 .. Len(parser.boundary)
      /\ (parser.index + 1) - 1 = parser.index
    BY <1>1
<1>3. SubSeq(parser.boundary, 1, parser.index + 1) =
        SubSeq(parser.boundary, 1, (parser.index + 1) - 1)
            \o <<parser.boundary[parser.index + 1]>>
    BY <1>1, <1>2, SubSeqRecursiveSecond
<1>4. /\ SubSeq(parser.boundary, 1, parser.index) \in Text
      /\ Len(SubSeq(parser.boundary, 1, parser.index)) = parser.index
    BY <1>1, Slice
<1>5. <<parser.boundary[parser.index + 1]>> \in Text
    BY <1>1, <1>2, OneByte
<1>. QED  BY <1>2, <1>3, <1>4, <1>5

\* Bytes that may belong to the boundary.
LEMMA CandidateSteps ==
    ASSUME Reader, NEW last \in BOOLEAN, AlmostBoundary(last) \/ BoundaryByte(last)
    PROVE  /\ Inside /\ InContent /\ parser'.state = "part_data_boundary"
           /\ Len(LookBehind') = Len(LookBehind) + 1
           /\ parser.state = "part_data_almost_boundary" => parser'.index = 0 /\ body[pos] = LF
           /\ parser.state = "part_data_boundary" =>
                /\ parser'.index = parser.index + 1
                /\ body[pos] = parser.boundary[parser.index + 1]
<1>1. /\ ReadingBody /\ parser # Null /\ pos <= Len(body) /\ Past(mark, last)
      /\ body' = body /\ parts' = parts /\ interm' = interm
      /\ InContent /\ parser.state \in {"part_data_almost_boundary", "part_data_boundary"}
    BY DEF AlmostBoundary, BoundaryByte, At, ReadingBody, InContent
<1>2. /\ pos' = pos + 1 /\ pos' \in 1 .. (Len(body) + 1)
      /\ mark' \in 1 .. (Len(body) + 1) /\ RunAt(mark', pos')
    BY <1>1, PastStep, MarkBehind
<1>3. PICK index \in Nat :
        /\ index < Len(parser.boundary)
        /\ parser' = [parser EXCEPT !.state = "part_data_boundary", !.index = index]
        /\ parser.state = "part_data_almost_boundary" => index = 0 /\ body[pos] = LF
        /\ parser.state = "part_data_boundary" =>
             /\ index = parser.index + 1
             /\ body[pos] = parser.boundary[parser.index + 1]
  <2>1. CASE AlmostBoundary(last)
    <3>1. /\ parser' = [parser EXCEPT !.state = "part_data_boundary", !.index = 0]
          /\ parser.state = "part_data_almost_boundary" /\ body[pos] = LF
        BY <2>1 DEF AlmostBoundary, At
    <3>2. 0 < Len(parser.boundary)
        BY <1>1, ParserKnown
    <3>. QED  BY <3>1, <3>2
  <2>2. CASE BoundaryByte(last)
    <3>1. /\ parser' = [parser EXCEPT !.index = parser.index + 1]
          /\ parser.state = "part_data_boundary" /\ body[pos] = parser.boundary[parser.index + 1]
          /\ parser.index + 1 < Len(parser.boundary)
        BY <1>1, <2>2, ParserKnown DEF BoundaryByte, At, Parser
    <3>2. parser' = [parser EXCEPT !.state = "part_data_boundary", !.index = parser.index + 1]
        BY <1>1, <3>1, ParserKnown DEF Parser
    <3>3. parser.index + 1 \in Nat
        BY <1>1, ParserKnown
    <3>. QED  BY <3>1, <3>2, <3>3
  <2>. QED  BY <2>1, <2>2 DEF AlmostBoundary, BoundaryByte
<1>4. /\ parser' \in Parser /\ parser' # Null /\ parser'.boundary = parser.boundary
      /\ parser'.state = "part_data_boundary" /\ parser'.index = index
      /\ parser'.index <= Len(parser'.boundary) + 1 /\ Bounded'
  <2>1. PICK state \in ParserState : state = "part_data_boundary"
      BY DEF ParserState
  <2>2. parser' = [parser EXCEPT !.state = state, !.index = index]
      BY <1>3, <2>1
  <2>3. index <= Len(parser.boundary) + 1
      BY <1>1, <1>3, ParserKnown
  <2>. QED  BY <1>1, <1>3, <2>1, <2>2, <2>3, ParserStep
<1>5. /\ interm.content \in Text /\ Received = Gathered /\ Received \in Text
      /\ Gathered = interm.content \o LookBehind
      /\ Gathered' = interm.content \o LookBehind'
    BY <1>1, <1>4, LookBehindIsText
       DEF Received, Gathered, Reader, MultipartTypeOK, Interm
<1>6. LookBehind' = LookBehind \o <<body[pos]>>
  <2>1. /\ LookBehind' = <<CR, LF>> \o SubSeq(parser.boundary, 1, index)
        /\ <<CR, LF>> \in Text /\ <<CR, LF>> \in Seq(Byte)
      BY <1>4, BytesAssumption DEF LookBehind, Text
  <2>2. CASE parser.state = "part_data_almost_boundary"
    <3>1. LookBehind = <<CR>> /\ body[pos] = LF /\ index = 0
        BY <1>3, <2>2 DEF LookBehind
    <3>2. SubSeq(parser.boundary, 1, index) = <<>>
        BY <3>1, SubSeqEmpty
    <3>3. LookBehind' = <<CR, LF>>
        BY <2>1, <3>2, ConcatEmptySeq
    <3>4. <<CR>> \o <<LF>> = <<CR, LF>>
        BY TwoBytes, BytesAssumption
    <3>. QED  BY <3>1, <3>3, <3>4
  <2>3. CASE parser.state = "part_data_boundary"
    <3>1. /\ LookBehind = <<CR, LF>> \o SubSeq(parser.boundary, 1, parser.index)
          /\ index = parser.index + 1 /\ body[pos] = parser.boundary[parser.index + 1]
        BY <1>3, <2>3 DEF LookBehind
    <3>2. parser.index < Len(parser.boundary)
        BY <1>1, <2>3 DEF Reader, Bounded
    <3>3. /\ SubSeq(parser.boundary, 1, index) =
               SubSeq(parser.boundary, 1, parser.index) \o <<body[pos]>>
          /\ SubSeq(parser.boundary, 1, parser.index) \in Text
          /\ <<body[pos]>> \in Text
        BY <1>1, <3>1, <3>2, BoundaryGrows
    <3>4. PICK a \in Text, b \in Text, c \in Text :
            /\ a = <<CR, LF>> /\ c = <<body[pos]>>
            /\ b = SubSeq(parser.boundary, 1, parser.index)
        BY <2>1, <3>3
    <3>5. LookBehind = a \o b /\ LookBehind' = a \o (b \o c)
        BY <2>1, <3>1, <3>3, <3>4
    <3>. QED  BY <3>4, <3>5, Associative
  <2>. QED  BY <1>1, <2>2, <2>3
<1>7. Gathered' = Received \o <<body[pos]>>
  <2>1. LookBehind \in Text /\ <<body[pos]>> \in Text
      BY <1>1, LookBehindIsText, RunGrows, MarkBehind
  <2>2. PICK a \in Text, b \in Text, c \in Text :
          a = interm.content /\ b = LookBehind /\ c = <<body[pos]>>
      BY <1>5, <2>1
  <2>3. Received = a \o b /\ Gathered' = a \o (b \o c)
      BY <1>5, <1>6, <2>2
  <2>. QED  BY <2>2, <2>3, Associative
<1>8. InContent'
    BY <1>4 DEF InContent
<1>9. Len(LookBehind') = Len(LookBehind) + 1
  <2>1. LookBehind \in Text /\ <<body[pos]>> \in Text /\ Len(<<body[pos]>>) = 1
      BY <1>1, LookBehindIsText, RunGrows, MarkBehind
  <2>. QED  BY <1>6, <2>1, Joined
<1>. QED
    BY <1>1, <1>2, <1>3, <1>4, <1>5, <1>7, <1>8, <1>9 DEF Inside, Reader, MultipartTypeOK

\* What was received of the content stands in the body in front of this byte.
LEMMA ReceivedStands ==
    ASSUME Reader, NothingLost, InContent \/ (parser # Null /\ parser.state = "part_data_start")
    PROVE  /\ Received \in Text /\ Len(Received) \in Nat /\ Len(Received) + 1 < pos
           /\ Received = SubSeq(body, pos - Len(Received), pos - 1)
           /\ body[pos - Len(Received) - 1] = LF
<1>1. pos \in Nat \ {0}
    BY DEF Reader, MultipartTypeOK, Text
<1>2. CASE InContent
  <2>1. Received = Gathered /\ Gathered \in Text
      BY <1>2, LookBehindIsText DEF Received
  <2>. QED  BY <1>2, <2>1 DEF NothingLost, Text
<1>3. CASE ~InContent
  <2>1. Received = <<>> /\ pos > 1 /\ body[pos - 1] = LF
      BY <1>3 DEF Received, Reader, InFront
  <2>2. Len(Received) = 0 /\ Received \in Text
      BY <2>1 DEF Text
  <2>3. SubSeq(body, pos, pos - 1) = <<>>
      BY <1>1, SubSeqEmpty
  <2>4. pos - 0 = pos /\ pos - 0 - 1 = pos - 1
      BY <1>1
  <2>. QED  BY <1>1, <2>1, <2>2, <2>3, <2>4
<1>. QED  BY <1>2, <1>3

LEMMA InsideKeepsBytes ==
    ASSUME Reader, NothingLost, Inside
    PROVE  NothingLost' /\ Len(Gathered)' = Len(Received) + 1
<1>. DEFINE length == Len(Received)
            first == pos - length
<1>1. /\ Received \in Text /\ length \in Nat /\ length + 1 < pos
      /\ Received = SubSeq(body, first, pos - 1) /\ body[first - 1] = LF
    BY ReceivedStands DEF Inside
<1>2. /\ pos \in Nat \ {0} /\ pos <= Len(body) /\ pos' = pos + 1 /\ body' = body
      /\ Gathered' = Received \o <<body[pos]>>
    BY DEF Inside, Reader, MultipartTypeOK, Text
<1>. HIDE DEF length
<1>3. first \in 1 .. pos
    BY <1>1, <1>2
<1>4. <<body[pos]>> \in Text /\ SubSeq(body, first, pos) = Run(first) \o <<body[pos]>>
  <2>. HIDE DEF first
  <2>. QED  BY <1>2, <1>3, RunGrows
<1>5. Gathered' = SubSeq(body, first, pos)
    BY <1>1, <1>2, <1>4 DEF Run
<1>6. Len(<<body[pos]>>) = 1
    OBVIOUS
<1>7. Len(Gathered)' = length + 1
    BY <1>1, <1>2, <1>4, <1>6, Joined DEF length
<1>8. /\ pos' - Len(Gathered)' = first /\ pos' - 1 = pos
      /\ pos' - Len(Gathered)' - 1 = first - 1 /\ Len(Gathered)' + 1 < pos'
    BY <1>1, <1>2, <1>7
<1>. QED  BY <1>1, <1>2, <1>5, <1>7, <1>8 DEF NothingLost, length

LEMMA LookBehindLength ==
    ASSUME Reader, InContent
    PROVE  /\ parser.state = "part_data" => Len(LookBehind) = 0
           /\ parser.state = "part_data_almost_boundary" => Len(LookBehind) = 1
           /\ parser.state = "part_data_boundary" =>
                /\ Len(LookBehind) = parser.index + 2
                /\ parser.index < Len(parser.boundary)
<1>1. CASE parser.state # "part_data_boundary"
    BY <1>1 DEF LookBehind
<1>2. CASE parser.state = "part_data_boundary"
  <2>1. parser # Null /\ parser.index < Len(parser.boundary)
      BY <1>2 DEF InContent, Reader, Bounded
  <2>2. LookBehind = <<CR, LF>> \o SubSeq(parser.boundary, 1, parser.index)
      BY <1>2 DEF LookBehind
  <2>3. /\ SubSeq(parser.boundary, 1, parser.index) \in Text
        /\ Len(SubSeq(parser.boundary, 1, parser.index)) = parser.index
        /\ parser.index \in Nat
      BY <2>1, BoundaryGrows, ParserKnown
  <2>4. <<CR, LF>> \in Text /\ Len(<<CR, LF>>) = 2
      BY BytesAssumption DEF Text
  <2>5. Len(LookBehind) = 2 + parser.index
      BY <2>2, <2>3, <2>4, Joined
  <2>. QED  BY <1>2, <2>1, <2>3, <2>5
<1>. QED  BY <1>1, <1>2

LEMMA EndBytes ==
    ASSUME Reader, parser # Null
    PROVE  /\ Len(ContentEnd) = Len(parser.boundary) + 2 /\ Len(parser.boundary) \in Nat
           /\ ContentEnd[1] = CR /\ ContentEnd[2] = LF
           /\ \A i \in 1 .. Len(parser.boundary) : ContentEnd[i + 2] = parser.boundary[i]
<1>. DEFINE eol == <<CR, LF>>
<1>1. /\ eol \in Seq(Byte) /\ Len(eol) = 2 /\ eol[1] = CR /\ eol[2] = LF
    BY BytesAssumption
<1>2. parser.boundary \in Seq(Byte) /\ Len(parser.boundary) \in Nat
    BY ParserKnown DEF Text
<1>. HIDE DEF eol
<1>3. /\ Len(eol \o parser.boundary) = Len(eol) + Len(parser.boundary)
      /\ \A i \in 1 .. Len(eol) + Len(parser.boundary) :
           (eol \o parser.boundary)[i] =
               IF i <= Len(eol) THEN eol[i] ELSE parser.boundary[i - Len(eol)]
    BY <1>1, <1>2, ConcatProperties
<1>4. PICK joined : joined = eol \o parser.boundary
    OBVIOUS
<1>5. /\ Len(joined) = Len(parser.boundary) + 2
      /\ \A i \in 1 .. 2 + Len(parser.boundary) :
           joined[i] = IF i <= 2 THEN eol[i] ELSE parser.boundary[i - 2]
    BY <1>1, <1>2, <1>3, <1>4
<1>6. joined[1] = CR /\ joined[2] = LF
    BY <1>1, <1>2, <1>5
<1>7. \A i \in 1 .. Len(parser.boundary) : joined[i + 2] = parser.boundary[i]
    BY <1>2, <1>5
<1>. QED  BY <1>2, <1>4, <1>5, <1>6, <1>7 DEF ContentEnd, eol

InsideSteps(last) ==
    \/ FirstDataByte(last) \/ DataByte(last) \/ NoBoundary(last)
    \/ AlmostBoundary(last) \/ BoundaryByte(last)

LEMMA InsideReader ==
    ASSUME Reader, NEW last \in BOOLEAN, InsideSteps(last)
    PROVE  Inside /\ Reader'
<1>1. Inside
    BY DataSteps, CandidateSteps DEF InsideSteps
<1>. QED  BY <1>1 DEF Inside, Reader, InFront, RunAt

\* A byte that goes on with the end of the content is looked behind at.
LEMMA LookingOn ==
    ASSUME Reader, NEW last \in BOOLEAN, InsideSteps(last)
    PROVE  /\ body[pos] = CR /\ Unbroken => Len(LookBehind') = 1
           /\ InContent /\ Len(LookBehind) > 0 /\ body[pos] = ContentEnd[Len(LookBehind) + 1] =>
                Len(LookBehind') = Len(LookBehind) + 1
<1>1. CASE FirstDataByte(last) \/ DataByte(last) \/ NoBoundary(last)
  <2>1. body[pos] = CR => Len(LookBehind') = 1
    <3>1. body[pos] = CR => parser'.state = "part_data_almost_boundary"
        BY <1>1, DataSteps
    <3>. QED  BY <3>1 DEF LookBehind
  <2>2. ASSUME InContent, Len(LookBehind) > 0
        PROVE  body[pos] # ContentEnd[Len(LookBehind) + 1]
    <3>1. parser # Null /\ parser.state \in ContentState \ {"part_data"}
        BY <2>2, LookBehindLength DEF InContent, ContentState
    <3>2. NoBoundary(last)
        BY <1>1, <3>1 DEF FirstDataByte, DataByte, At, ContentState
    <3>3. CASE parser.state = "part_data_almost_boundary"
      <4>1. body[pos] # LF
          BY <3>2, <3>3 DEF NoBoundary, At
      <4>2. Len(LookBehind) = 1
          BY <2>2, <3>3, LookBehindLength
      <4>3. ContentEnd[2] = LF
          BY <3>1, EndBytes
      <4>4. Len(LookBehind) + 1 = 2
          BY <4>2
      <4>. QED  BY <4>1, <4>3, <4>4
    <3>4. CASE parser.state = "part_data_boundary"
      <4>1. body[pos] # parser.boundary[parser.index + 1]
          BY <3>2, <3>4 DEF NoBoundary, At
      <4>2. parser.index + 1 \in 1 .. Len(parser.boundary) /\ parser.index \in Nat
          BY <2>2, <3>1, <3>4, LookBehindLength, ParserKnown
      <4>3. Len(LookBehind) + 1 = (parser.index + 1) + 2
          BY <2>2, <3>4, <4>2, LookBehindLength
      <4>. QED  BY <3>1, <4>1, <4>2, <4>3, EndBytes
    <3>. QED  BY <3>1, <3>3, <3>4 DEF ContentState
  <2>. QED  BY <2>1, <2>2
<1>2. CASE AlmostBoundary(last) \/ BoundaryByte(last)
  <2>1. Len(LookBehind') = Len(LookBehind) + 1
      BY <1>2, CandidateSteps
  <2>2. ASSUME Unbroken PROVE body[pos] # CR
    <3>1. CASE parser.state = "part_data_almost_boundary"
        BY <1>2, <3>1, CandidateSteps DEF CR, LF
    <3>2. CASE parser.state = "part_data_boundary"
      <4>1. InContent /\ parser # Null /\ body[pos] = parser.boundary[parser.index + 1]
          BY <1>2, <3>2, CandidateSteps DEF InContent
      <4>2. parser.index + 1 \in 1 .. Len(parser.boundary)
          BY <3>2, <4>1, LookBehindLength, ParserKnown
      <4>. QED  BY <2>2, <4>1, <4>2 DEF Unbroken
    <3>. QED  BY <1>2, <3>1, <3>2 DEF AlmostBoundary, BoundaryByte, At
  <2>. QED  BY <2>1, <2>2
<1>. QED  BY <1>1, <1>2 DEF InsideSteps

LEMMA OneCandidateStep ==
    ASSUME Reader, NothingLost, OneCandidate, NEW last \in BOOLEAN, InsideSteps(last)
    PROVE  OneCandidate'
<1>1. /\ Inside /\ body' = body /\ pos' = pos + 1 /\ parser # Null
      /\ pos \in Nat /\ parser'.boundary = parser.boundary
    BY InsideReader DEF Inside, Reader, MultipartTypeOK, Text
<1>2. ContentEnd' = ContentEnd /\ (Unbroken' <=> Unbroken)
    BY <1>1 DEF ContentEnd, Unbroken
<1>3. Len(Received) \in Nat /\ Beginning' = pos - Len(Received)
  <2>1. Len(Gathered)' = Len(Received) + 1 /\ Len(Received) \in Nat
      BY <1>1, InsideKeepsBytes, ReceivedStands DEF Inside
  <2>. QED  BY <1>1, <2>1 DEF Beginning
<1>4. SUFFICES ASSUME Unbroken, NEW k \in Beginning' .. (pos' - 1),
                      \A i \in 1 .. Len(ContentEnd) :
                          k + i - 1 < pos' => body[k + i - 1] = ContentEnd[i]
               PROVE  k = pos' - Len(LookBehind')
    BY <1>1, <1>2 DEF OneCandidate
<1>5. k \in Int /\ k <= pos
    BY <1>1, <1>3
<1>6. /\ Len(ContentEnd) = Len(parser.boundary) + 2 /\ Len(parser.boundary) \in Nat
      /\ ContentEnd[1] = CR
    BY <1>1, EndBytes
<1>7. CASE k = pos
  <2>1. body[k] = ContentEnd[1]
    <3>1. 1 \in 1 .. Len(ContentEnd) /\ k + 1 - 1 = k /\ k + 1 - 1 < pos'
        BY <1>1, <1>5, <1>6, <1>7
    <3>. QED  BY <1>4, <3>1
  <2>2. Len(LookBehind') = 1
      BY <1>4, <1>6, <1>7, <2>1, LookingOn
  <2>. QED  BY <1>1, <1>7, <2>2
<1>8. CASE k < pos
  <2>1. InContent
    <3>1. ~InContent => Len(Received) = 0
        BY DEF Received
    <3>. QED  BY <1>1, <1>3, <1>8, <3>1
  <2>2. k \in Beginning .. (pos - 1)
      BY <1>1, <1>3, <1>5, <1>8, <2>1 DEF Received, Beginning
  <2>3. \A i \in 1 .. Len(ContentEnd) :
          k + i - 1 < pos => body[k + i - 1] = ContentEnd[i]
      BY <1>1, <1>4, <1>5
  <2>4. k = pos - Len(LookBehind)
      BY <1>4, <2>1, <2>2, <2>3 DEF OneCandidate
  <2>5. Len(LookBehind) \in Nat /\ Len(LookBehind) > 0
    <3>1. Len(LookBehind) \in Nat
        BY <2>1, LookBehindIsText DEF Text
    <3>. QED  BY <1>1, <1>8, <2>4, <3>1
  <2>6. Len(LookBehind) + 1 <= Len(ContentEnd)
    <3>1. parser.index \in Nat
        BY <1>1, ParserKnown
    <3>2. \/ Len(LookBehind) = 0 \/ Len(LookBehind) = 1
          \/ Len(LookBehind) = parser.index + 2 /\ parser.index < Len(parser.boundary)
        BY <2>1, LookBehindLength DEF InContent
    <3>3. PICK length \in Nat, room \in Nat, index \in Nat :
            /\ length = Len(LookBehind) /\ room = Len(parser.boundary)
            /\ index = parser.index
        BY <1>6, <2>5, <3>1
    <3>4. length = 0 \/ length = 1 \/ (length = index + 2 /\ index < room)
        BY <3>2, <3>3
    <3>5. length <= room + 1
        BY <3>4
    <3>. QED  BY <1>6, <3>3, <3>5
  <2>7. body[pos] = ContentEnd[Len(LookBehind) + 1]
    <3>1. /\ Len(LookBehind) + 1 \in 1 .. Len(ContentEnd)
          /\ k + (Len(LookBehind) + 1) - 1 = pos
        BY <1>1, <1>6, <2>4, <2>5, <2>6
    <3>. QED  BY <1>1, <1>4, <3>1
  <2>8. Len(LookBehind') = Len(LookBehind) + 1
      BY <2>1, <2>5, <2>7, LookingOn
  <2>. QED  BY <1>1, <2>4, <2>5, <2>8
<1>. QED  BY <1>1, <1>5, <1>7, <1>8

-----------------------------------------------------------------------------
(***************************************************************************)
(* Where the contents of the parts stand.                                  *)
(***************************************************************************)

\* The last byte of the content that has been gathered and is not held back.
Ending == Beginning + Len(interm.content) - 1

LEMMA GatheredStands ==
    ASSUME Reader, NothingLost, InContent
    PROVE  /\ pos \in Nat /\ Len(Gathered) \in Nat /\ Len(interm.content) \in Nat
           /\ Len(interm.content) <= Len(Gathered)
           /\ Beginning > 1 /\ Beginning \in Nat /\ Ending \in Nat
           /\ Beginning <= Ending + 1 /\ Ending < pos
           /\ body[Beginning - 1] = LF
           /\ Gathered = SubSeq(body, Beginning, pos - 1)
           /\ interm.content = SubSeq(body, Beginning, Ending)
           /\ parser.state # "part_data" => Ending + Len(LookBehind) + 1 = pos
<1>1. /\ pos \in Nat /\ pos <= Len(body) + 1 /\ Len(body) \in Nat /\ body \in Text
      /\ interm.content \in Text /\ Len(interm.content) \in Nat
    BY DEF Reader, MultipartTypeOK, Text, Interm
<1>2. /\ Gathered \in Text /\ LookBehind \in Text
      /\ Len(Gathered) \in Nat /\ Len(LookBehind) \in Nat
    BY LookBehindIsText DEF Text
<1>3. /\ Len(Gathered) + 1 < pos /\ body[pos - Len(Gathered) - 1] = LF
      /\ Gathered = SubSeq(body, pos - Len(Gathered), pos - 1)
    BY DEF NothingLost
<1>4. PICK behind \in Text :
        /\ Gathered = interm.content \o behind
        /\ parser.state # "part_data" => behind = LookBehind
  <2>1. Run(mark) \in Text
    <3>1. mark \in Nat \ {0} /\ pos - 1 \in Nat /\ pos - 1 <= Len(body)
        BY <1>1, <1>2, <1>3 DEF Reader, MultipartTypeOK
    <3>. QED  BY <1>1, <3>1, Slice DEF Run
  <2>. QED  BY <1>2, <2>1 DEF Gathered
<1>5. /\ Len(Gathered) = Len(interm.content) + Len(behind) /\ Len(behind) \in Nat
      /\ \A i \in 1 .. Len(interm.content) : Gathered[i] = interm.content[i]
  <2>1. /\ Len(interm.content \o behind) = Len(interm.content) + Len(behind)
        /\ \A i \in 1 .. Len(interm.content) + Len(behind) :
             (interm.content \o behind)[i] =
                 IF i <= Len(interm.content) THEN interm.content[i]
                 ELSE behind[i - Len(interm.content)]
      BY <1>1, ConcatProperties DEF Text
  <2>2. Len(behind) \in Nat
      BY DEF Text
  <2>. QED  BY <1>1, <1>4, <2>1, <2>2
<1>6. /\ Beginning > 1 /\ Beginning \in Nat /\ Ending \in Nat
      /\ Beginning <= Ending + 1 /\ Ending < pos
    BY <1>1, <1>2, <1>3, <1>5 DEF Beginning, Ending
<1>7. /\ body[Beginning - 1] = LF /\ Gathered = SubSeq(body, Beginning, pos - 1)
    BY <1>3 DEF Beginning
<1>8. interm.content = SubSeq(body, Beginning, Ending)
  <2>1. /\ SubSeq(body, Beginning, Ending) \in Text
        /\ Len(SubSeq(body, Beginning, Ending)) = Len(interm.content)
        /\ \A i \in 1 .. Len(interm.content) :
             SubSeq(body, Beginning, Ending)[i] = body[Beginning + i - 1]
    <3>1. Ending - Beginning + 1 = Len(interm.content) /\ Ending <= Len(body)
        BY <1>1, <1>6 DEF Ending
    <3>2. /\ SubSeq(body, Beginning, Ending) \in Text
          /\ Len(SubSeq(body, Beginning, Ending)) =
               IF Beginning <= Ending THEN Ending - Beginning + 1 ELSE 0
          /\ \A i \in 1 .. (Ending - Beginning + 1) :
               SubSeq(body, Beginning, Ending)[i] = body[Beginning + i - 1]
        BY <1>1, <1>6, <3>1, Slice
    <3>. QED  BY <1>1, <1>6, <3>1, <3>2
  <2>2. \A i \in 1 .. Len(Gathered) : Gathered[i] = body[Beginning + i - 1]
    <3>1. Len(Gathered) = (pos - 1) - Beginning + 1 /\ pos - 1 \in Nat /\ pos - 1 <= Len(body)
        BY <1>1, <1>2, <1>3 DEF Beginning
    <3>. QED  BY <1>1, <1>6, <1>7, <3>1, Slice
  <2>3. \A i \in 1 .. Len(interm.content) :
          interm.content[i] = SubSeq(body, Beginning, Ending)[i]
    <3>1. TAKE i \in 1 .. Len(interm.content)
    <3>2. i \in 1 .. Len(Gathered)
        BY <1>1, <1>2, <1>5
    <3>. QED  BY <1>5, <2>1, <2>2, <3>2
  <2>. QED  BY <1>1, <2>1, <2>3, SeqEqual DEF Text
<1>9. parser.state # "part_data" => Ending + Len(LookBehind) + 1 = pos
  <2>1. PICK all \in Nat, content \in Nat, held \in Nat :
          all = Len(Gathered) /\ content = Len(interm.content) /\ held = Len(behind)
      BY <1>1, <1>2, <1>5
  <2>2. Ending = pos - Len(Gathered) + Len(interm.content) - 1
      BY DEF Beginning, Ending
  <2>3. Ending + held + 1 = pos
    <3>1. Ending = pos - all + content - 1 /\ all = content + held
        BY <1>5, <2>1, <2>2
    <3>. QED  BY <1>1, <3>1
  <2>. QED  BY <1>4, <2>1, <2>3
<1>. QED  BY <1>1, <1>2, <1>5, <1>6, <1>7, <1>8, <1>9

LEMMA NoEndInside ==
    ASSUME Reader, NothingLost, OneCandidate, InContent, Unbroken
    PROVE  \A k \in Beginning .. Ending : ~Delimits(k)
<1>1. /\ pos \in Nat /\ Beginning \in Nat /\ Ending \in Nat /\ Ending < pos
      /\ parser.state # "part_data" => Ending + Len(LookBehind) + 1 = pos
    BY GatheredStands
<1>2. SUFFICES ASSUME NEW k \in Beginning .. Ending, Delimits(k)
               PROVE  FALSE
    OBVIOUS
<1>3. k \in Beginning .. (pos - 1) /\ k < pos
    BY <1>1
<1>4. k = pos - Len(LookBehind)
    BY <1>2, <1>3 DEF OneCandidate, Delimits
<1>5. CASE parser.state = "part_data"
  <2>1. Len(LookBehind) = 0
      BY <1>5, LookBehindLength
  <2>. QED  BY <1>1, <1>3, <1>4, <2>1
<1>6. CASE parser.state # "part_data"
  <2>1. Len(LookBehind) \in Nat
      BY LookBehindIsText DEF Text
  <2>. QED  BY <1>1, <1>3, <1>4, <1>6, <2>1
<1>. QED  BY <1>5, <1>6

LEMMA BodyNumbers ==
    ASSUME Reader
    PROVE  /\ pos \in Nat \ {0} /\ pos <= Len(body) + 1 /\ Len(body) \in Nat
           /\ parser # Null => Len(ContentEnd) \in Nat
           /\ ~InContent => Border = pos
BY EndBytes DEF Reader, MultipartTypeOK, Text, Border

\* The list stays as it is, and a content begins no earlier than before.
LEMMA LedgerKept ==
    ASSUME Reader, Ledger, body' = body, parser # Null, parser'.boundary = parser.boundary,
           parts'.list = parts.list, pos' \in Nat, pos <= pos',
           phase' = "body" => /\ phase = "body" /\ Border \in Int /\ Border' \in Int
                              /\ Border <= Border'
    PROVE  Ledger'
<1>1. ContentEnd' = ContentEnd /\ (Unbroken' <=> Unbroken) /\ Len(ContentEnd) \in Nat
    BY BodyNumbers DEF ContentEnd, Unbroken
<1>2. \A k \in Int : Delimits(k)' <=> Delimits(k)
    BY <1>1 DEF Delimits
<1>3. SUFFICES ASSUME Unbroken
               PROVE  \E from, to \in [1 .. Len(parts.list) -> Nat] :
                        /\ StandAt(from, to)'
                        /\ phase' = "body" =>
                             \A n \in 1 .. Len(parts.list) : to[n] + Len(ContentEnd) < Border'
    BY <1>1 DEF Ledger
<1>4. PICK from, to \in [1 .. Len(parts.list) -> Nat] :
        /\ StandAt(from, to)
        /\ phase = "body" => \A n \in 1 .. Len(parts.list) : to[n] + Len(ContentEnd) < Border
    BY <1>3 DEF Ledger
<1>5. StandAt(from, to)'
  <2>1. SUFFICES ASSUME NEW n \in 1 .. Len(parts.list)
                 PROVE  /\ from[n] > 1 /\ from[n] <= to[n] + 1 /\ to[n] < pos'
                        /\ body[from[n] - 1] = LF
                        /\ parts.list[n].data = SubSeq(body, from[n], to[n])
                        /\ \A k \in from[n] .. to[n] : ~Delimits(k)'
                        /\ \/ Delimits(to[n] + 1)'
                           \/ /\ n = Len(parts.list) /\ phase' # "body"
                              /\ Len(body) < to[n] + Len(ContentEnd)
                        /\ \A m \in 1 .. Len(parts.list) :
                             m > n => to[n] + Len(ContentEnd) < from[m]
      BY <1>1 DEF StandAt
  <2>2. from[n] \in Nat /\ to[n] \in Nat /\ pos \in Nat
      BY BodyNumbers
  <2>3. to[n] + 1 \in Int /\ from[n] .. to[n] \subseteq Int
      BY <2>2
  <2>. QED  BY <1>2, <1>4, <2>2, <2>3 DEF StandAt
<1>6. phase' = "body" =>
        \A n \in 1 .. Len(parts.list) : to[n] + Len(ContentEnd) < Border'
  <2>1. SUFFICES ASSUME phase' = "body", NEW n \in 1 .. Len(parts.list)
                 PROVE  to[n] + Len(ContentEnd) < Border'
      OBVIOUS
  <2>2. to[n] \in Nat /\ to[n] + Len(ContentEnd) < Border
      BY <1>4, <2>1
  <2>. QED  BY <1>1, <2>1, <2>2
<1>. QED  BY <1>4, <1>5, <1>6

\* The content read becomes a part, or is dropped.
LEMMA LedgerAdded ==
    ASSUME Reader, NothingLost, OneCandidate, Ledger, InContent, phase = "body",
           body' = body, parser'.boundary = parser.boundary,
           parts' = WithContent(interm.content), pos' \in Nat, pos <= pos',
           \/ Delimits(Ending + 1)
           \/ phase' # "body" /\ Len(body) < Ending + Len(ContentEnd),
           phase' = "body" => ~InContent' /\ Ending + Len(ContentEnd) < pos'
    PROVE  Ledger'
<1>1. /\ parser # Null /\ pos \in Nat /\ Beginning \in Nat /\ Ending \in Nat
      /\ Beginning > 1 /\ Beginning <= Ending + 1 /\ Ending < pos
      /\ body[Beginning - 1] = LF /\ interm.content = SubSeq(body, Beginning, Ending)
      /\ Border = Beginning
    BY GatheredStands DEF InContent, Border
<1>2. ContentEnd' = ContentEnd /\ (Unbroken' <=> Unbroken) /\ Len(ContentEnd) \in Nat
    BY <1>1, BodyNumbers DEF ContentEnd, Unbroken
<1>3. \A k \in Int : Delimits(k)' <=> Delimits(k)
    BY <1>2 DEF Delimits
<1>4. /\ Len(parts.list) \in Nat /\ Len(parts'.list) \in Nat
      /\ \/ parts'.list = parts.list
         \/ /\ Len(parts'.list) = Len(parts.list) + 1
            /\ parts'.list[Len(parts.list) + 1].data = interm.content
            /\ \A n \in 1 .. Len(parts.list) : parts'.list[n] = parts.list[n]
  <2>1. parts \in Parts /\ parts.root <= Len(parts.list) /\ interm.content \in Text
      BY DEF Reader, MultipartTypeOK, Interm
  <2>2. Len(parts.list) \in Nat
      BY <2>1 DEF Parts
  <2>. QED  BY <2>1, <2>2, WithContentParts
<1>5. SUFFICES ASSUME Unbroken
               PROVE  \E from, to \in [1 .. Len(parts'.list) -> Nat] :
                        /\ StandAt(from, to)'
                        /\ phase' = "body" =>
                             \A n \in 1 .. Len(parts'.list) : to[n] + Len(ContentEnd) < Border'
    BY <1>2 DEF Ledger
<1>6. PICK from0, to0 \in [1 .. Len(parts.list) -> Nat] :
        /\ StandAt(from0, to0)
        /\ \A n \in 1 .. Len(parts.list) : to0[n] + Len(ContentEnd) < Beginning
    BY <1>1, <1>5 DEF Ledger
<1>7. PICK from, to \in [1 .. Len(parts'.list) -> Nat] :
        \A n \in 1 .. Len(parts'.list) :
           \/ /\ n \in 1 .. Len(parts.list) /\ from[n] = from0[n] /\ to[n] = to0[n]
              /\ parts'.list[n] = parts.list[n]
           \/ /\ n = Len(parts.list) + 1 /\ n = Len(parts'.list)
              /\ from[n] = Beginning /\ to[n] = Ending
              /\ parts'.list[n].data = interm.content
  <2>. DEFINE f == [n \in 1 .. Len(parts'.list) |->
                     IF n <= Len(parts.list) THEN from0[n] ELSE Beginning]
              t == [n \in 1 .. Len(parts'.list) |->
                     IF n <= Len(parts.list) THEN to0[n] ELSE Ending]
  <2>1. f \in [1 .. Len(parts'.list) -> Nat] /\ t \in [1 .. Len(parts'.list) -> Nat]
      BY <1>1, <1>4
  <2>2. \A n \in 1 .. Len(parts'.list) :
          \/ /\ n \in 1 .. Len(parts.list) /\ f[n] = from0[n] /\ t[n] = to0[n]
             /\ parts'.list[n] = parts.list[n]
          \/ /\ n = Len(parts.list) + 1 /\ n = Len(parts'.list)
             /\ f[n] = Beginning /\ t[n] = Ending
             /\ parts'.list[n].data = interm.content
      BY <1>1, <1>4
  <2>. HIDE DEF f, t
  <2>. QED  BY <2>1, <2>2
<1>8. \A k \in Beginning .. Ending : ~Delimits(k)
    BY <1>5, NoEndInside
<1>9. StandAt(from, to)'
  <2>1. SUFFICES ASSUME NEW n \in 1 .. Len(parts'.list)
                 PROVE  /\ from[n] > 1 /\ from[n] <= to[n] + 1 /\ to[n] < pos'
                        /\ body[from[n] - 1] = LF
                        /\ parts'.list[n].data = SubSeq(body, from[n], to[n])
                        /\ \A k \in from[n] .. to[n] : ~Delimits(k)'
                        /\ \/ Delimits(to[n] + 1)'
                           \/ /\ n = Len(parts'.list) /\ phase' # "body"
                              /\ Len(body) < to[n] + Len(ContentEnd)
                        /\ \A m \in 1 .. Len(parts'.list) :
                             m > n => to[n] + Len(ContentEnd) < from[m]
      BY <1>2 DEF StandAt
  <2>2. CASE n \in 1 .. Len(parts.list) /\ from[n] = from0[n] /\ to[n] = to0[n]
             /\ parts'.list[n] = parts.list[n]
    <3>1. PICK k \in 1 .. Len(parts.list) : k = n
        BY <2>2
    <3>2. /\ from0[k] > 1 /\ from0[k] <= to0[k] + 1 /\ to0[k] < pos
          /\ body[from0[k] - 1] = LF
          /\ parts.list[k].data = SubSeq(body, from0[k], to0[k])
          /\ \A i \in from0[k] .. to0[k] : ~Delimits(i)
          /\ Delimits(to0[k] + 1)
          /\ \A m \in 1 .. Len(parts.list) : m > k => to0[k] + Len(ContentEnd) < from0[m]
        BY <1>6 DEF StandAt
    <3>3. to0[k] + 1 \in Int /\ from0[k] .. to0[k] \subseteq Int /\ to0[k] < pos'
      <4>1. from0[k] \in Nat /\ to0[k] \in Nat
          BY <1>6
      <4>. QED  BY <1>1, <3>2, <4>1
    <3>4. \A m \in 1 .. Len(parts'.list) : m > n => to0[n] + Len(ContentEnd) < from[m]
        BY <1>6, <1>7, <2>2, <3>1, <3>2
    <3>. QED  BY <1>3, <2>2, <3>1, <3>2, <3>3, <3>4
  <2>3. CASE n = Len(parts.list) + 1 /\ n = Len(parts'.list) /\ from[n] = Beginning
             /\ to[n] = Ending /\ parts'.list[n].data = interm.content
    <3>1. Ending + 1 \in Int /\ Beginning .. Ending \subseteq Int /\ Ending < pos'
        BY <1>1
    <3>2. \/ Delimits(to[n] + 1)'
          \/ phase' # "body" /\ Len(body) < to[n] + Len(ContentEnd)
        BY <1>3, <2>3, <3>1
    <3>3. \A m \in 1 .. Len(parts'.list) : ~(m > n)
        BY <1>4, <2>3
    <3>. QED  BY <1>1, <1>3, <1>8, <2>3, <3>1, <3>2, <3>3
  <2>. QED  BY <1>7, <2>2, <2>3
<1>10. phase' = "body" =>
         \A n \in 1 .. Len(parts'.list) : to[n] + Len(ContentEnd) < Border'
  <2>1. SUFFICES ASSUME phase' = "body", NEW n \in 1 .. Len(parts'.list)
                 PROVE  to[n] + Len(ContentEnd) < pos'
      BY DEF Border
  <2>2. CASE n \in 1 .. Len(parts.list) /\ to[n] = to0[n]
    <3>1. to0[n] \in Nat /\ to0[n] + Len(ContentEnd) < Beginning
        BY <1>6, <2>2
    <3>. QED  BY <1>1, <1>2, <2>2, <3>1
  <2>. QED  BY <1>7, <2>1, <2>2
<1>. QED  BY <1>7, <1>9, <1>10

\* What is held back in front of the last byte of a boundary is all but that byte
\* of the end of a content.
LEMMA DelimiterRead ==
    ASSUME Reader, NothingLost, InContent, parser.state = "part_data_boundary",
           pos <= Len(body), parser.index + 1 = Len(parser.boundary),
           body[pos] = parser.boundary[parser.index + 1]
    PROVE  Delimits(Ending + 1) /\ Ending + Len(ContentEnd) = pos
<1>1. /\ parser # Null /\ parser.index \in Nat /\ parser.index < Len(parser.boundary)
      /\ Len(ContentEnd) = parser.index + 3
      /\ ContentEnd[1] = CR /\ ContentEnd[2] = LF
      /\ \A i \in 1 .. Len(parser.boundary) : ContentEnd[i + 2] = parser.boundary[i]
    BY ParserKnown, EndBytes DEF InContent
<1>2. /\ pos \in Nat /\ Len(body) \in Nat /\ body \in Text
      /\ Beginning \in Nat /\ Ending \in Nat /\ Beginning > 1
      /\ Len(interm.content) \in Nat /\ Len(Gathered) \in Nat
      /\ Gathered = SubSeq(body, Beginning, pos - 1)
      /\ Ending + Len(LookBehind) + 1 = pos
    BY GatheredStands, BodyNumbers DEF Reader, MultipartTypeOK
<1>3. Len(LookBehind) = parser.index + 2
    BY LookBehindLength
<1>4. /\ Ending + parser.index + 3 = pos /\ Ending + Len(ContentEnd) = pos
      /\ Ending = Beginning + Len(interm.content) - 1
  <2>1. PICK index \in Nat, ending \in Nat, behind \in Nat :
          index = parser.index /\ ending = Ending /\ behind = Len(LookBehind)
    <3>1. Len(LookBehind) \in Nat
        BY LookBehindIsText DEF Text
    <3>. QED  BY <1>1, <1>2, <3>1
  <2>2. behind = index + 2 /\ ending + behind + 1 = pos /\ Len(ContentEnd) = index + 3
      BY <1>1, <1>2, <1>3, <2>1
  <2>3. ending + index + 3 = pos
      BY <2>2
  <2>4. Ending = Beginning + Len(interm.content) - 1
      BY DEF Ending
  <2>5. ending + Len(ContentEnd) = pos
      BY <2>2, <2>3
  <2>. QED  BY <2>1, <2>3, <2>4, <2>5
<1>5. \A i \in 1 .. (parser.index + 2) : LookBehind[i] = ContentEnd[i]
  <2>1. PICK eol \in Text, read \in Text :
          /\ eol = <<CR, LF>> /\ Len(eol) = 2 /\ eol[1] = CR /\ eol[2] = LF
          /\ read = SubSeq(parser.boundary, 1, parser.index) /\ Len(read) = parser.index
          /\ \A i \in 1 .. parser.index : read[i] = parser.boundary[i]
    <3>1. <<CR, LF>> \in Text /\ Len(<<CR, LF>>) = 2
        BY BytesAssumption DEF Text
    <3>2. /\ SubSeq(parser.boundary, 1, parser.index) \in Text
          /\ Len(SubSeq(parser.boundary, 1, parser.index)) = parser.index
        BY <1>1, BoundaryGrows
    <3>3. \A i \in 1 .. parser.index :
            SubSeq(parser.boundary, 1, parser.index)[i] = parser.boundary[i]
      <4>1. parser.boundary \in Text /\ Len(parser.boundary) \in Nat
          BY <1>1, ParserKnown
      <4>2. \A i \in 1 .. (parser.index - 1 + 1) :
              SubSeq(parser.boundary, 1, parser.index)[i] = parser.boundary[1 + i - 1]
          BY <1>1, <4>1, Slice
      <4>. QED  BY <1>1, <4>2
    <3>. QED  BY <3>1, <3>2, <3>3
  <2>2. LookBehind = eol \o read
      BY <2>1 DEF LookBehind
  <2>3. \A i \in 1 .. (parser.index + 2) :
          LookBehind[i] = IF i <= 2 THEN eol[i] ELSE read[i - 2]
    <3>1. \A i \in 1 .. Len(eol) + Len(read) :
            (eol \o read)[i] = IF i <= Len(eol) THEN eol[i] ELSE read[i - Len(eol)]
        BY ConcatProperties DEF Text
    <3>. QED  BY <1>1, <2>1, <2>2, <3>1
  <2>4. TAKE i \in 1 .. (parser.index + 2)
  <2>5. CASE i <= 2
    <3>1. i = 1 \/ i = 2
        BY <1>1, <2>5
    <3>2. LookBehind[i] = eol[i]
        BY <2>3, <2>5
    <3>. QED  BY <1>1, <2>1, <3>1, <3>2
  <2>6. CASE i > 2
    <3>1. /\ i - 2 \in 1 .. parser.index /\ i - 2 \in 1 .. Len(parser.boundary)
          /\ (i - 2) + 2 = i /\ ~(i <= 2)
        BY <1>1, <2>6
    <3>2. LookBehind[i] = parser.boundary[i - 2]
        BY <2>1, <2>3, <3>1
    <3>. QED  BY <1>1, <3>1, <3>2
  <2>. QED  BY <1>1, <2>5, <2>6
<1>6. \A i \in 1 .. (parser.index + 2) : body[Ending + i] = LookBehind[i]
  <2>1. Gathered = interm.content \o LookBehind /\ interm.content \in Text
      BY DEF Gathered, Reader, MultipartTypeOK, Interm
  <2>2. \A i \in 1 .. Len(interm.content) + Len(LookBehind) :
          Gathered[i] = IF i <= Len(interm.content) THEN interm.content[i]
                        ELSE LookBehind[i - Len(interm.content)]
      BY <2>1, LookBehindIsText, ConcatProperties DEF Text
  <2>3. \A i \in 1 .. ((pos - 1) - Beginning + 1) : Gathered[i] = body[Beginning + i - 1]
    <3>1. pos - 1 \in Nat /\ pos - 1 <= Len(body)
        BY <1>1, <1>2, <1>4
    <3>. QED  BY <1>2, <3>1, Slice
  <2>4. TAKE i \in 1 .. (parser.index + 2)
  <2>5. PICK length \in Nat : length = Len(interm.content)
      BY <1>2
  <2>6. /\ length + i \in 1 .. length + Len(LookBehind) /\ ~(length + i <= length)
        /\ (length + i) - length = i
        /\ length + i \in 1 .. ((pos - 1) - Beginning + 1)
        /\ Beginning + (length + i) - 1 = Ending + i
    <3>1. PICK index \in Nat, ending \in Nat, beginning \in Nat :
            index = parser.index /\ ending = Ending /\ beginning = Beginning
        BY <1>1, <1>2
    <3>2. /\ ending + index + 3 = pos /\ ending = beginning + length - 1
          /\ Len(LookBehind) = index + 2 /\ i \in 1 .. (index + 2)
        BY <1>3, <1>4, <2>5, <3>1
    <3>3. /\ length + i \in 1 .. length + (index + 2) /\ ~(length + i <= length)
          /\ (length + i) - length = i
          /\ length + i \in 1 .. ((pos - 1) - beginning + 1)
          /\ beginning + (length + i) - 1 = ending + i
        BY <1>2, <3>2
    <3>. QED  BY <3>1, <3>2, <3>3
  <2>7. Gathered[length + i] = LookBehind[i]
      BY <2>2, <2>5, <2>6
  <2>8. Gathered[length + i] = body[Ending + i]
      BY <2>3, <2>6
  <2>. QED  BY <2>7, <2>8
<1>7. \A i \in 1 .. Len(ContentEnd) : body[Ending + 1 + i - 1] = ContentEnd[i]
  <2>1. TAKE i \in 1 .. Len(ContentEnd)
  <2>2. Ending + 1 + i - 1 = Ending + i
      BY <1>1, <1>2
  <2>3. CASE i \in 1 .. (parser.index + 2)
      BY <1>5, <1>6, <2>2, <2>3
  <2>4. CASE i = parser.index + 3
    <3>1. Ending + i = pos /\ i = (parser.index + 1) + 2
        BY <1>1, <1>2, <1>4, <2>4
    <3>2. parser.index + 1 \in 1 .. Len(parser.boundary)
        BY <1>1
    <3>. QED  BY <1>1, <2>2, <3>1, <3>2
  <2>. QED  BY <1>1, <2>3, <2>4
<1>8. Ending + 1 + Len(ContentEnd) - 1 <= Len(body)
  <2>1. PICK ending \in Nat, length \in Nat : ending = Ending /\ length = Len(ContentEnd)
      BY <1>1, <1>2, BodyNumbers
  <2>2. ending + length = pos
      BY <1>4, <2>1
  <2>3. ending + 1 + length - 1 <= Len(body)
      BY <1>2, <2>2
  <2>. QED  BY <2>1, <2>3
<1>. QED  BY <1>4, <1>7, <1>8 DEF Delimits

LEMMA PartReadTypes ==
    ASSUME Reader, PartRead
    PROVE  /\ parts' = WithContent(interm.content) /\ parts' \in Parts
           /\ parts'.root <= Len(parts'.list) /\ parts'.expected = parts.expected
           /\ interm' \in Interm /\ ~interm'.unfinished
<1>1. /\ parts \in Parts /\ parts.root <= Len(parts.list)
      /\ interm \in Interm /\ interm.content \in Text /\ <<>> \in Text
    BY DEF Reader, MultipartTypeOK, Interm, Text
<1>2. interm' \in Interm /\ ~interm'.unfinished
    BY <1>1 DEF PartRead, Interm
<1>3. parts' = WithContent(interm.content)
    BY DEF PartRead
<1>. QED  BY <1>1, <1>2, <1>3, WithContentParts

LEMMA BoundaryEndStep ==
    ASSUME Reader, NothingLost, NEW last \in BOOLEAN, BoundaryEnd(last)
    PROVE  /\ Reader' /\ body' = body /\ pos' = pos + 1
           /\ InContent /\ ~InContent' /\ parser # Null /\ parser' # Null
           /\ parser'.boundary = parser.boundary
           /\ parts' = WithContent(interm.content) /\ parts'.expected = parts.expected
           /\ Delimits(Ending + 1) /\ Ending + Len(ContentEnd) < pos'
<1>1. /\ parser # Null /\ pos <= Len(body) /\ parser.state = "part_data_boundary"
      /\ InContent /\ body[pos] = parser.boundary[parser.index + 1]
      /\ parser.index + 1 = Len(parser.boundary) /\ Past(mark, last) /\ PartRead
      /\ body' = body
    BY DEF BoundaryEnd, At, ReadingBody, InContent
<1>2. /\ pos' = pos + 1 /\ pos' \in 1 .. (Len(body) + 1)
      /\ mark' \in 1 .. (Len(body) + 1) /\ RunAt(mark', pos')
    BY <1>1, PastStep, MarkBehind
<1>3. /\ parser' \in Parser /\ parser' # Null /\ parser'.boundary = parser.boundary
      /\ parser'.state = "part_data_almost_end"
      /\ parser'.index <= Len(parser'.boundary) + 1 /\ Bounded'
  <2>1. PICK state \in ParserState, index \in Nat :
          state = "part_data_almost_end" /\ index = parser.index + 1
      BY <1>1, ParserKnown DEF ParserState
  <2>2. parser' = [parser EXCEPT !.state = state, !.index = index]
      BY <1>1, <2>1, ParserKnown DEF BoundaryEnd, Parser
  <2>3. index <= Len(parser.boundary) + 1
      BY <1>1, <2>1, ParserKnown
  <2>. QED  BY <1>1, <2>1, <2>2, <2>3, ParserStep
<1>4. /\ parts' = WithContent(interm.content) /\ parts' \in Parts
      /\ parts'.root <= Len(parts'.list) /\ parts'.expected = parts.expected
      /\ interm' \in Interm /\ ~interm'.unfinished
    BY <1>1, PartReadTypes
<1>5. Delimits(Ending + 1) /\ Ending + Len(ContentEnd) = pos /\ pos \in Nat
    BY <1>1, DelimiterRead, BodyNumbers
<1>6. ~InContent'
    BY <1>3 DEF InContent
<1>. QED
    BY <1>1, <1>2, <1>3, <1>4, <1>5, <1>6 DEF Reader, MultipartTypeOK, InFront, RunAt

LEMMA LedgerEmpty == ASSUME parts'.list = <<>> PROVE Ledger'
<1>1. 1 .. Len(parts'.list) = {}
    OBVIOUS
<1>2. \A from, to : StandAt(from, to)'
    BY <1>1 DEF StandAt
<1>3. [n \in 1 .. Len(parts'.list) |-> 0] \in [1 .. Len(parts'.list) -> Nat]
    OBVIOUS
<1>. QED  BY <1>1, <1>2, <1>3 DEF Ledger

-----------------------------------------------------------------------------
(***************************************************************************)
(* The inductive invariant.                                                *)
(***************************************************************************)

Inv == TypeOK /\ Bounded /\ InFront /\ Waiting /\ Reading /\ Ledger

LEMMA InvReader == Inv => Reader
BY DEF Inv, Reader, TypeOK

LEMMA InitInv == Init => Inv
<1>. SUFFICES ASSUME Init PROVE Inv
    OBVIOUS
<1>1. /\ response \in Responses /\ body = response.body /\ body \in Text
      /\ response.lines \in Seq(Text) /\ Len(response.lines) \in Nat /\ Len(body) \in Nat
    BY ResponsesAssumption DEF Init, Text
<1>2. interm \in Interm /\ ~interm.unfinished
    BY DEF Init, NewInterm, Interm, Text
<1>3. parts \in Parts /\ parts.list = <<>> /\ parts.root <= Len(parts.list)
    BY DEF Init, NewParts, Parts, TextOrNull
<1>4. result \in [err : Err, data : TextOrNull]
    BY DEF Init, NoResult, Err, TextOrNull
<1>5. MultipartTypeOK
    BY <1>1, <1>2, <1>3 DEF Init, MultipartTypeOK
<1>6. TypeOK
  <2>1. <<>> \in Text
      BY DEF Text
  <2>2. multi \in BOOLEAN /\ raw \in Text /\ phase \in Phase
      BY <2>1 DEF Init, Phase
  <2>3. line \in 0 .. Len(response.lines)
      BY <1>1 DEF Init
  <2>. QED  BY <1>1, <1>4, <1>5, <2>2, <2>3 DEF TypeOK
<1>7. Bounded /\ InFront /\ Waiting /\ Reading /\ Ledger
    BY <1>1, <1>2, <1>3 DEF Init, Bounded, InFront, RunAt, Waiting, Reading, Ledger, NothingLost,
       OneCandidate, InContent
<1>. QED  BY <1>6, <1>7 DEF Inv

\* Steps that leave the reader as it is.
LEMMA Unmoved ==
    ASSUME Inv, UNCHANGED <<multipartVars, response, line, multi, raw>>, phase' \in Phase,
           phase' \in {"headers", "body"} =>
               phase = phase' \/ (phase = "headers" /\ phase' = "body"),
           result' \in [err : Err, data : TextOrNull]
    PROVE  Inv'
<1>1. Reader
    BY InvReader
<1>2. /\ body' = body /\ pos' = pos /\ mark' = mark /\ parser' = parser
      /\ interm' = interm /\ parts' = parts
    BY DEF multipartVars
<1>3. MultipartTypeOK' /\ TypeOK'
    BY <1>2 DEF Inv, TypeOK, MultipartTypeOK
<1>4. /\ InContent' <=> InContent
      /\ Gathered' = Gathered /\ LookBehind' = LookBehind /\ ContentEnd' = ContentEnd
    BY <1>2 DEF InContent, Gathered, Run, LookBehind, ContentEnd
<1>5. Bounded' /\ InFront' /\ Waiting'
    BY <1>2, <1>4 DEF Inv, Bounded, InFront, RunAt, Waiting
<1>6. NothingLost' <=> NothingLost
    BY <1>2, <1>4 DEF NothingLost
<1>7. Beginning' = Beginning /\ Border' = Border /\ (Unbroken' <=> Unbroken)
    BY <1>2, <1>4 DEF Beginning, Border, Unbroken
<1>8. OneCandidate' <=> OneCandidate
    BY <1>2, <1>4, <1>7 DEF OneCandidate
<1>9. Reading'
    BY <1>6, <1>8 DEF Inv, Reading
<1>10. Ledger'
  <2>1. CASE parser = Null
      BY <1>2, <2>1 DEF Ledger
  <2>2. CASE phase = "headers"
      BY <1>2, <2>2, LedgerEmpty DEF Inv, Waiting
  <2>3. CASE parser # Null /\ phase # "headers"
    <3>1. pos' \in Nat /\ pos <= pos'
        BY <1>1, <1>2, BodyNumbers
    <3>2. phase' = "body" => phase = "body"
        BY <2>3
    <3>3. phase' = "body" => Border \in Int /\ Border' \in Int /\ Border <= Border'
      <4>1. phase = "body" => Border \in Int
        <5>1. CASE InContent
            BY <1>1, <5>1, GatheredStands DEF Border, Inv, Reading
        <5>2. CASE ~InContent
            BY <1>1, <5>2, BodyNumbers
        <5>. QED  BY <5>1, <5>2
      <4>. QED  BY <1>7, <3>2, <4>1
    <3>4. Ledger
        BY DEF Inv
    <3>. QED  BY <1>1, <1>2, <2>3, <3>1, <3>2, <3>3, <3>4, LedgerKept
  <2>. QED  BY <2>1, <2>2, <2>3
<1>. QED  BY <1>3, <1>5, <1>9, <1>10 DEF Inv

\* A parameter of the header begins the list of parts or the parser.
LEMMA HeaderLineStep ==
    ASSUME Inv, HeaderLine
    PROVE  Inv'
<1>1. /\ phase = "headers" /\ line < Len(response.lines) /\ phase' = phase
      /\ line' = line + 1 /\ UNCHANGED <<body, pos, mark, interm, response, raw, result>>
    BY DEF HeaderLine
<1>2. /\ response \in Responses /\ response.lines \in Seq(Text) /\ line \in Nat
      /\ Len(response.lines) \in Nat
    BY ResponsesAssumption DEF Inv, TypeOK
<1>3. Line \in Text
  <2>1. response.lines[line + 1] \in Text
    <3>1. line + 1 \in 1 .. Len(response.lines)
        BY <1>1, <1>2
    <3>. QED  BY <1>2, <3>1, ElementOfSeq
  <2>2. <<CR, LF>> \in Text
      BY BytesAssumption DEF Text
  <2>. QED  BY <2>1, <2>2, Joined DEF Line
<1>4. LineStart \in Text /\ LineBoundary \in Text
    BY <1>3, AssignedIsText DEF LineStart, LineBoundary
<1>5. parts' \in Parts /\ parts'.list = parts.list /\ parts'.root = parts.root
  <2>1. parts \in Parts
      BY DEF Inv, TypeOK, MultipartTypeOK
  <2>2. PICK expected \in TextOrNull : parts' = [parts EXCEPT !.expected = expected]
    <3>1. parts.expected \in TextOrNull /\ LineStart \in TextOrNull
        BY <1>4, <2>1 DEF Parts, TextOrNull
    <3>2. parts' = [parts EXCEPT !.expected =
                      IF LineStart = <<>> THEN parts.expected ELSE LineStart]
        BY <2>1 DEF HeaderLine, Parts
    <3>. QED  BY <3>1, <3>2
  <2>. QED  BY <2>1, <2>2 DEF Parts
<1>6. \/ parser' = parser
      \/ /\ parser' \in Parser /\ Len(parser'.boundary) >= 2
         /\ parser'.index <= Len(parser'.boundary) + 1 /\ parser'.state = "start_boundary"
  <2>1. SUFFICES ASSUME parser' = NewParser(LineBoundary)
                 PROVE  /\ parser' \in Parser /\ Len(parser'.boundary) >= 2
                        /\ parser'.index <= Len(parser'.boundary) + 1
                        /\ parser'.state = "start_boundary"
      BY DEF HeaderLine
  <2>2. PICK hyphens \in Text, name \in Text :
          hyphens = <<HY, HY>> /\ Len(hyphens) = 2 /\ name = LineBoundary
    <3>1. <<HY, HY>> \in Text /\ Len(<<HY, HY>>) = 2
        BY BytesAssumption DEF Text
    <3>. QED  BY <1>4, <3>1
  <2>3. PICK boundary \in Text : boundary = hyphens \o name /\ Len(boundary) = 2 + Len(name)
      BY <2>2, Joined
  <2>4. Len(name) \in Nat
      BY DEF Text
  <2>5. parser' = [boundary |-> boundary, state |-> "start_boundary", index |-> 0]
      BY <2>1, <2>2, <2>3 DEF NewParser
  <2>. QED  BY <2>3, <2>4, <2>5 DEF Parser, ParserState
<1>7. /\ parser # Null => parser.state = "start_boundary"
      /\ parts.list = <<>> /\ ~interm.unfinished /\ pos = 1 /\ mark = 1
    BY <1>1 DEF Inv, Waiting
<1>8. parser' # Null => parser'.state = "start_boundary"
    BY <1>6, <1>7
<1>9. MultipartTypeOK'
    BY <1>1, <1>5, <1>6 DEF Inv, TypeOK, MultipartTypeOK
<1>10. TypeOK'
  <2>1. line' \in 0 .. Len(response'.lines)
      BY <1>1, <1>2
  <2>2. multi' \in BOOLEAN
      BY DEF HeaderLine
  <2>. QED  BY <1>1, <1>9, <2>1, <2>2 DEF Inv, TypeOK
<1>11. Bounded'
    BY <1>6 DEF Inv, Bounded
<1>12. ~InContent'
    BY <1>8 DEF InContent
<1>13. InFront'
    BY <1>1, <1>7, <1>8 DEF Inv, InFront, RunAt
<1>14. Waiting' /\ Reading'
    BY <1>1, <1>5, <1>7, <1>8, <1>12 DEF Waiting, Reading, NothingLost, OneCandidate
<1>15. Ledger'
    BY <1>5, <1>7, LedgerEmpty
<1>. QED  BY <1>10, <1>11, <1>13, <1>14, <1>15 DEF Inv

\* A body that is not a multipart one is kept as it is.
LEMMA PlainBodyStep ==
    ASSUME Inv, PlainBody
    PROVE  Inv'
<1>1. /\ phase = "body" /\ ~multi /\ pos' = Len(body) + 1 /\ mark' = pos' /\ raw' = body
      /\ UNCHANGED <<body, parser, interm, parts, response, line, multi, phase, result>>
    BY DEF PlainBody
<1>2. body \in Text /\ Len(body) \in Nat
    BY DEF Inv, TypeOK, MultipartTypeOK, Text
<1>3. /\ parser # Null => parser.state = "start_boundary"
      /\ parts.list = <<>> /\ ~interm.unfinished
    BY <1>1 DEF Inv, Waiting
<1>4. MultipartTypeOK'
    BY <1>1, <1>2 DEF Inv, TypeOK, MultipartTypeOK
<1>5. TypeOK'
    BY <1>1, <1>2, <1>4 DEF Inv, TypeOK
<1>6. Bounded' /\ ~InContent'
    BY <1>1, <1>3 DEF Inv, Bounded, InContent
<1>7. InFront' /\ Waiting' /\ Reading'
    BY <1>1, <1>2, <1>3, <1>6 DEF InFront, RunAt, Waiting, Reading, NothingLost, OneCandidate
<1>8. Ledger'
    BY <1>1, <1>3, LedgerEmpty
<1>. QED  BY <1>5, <1>6, <1>7, <1>8 DEF Inv

\* Every byte of a multipart body is read outside contents, in a content or
\* as the last of a boundary.
LEMMA ReadCases ==
    ASSUME Reader, ReadBody
    PROVE  \/ Elsewhere
           \/ \E last \in BOOLEAN : InsideSteps(last)
           \/ \E last \in BOOLEAN : BoundaryEnd(last)
<1>1. CASE Refuse
    BY <1>1, RefuseStep
<1>2. ASSUME NEW last \in BOOLEAN, Accept(last)
      PROVE  Elsewhere \/ InsideSteps(last) \/ BoundaryEnd(last)
  <2>1. CASE FirstBoundary(last)
      BY <2>1, FirstBoundaryStep
  <2>2. CASE NameByte(last) \/ NameEnd(last)
      BY <2>2, NameSteps
  <2>3. CASE ValueByte(last) \/ ValueEnd(last)
      BY <2>3, ValueSteps
  <2>4. CASE \/ HeadersEnd(last) \/ HeadersDone(last) \/ ValueSpace(last) \/ HeaderDone(last)
             \/ AfterBoundary(last) \/ NextPart(last) \/ FinalHyphen(last) \/ Epilogue(last)
      BY <2>4, PassingSteps
  <2>5. CASE \/ FirstDataByte(last) \/ DataByte(last) \/ NoBoundary(last)
             \/ AlmostBoundary(last) \/ BoundaryByte(last)
      BY <2>5 DEF InsideSteps
  <2>. QED  BY <1>2, <2>1, <2>2, <2>3, <2>4, <2>5 DEF Accept
<1>. QED  BY <1>1, <1>2 DEF ReadBody

LEMMA ElsewhereStep ==
    ASSUME Inv, ReadingBody, Elsewhere, phase = "body", phase' \in {"body", "crashed"}
    PROVE  Reader' /\ NothingLost' /\ OneCandidate' /\ Ledger'
<1>1. Reader /\ Ledger /\ parser # Null
    BY InvReader DEF Inv, ReadingBody
<1>2. pos \in Nat \ {0} /\ Len(body) \in Nat /\ Border = pos
    BY <1>1, BodyNumbers DEF Elsewhere
<1>3. pos' \in Nat /\ pos < pos' /\ Border' = pos'
    BY <1>2 DEF Elsewhere, Border
<1>4. InFront'
  <2>1. interm'.unfinished => FALSE
      BY <1>1 DEF Elsewhere, Reader, InFront
  <2>2. parser'.state = "part_data_start" => pos' > 1 /\ body'[pos' - 1] = LF
      BY <1>2 DEF Elsewhere
  <2>. QED  BY <2>1, <2>2 DEF Elsewhere, InFront, RunAt
<1>5. Reader'
    BY <1>4 DEF Elsewhere, Reader
<1>6. NothingLost' /\ OneCandidate'
    BY DEF Elsewhere, NothingLost, OneCandidate
<1>7. Ledger'
  <2>1. /\ body' = body /\ parser'.boundary = parser.boundary /\ parts'.list = parts.list
      BY DEF Elsewhere
  <2>2. Border \in Int /\ Border' \in Int /\ Border <= Border'
      BY <1>2, <1>3
  <2>. QED  BY <1>1, <1>2, <1>3, <2>1, <2>2, LedgerKept
<1>. QED  BY <1>5, <1>6, <1>7

LEMMA InsideStep ==
    ASSUME Inv, NEW last \in BOOLEAN, InsideSteps(last),
           phase = "body", phase' \in {"body", "crashed"}
    PROVE  /\ Reader' /\ NothingLost' /\ OneCandidate' /\ Ledger'
           /\ body' = body /\ parts' = parts
<1>1. Reader /\ Ledger /\ NothingLost /\ OneCandidate
    BY InvReader DEF Inv, Reading
<1>2. Inside /\ Reader'
    BY <1>1, InsideReader
<1>3. NothingLost' /\ Len(Gathered)' = Len(Received) + 1 /\ OneCandidate'
    BY <1>1, <1>2, InsideKeepsBytes, OneCandidateStep
<1>4. /\ body' = body /\ parts' = parts /\ pos' = pos + 1 /\ parser # Null /\ pos \in Nat
      /\ parser'.boundary = parser.boundary /\ InContent'
      /\ Len(Received) \in Nat
    BY <1>1, <1>2, BodyNumbers, ReceivedStands DEF Inside
<1>5. Border = pos - Len(Received)
  <2>1. CASE InContent
      BY <2>1 DEF Border, Beginning, Received
  <2>2. CASE ~InContent
    <3>1. Len(Received) = 0
        BY <2>2 DEF Received
    <3>. QED  BY <1>1, <1>4, <2>2, <3>1, BodyNumbers
  <2>. QED  BY <2>1, <2>2
<1>6. Border' = pos - Len(Received)
  <2>1. Border' = pos' - Len(Gathered)'
      BY <1>4 DEF Border, Beginning
  <2>. QED  BY <1>3, <1>4, <2>1
<1>7. Border \in Int /\ Border' \in Int /\ Border <= Border' /\ pos' \in Nat /\ pos <= pos'
    BY <1>4, <1>5, <1>6
<1>8. Ledger'
    BY <1>1, <1>4, <1>7, LedgerKept
<1>. QED  BY <1>2, <1>3, <1>4, <1>8

LEMMA BodyByteStep ==
    ASSUME Inv, BodyByte
    PROVE  Inv'
<1>1. /\ phase = "body" /\ multi /\ ReadBody /\ phase' = AfterPart
      /\ UNCHANGED <<response, line, multi, raw, result>>
    BY DEF BodyByte
<1>2. Reader /\ Ledger /\ NothingLost /\ OneCandidate
    BY <1>1, InvReader DEF Inv, Reading
<1>3. phase' \in {"body", "crashed"}
    BY <1>1 DEF AfterPart
<1>4. Reader' /\ Ledger' /\ (phase' = "body" => NothingLost' /\ OneCandidate')
  <2>1. CASE Elsewhere
    <3>1. ReadingBody
      <4>1. Refuse => ReadingBody
          BY DEF Refuse, Unexpected, InName, At
      <4>2. ASSUME NEW last \in BOOLEAN, Accept(last) PROVE ReadingBody
          BY <4>2 DEF Accept, FirstBoundary, NameByte, NameEnd, HeadersEnd, HeadersDone,
             ValueSpace, ValueByte, ValueEnd, HeaderDone, FirstDataByte, DataByte,
             AlmostBoundary, NoBoundary, BoundaryByte, BoundaryEnd, AfterBoundary, NextPart,
             FinalHyphen, Epilogue, InName, InValue, At
      <4>. QED  BY <1>1, <4>1, <4>2 DEF ReadBody
    <3>. QED  BY <1>1, <1>3, <2>1, <3>1, ElsewhereStep
  <2>2. ASSUME NEW last \in BOOLEAN, InsideSteps(last)
        PROVE  Reader' /\ Ledger' /\ (phase' = "body" => NothingLost' /\ OneCandidate')
      BY <1>1, <1>3, <2>2, InsideStep
  <2>3. ASSUME NEW last \in BOOLEAN, BoundaryEnd(last)
        PROVE  Reader' /\ Ledger' /\ (phase' = "body" => NothingLost' /\ OneCandidate')
    <3>1. /\ Reader' /\ body' = body /\ pos' = pos + 1
          /\ InContent /\ ~InContent' /\ parser'.boundary = parser.boundary
          /\ parts' = WithContent(interm.content)
          /\ Delimits(Ending + 1) /\ Ending + Len(ContentEnd) < pos'
        BY <1>2, <2>3, BoundaryEndStep
    <3>2. pos' \in Nat /\ pos <= pos'
        BY <1>2, <3>1, BodyNumbers
    <3>3. Ledger'
        BY <1>1, <1>2, <3>1, <3>2, LedgerAdded
    <3>4. NothingLost' /\ OneCandidate'
        BY <3>1 DEF NothingLost, OneCandidate
    <3>. QED  BY <3>1, <3>3, <3>4
  <2>. QED  BY <1>1, <1>2, <2>1, <2>2, <2>3, ReadCases
<1>5. TypeOK'
  <2>1. MultipartTypeOK' /\ phase' \in Phase
      BY <1>3, <1>4 DEF Reader, Phase
  <2>. QED  BY <1>1, <2>1 DEF Inv, TypeOK
<1>6. Waiting' /\ Reading'
    BY <1>1, <1>3, <1>4 DEF Waiting, Reading
<1>. QED  BY <1>4, <1>5, <1>6 DEF Inv, Reader

\* What is held back at the end of the body is too short for a delimiter.
LEMMA NoRoomLeft ==
    ASSUME Reader, NothingLost, InContent, pos > Len(body)
    PROVE  Len(body) < Ending + Len(ContentEnd)
<1>1. /\ parser # Null /\ Len(ContentEnd) = Len(parser.boundary) + 2
      /\ Len(parser.boundary) \in Nat /\ parser.index \in Nat
    BY EndBytes, ParserKnown DEF InContent
<1>2. /\ pos = Len(body) + 1 /\ pos \in Nat /\ Len(body) \in Nat /\ mark = pos
    BY BodyNumbers DEF Reader, InFront, RunAt
<1>3. /\ Ending \in Nat /\ Len(interm.content) \in Nat
      /\ parser.state # "part_data" => Ending + Len(LookBehind) + 1 = pos
    BY GatheredStands
<1>4. PICK ending \in Nat, room \in Nat, index \in Nat :
        ending = Ending /\ room = Len(parser.boundary) /\ index = parser.index
    BY <1>1, <1>3
<1>5. CASE parser.state = "part_data"
  <2>1. Gathered = interm.content
    <3>1. Run(mark) = <<>>
        BY <1>2, SubSeqEmpty DEF Run
    <3>2. interm.content \in Text
        BY DEF Reader, MultipartTypeOK, Interm
    <3>. QED  BY <1>5, <3>1, <3>2, EmptyAdded DEF Gathered
  <2>2. Ending = pos - Len(interm.content) + Len(interm.content) - 1
      BY <2>1 DEF Ending, Beginning
  <2>3. ending = Len(body)
      BY <1>2, <1>3, <1>4, <2>2
  <2>4. Len(body) < ending + (room + 2)
      BY <1>2, <2>3
  <2>. QED  BY <1>1, <1>4, <2>4
<1>6. CASE parser.state # "part_data"
  <2>1. PICK behind \in Nat : behind = Len(LookBehind)
      BY LookBehindIsText DEF Text
  <2>2. behind = 1 \/ (behind = index + 2 /\ index < room)
      BY <1>4, <1>6, <2>1, LookBehindLength DEF InContent
  <2>3. ending + behind + 1 = pos
      BY <1>3, <1>4, <1>6, <2>1
  <2>4. Len(body) < ending + (room + 2)
      BY <1>2, <2>2, <2>3
  <2>. QED  BY <1>1, <1>4, <2>4
<1>. QED  BY <1>5, <1>6

\* At the end of the body an unfinished content becomes the last part.
LEMMA BodyReadStep ==
    ASSUME Inv, BodyRead
    PROVE  Inv'
<1>1. /\ phase = "body" /\ phase' \in {"answered", "crashed"} /\ Finished
      /\ UNCHANGED <<body, pos, mark, parser, response, line, multi, raw, result>>
    BY DEF BodyRead, AfterPart
<1>2. Reader /\ Ledger /\ NothingLost /\ OneCandidate
    BY <1>1, InvReader DEF Inv, Reading
<1>3. pos' \in Nat /\ pos <= pos'
    BY <1>1, <1>2, BodyNumbers
<1>4. CASE PartRead /\ parser # Null /\ interm.unfinished
  <2>1. InContent
      BY <1>2, <1>4 DEF Reader, InFront
  <2>2. /\ parts' = WithContent(interm.content) /\ parts' \in Parts
        /\ parts'.root <= Len(parts'.list) /\ interm' \in Interm /\ ~interm'.unfinished
      BY <1>2, <1>4, PartReadTypes
  <2>3. Ledger'
    <3>1. Len(body) < Ending + Len(ContentEnd)
        BY <1>1, <1>2, <2>1, NoRoomLeft DEF BodyRead
    <3>. QED  BY <1>1, <1>2, <1>3, <2>1, <2>2, <3>1, LedgerAdded
  <2>4. MultipartTypeOK'
      BY <1>1, <2>2 DEF Inv, TypeOK, MultipartTypeOK
  <2>5. TypeOK'
    <3>1. phase' \in Phase
        BY <1>1 DEF Phase
    <3>. QED  BY <1>1, <2>4, <3>1 DEF Inv, TypeOK
  <2>6. multi
      BY <1>4 DEF Inv, Waiting
  <2>7. Bounded' /\ InFront' /\ Waiting' /\ Reading'
      BY <1>1, <2>2, <2>6 DEF Inv, Bounded, InFront, RunAt, Waiting, Reading
  <2>. QED  BY <2>3, <2>5, <2>7 DEF Inv
<1>5. CASE UNCHANGED <<interm, parts>>
  <2>1. UNCHANGED <<multipartVars, response, line, multi, raw>>
      BY <1>1, <1>5 DEF multipartVars
  <2>2. phase' \in Phase /\ phase' \notin {"headers", "body"}
      BY <1>1 DEF Phase
  <2>3. result' \in [err : Err, data : TextOrNull]
      BY <1>1 DEF Inv, TypeOK
  <2>. QED  BY <2>1, <2>2, <2>3, Unmoved
<1>. QED  BY <1>1, <1>4, <1>5 DEF Finished

\* What a call returns is the outcome of a document and the content of a part.
LEMMA IncludedIsResult ==
    ASSUME Inv, NEW content
    PROVE  Included(content) \in [err : Err, data : TextOrNull]
<1>. DEFINE document == Document(content)
<1>1. document \in [err : Err, href : TextOrNull]
  <2>1. [err |-> "XML", href |-> Null] \in [err : Err, href : TextOrNull]
      BY DEF Err, TextOrNull
  <2>. QED  BY <2>1, DocumentsAssumption DEF Document
<1>. HIDE DEF document
<1>2. document.err \in Err /\ Null \in TextOrNull /\ {"ISDS", "ERROR", "SUCCESS"} \subseteq Err
    BY <1>1 DEF TextOrNull, Err
<1>3. Found(document.href) # {} =>
        parts.list[First(Found(document.href))].data \in TextOrNull
  <2>1. SUFFICES ASSUME Found(document.href) # {}
                 PROVE  parts.list[First(Found(document.href))].data \in TextOrNull
      OBVIOUS
  <2>2. parts.list \in Seq(Part)
      BY DEF Inv, TypeOK, MultipartTypeOK, Parts
  <2>3. Found(document.href) \in SUBSET (1 .. Len(parts.list))
      BY <2>2 DEF Found
  <2>4. First(Found(document.href)) \in 1 .. Len(parts.list)
      BY <2>1, <2>3, FirstFound
  <2>5. parts.list[First(Found(document.href))] \in Part
      BY <2>2, <2>4, ElementOfSeq
  <2>. QED  BY <2>5 DEF Part, TextOrNull
<1>4. Included(content) =
        IF document.err # "SUCCESS" THEN [err |-> document.err, data |-> Null]
        ELSE IF document.href = Null THEN [err |-> "ISDS", data |-> Null]
        ELSE IF Found(document.href) = {} THEN [err |-> "ERROR", data |-> Null]
        ELSE [err |-> "SUCCESS", data |-> parts.list[First(Found(document.href))].data]
    BY DEF Included, document
<1>. QED  BY <1>2, <1>3, <1>4

LEMMA AnswerResult ==
    ASSUME Inv, CodeRefused \/ PlainAnswer \/ MultipartAnswer \/ OtherAnswer
    PROVE  result' \in [err : Err, data : TextOrNull]
<1>1. \A err \in Err : [err |-> err, data |-> Null] \in [err : Err, data : TextOrNull]
    BY DEF TextOrNull
<1>2. {"HTTP", "NOT_LOGGED_IN", "SOAP"} \subseteq Err
    BY DEF Err
<1>3. CASE CodeRefused
  <2>1. PICK err \in Err : result' = [err |-> err, data |-> Null]
      BY <1>2, <1>3 DEF CodeRefused
  <2>. QED  BY <1>1, <2>1
<1>4. CASE PlainAnswer
    BY <1>4, IncludedIsResult DEF PlainAnswer
<1>5. CASE MultipartAnswer
    BY <1>1, <1>2, <1>5, IncludedIsResult DEF MultipartAnswer
<1>6. CASE OtherAnswer
    BY <1>1, <1>2, <1>6 DEF OtherAnswer
<1>. QED  BY <1>3, <1>4, <1>5, <1>6

LEMMA NextInv == Inv /\ [Next]_vars => Inv'
<1>. SUFFICES ASSUME Inv, [Next]_vars PROVE Inv'
    OBVIOUS
<1>1. result \in [err : Err, data : TextOrNull] /\ phase \in Phase
    BY DEF Inv, TypeOK
<1>2. CASE HeaderLine
    BY <1>2, HeaderLineStep
<1>3. CASE BodyByte
    BY <1>3, BodyByteStep
<1>4. CASE PlainBody
    BY <1>4, PlainBodyStep
<1>5. CASE BodyRead
    BY <1>5, BodyReadStep
<1>6. CASE HeadersRead
  <2>1. /\ UNCHANGED <<multipartVars, response, line, multi, raw>> /\ result' = result
        /\ phase = "headers" /\ phase' = "body" /\ phase' \in Phase
      BY <1>6 DEF HeadersRead, Phase
  <2>. QED  BY <1>1, <2>1, Unmoved
<1>7. CASE HeaderLineRefused \/ BodyWithoutBoundary \/ ConnectionLost
  <2>1. /\ UNCHANGED <<multipartVars, response, line, multi, raw>>
        /\ phase' = "done" /\ result' = [err |-> "NETWORK", data |-> Null]
      BY <1>7 DEF HeaderLineRefused, BodyWithoutBoundary, ConnectionLost, Fail
  <2>2. /\ [err |-> "NETWORK", data |-> Null] \in [err : Err, data : TextOrNull]
        /\ "done" \in Phase
      BY DEF Err, TextOrNull, Phase
  <2>. QED  BY <2>1, <2>2, Unmoved
<1>8. CASE CodeRefused \/ PlainAnswer \/ MultipartAnswer \/ OtherAnswer
  <2>1. /\ UNCHANGED <<multipartVars, response, line, multi, raw>>
        /\ phase' = "done" /\ "done" \in Phase
      BY <1>8 DEF CodeRefused, PlainAnswer, MultipartAnswer, OtherAnswer, Answered, Rest, Phase
  <2>. QED  BY <1>8, <2>1, AnswerResult, Unmoved
<1>9. CASE UNCHANGED vars
  <2>1. /\ UNCHANGED <<multipartVars, response, line, multi, raw>>
        /\ phase' = phase /\ result' = result
      BY <1>9 DEF vars
  <2>. QED  BY <1>1, <2>1, Unmoved
<1>. QED  BY <1>2, <1>3, <1>4, <1>5, <1>6, <1>7, <1>8, <1>9 DEF Next

-----------------------------------------------------------------------------
(***************************************************************************)
(* The theorems.                                                           *)
(***************************************************************************)

LEMMA InvHolds == Spec => []Inv
<1>. QED  BY InitInv, NextInv, PTL DEF Spec

\* Whatever a server sends and however CURL cuts it into chunks, the state of
\* the download has its types: the look behind of multipart_parser_execute()
\* stays within the room multipart_parser_init() makes for it, and the root
\* part is in the list.
THEOREM TypesKept == Spec => []TypeOK
<1>1. Inv => TypeOK
    BY DEF Inv
<1>. QED  BY <1>1, InvHolds, PTL

\* Wherever the chunks of a body end, what multipart_intermediate.c has gathered
\* of a content, what the parser holds back and the run not handed over are the
\* bytes received since the line end in front of the content, in their order.
THEOREM BytesKept == Spec => []NoByteLost
<1>1. Inv => NoByteLost
    BY DEF Inv, Reading, NoByteLost
<1>. QED  BY <1>1, InvHolds, PTL

\* For every body, well framed or not, and every cutting into chunks: with a
\* boundary that has no line end in it, the contents of the parts in the list
\* of multipart_parts.c are pieces of the body that stand in their order and do
\* not overlap.  Each begins behind a line end and goes up to the first delimiter
\* after it; only the last one may lack it, when fewer bytes than a delimiter has
\* stand between it and the end of the body.
THEOREM PartsDelimited == Spec => []ContentsDelimited
<1>1. Inv => ContentsDelimited
    BY DEF Inv, Ledger, ContentsDelimited
<1>. QED  BY <1>1, InvHolds, PTL

=============================================================================
