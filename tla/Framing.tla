------------------------------ MODULE Framing ------------------------------
(***************************************************************************)
(* How a server frames the parts of a multipart body (RFC 2046), and what  *)
(* it means by their headers.  It is the measure of the library's reader   *)
(* and shares nothing with it but the names of the headers that are kept.  *)
(***************************************************************************)
EXTENDS Multipart, FiniteSets

EOL == <<CR, LF>>

Delimiter(boundary) == <<HY, HY>> \o boundary

(***************************************************************************)
(* A part is a sequence of headers, each a name and a value, and a         *)
(* content.                                                                *)
(***************************************************************************)
SentHeader == [name : Seq(Letter \cup {HY}), value : Text]
SentPart == [headers : Seq(SentHeader), data : Text]

\* Pieces of a text, one behind another, and what stands behind the last of
\* them: the text from behind piece n on.
Links(pieces, end) ==
    LET count == Len(pieces)
        from[k \in 0 .. count] ==
            IF k = 0 THEN end ELSE pieces[count - k + 1] \o from[k - 1]
    IN  [n \in 0 .. count |-> from[count - n]]

HeaderText(h) == h.name \o (<<COLON, SP>> \o (h.value \o EOL))

\* A part from behind header n on.
PartFrom(part) ==
    Links([n \in DOMAIN part.headers |-> HeaderText(part.headers[n])], EOL \o part.data)

Piece(part, boundary) == EOL \o (PartFrom(part)[0] \o (EOL \o Delimiter(boundary)))

\* The body from behind part n on.
BodyFrom(sent, boundary) ==
    Links([n \in DOMAIN sent |-> Piece(sent[n], boundary)], <<HY, HY>>)

Encoded(sent, boundary) == Delimiter(boundary) \o BodyFrom(sent, boundary)[0]

\* What can be framed: there is a part, values are single lines without a blank in
\* front, and no content contains the delimiter, which is a single line itself.
Framable(sent, boundary) ==
    /\ sent # <<>>
    /\ \A i \in DOMAIN boundary : boundary[i] # CR
    /\ \A n \in DOMAIN sent :
         /\ \A h \in DOMAIN sent[n].headers :
              LET value == sent[n].headers[h].value
              IN  /\ \A i \in DOMAIN value : value[i] # CR
                  /\ value # <<>> => value[1] # SP
         /\ LET data == sent[n].data
                last == Len(EOL \o Delimiter(boundary)) - 1
            IN  \A k \in DOMAIN data :
                  k + last <= Len(data) =>
                      SubSeq(data, k, k + last) # EOL \o Delimiter(boundary)

(***************************************************************************)
(* What a header is worth: its value if it came once.  Parts are known by  *)
(* their identifiers; one without an identifier is out of reach.           *)
(***************************************************************************)
Values(part, f) ==
    {n \in DOMAIN part.headers : Lower(part.headers[n].name) = FieldName[f]}

Worth(part, f) ==
    IF \E n \in Values(part, f) : Values(part, f) = {n}
    THEN part.headers[CHOOSE n \in Values(part, f) : TRUE].value
    ELSE Null

Meant(part) == [id |-> Worth(part, "id"), type |-> Worth(part, "type"),
                encoding |-> Worth(part, "encoding"), data |-> part.data]

Identified(sent) == {n \in DOMAIN sent : Worth(sent[n], "id") \notin {Null, <<>>}}

\* The parts with an identifier.
Bearing(sent, id) == {n \in Identified(sent) : Worth(sent[n], "id") = id}

Earliest(places) == CHOOSE n \in places : \A k \in places : n <= k

\* Which of the parts with an identifier it is.
Rank(sent, n) == Cardinality({k \in Identified(sent) : k <= n})

=============================================================================
