---------------------------- MODULE XopDownload ----------------------------
(***************************************************************************)
(* The download of an attachment with MTOM/XOP,                            *)
(* isds_DownloadAttachment_mtomxop(): http() reads the response through    *)
(* write_multipart_header() and write_multipart_body(), _isds_soap_vodz()  *)
(* finds the SOAP reply in it and extract_dmFile() the part the reply      *)
(* refers to.                                                              *)
(***************************************************************************)
EXTENDS Framing, HeaderValue

CONSTANTS
    Responses,          \* the responses the server may give
    Documents,          \* function from the XML documents to what they say
    MultipartRelated,   \* the MIME type of a multipart response
    SoapType            \* that of a plain one

\* A parsed document is one of the outcomes the library knows.
Err == {"SUCCESS", "NETWORK", "HTTP", "NOT_LOGGED_IN", "XML", "SOAP", "ISDS", "ERROR"}

ASSUME ResponsesAssumption ==
    \A r \in Responses : r.lines \in Seq(Text) /\ r.body \in Text
ASSUME DocumentsAssumption ==
    \A d \in DOMAIN Documents : Documents[d] \in [err : Err, href : TextOrNull]

(***************************************************************************)
(* A response is the sequence of its Content-Type header values, its code  *)
(* and its body.  The rest is what the server meant by it: the parts it    *)
(* sent, the boundary between them, the identifier of the root part, and   *)
(* whether they are framed as they should be and all there.                *)
(*                                                                         *)
(* A document, once parsed, is a reply with the identifier of the part it  *)
(* includes, or an error: a fault, a status other than success.            *)
(***************************************************************************)
Start == "start="
Boundary == "boundary="

\* The MIME type CURL gives is that of the last Content-Type header.
TypeOf(lines) == IF lines = <<>> THEN <<>> ELSE FirstValue(lines[Len(lines)])

IsMultipart(text) == StartOf(FirstValue(text \o <<CR, LF>>), MultipartRelated)

\* Announced as the library understands it: see the findings for ways in which
\* it does not.
Announced(r) ==
    /\ Len(r.lines) = 1
    /\ IsMultipart(r.lines[1]) /\ TypeOf(r.lines) = MultipartRelated
    /\ AssignedValue(r.lines[1] \o <<CR, LF>>, Start) = r.root /\ r.root # <<>>
    /\ AssignedValue(r.lines[1] \o <<CR, LF>>, Boundary) = r.boundary /\ r.boundary # <<>>

\* A framed body may break off, a whole one does not.
FramedAsSent(r) ==
    /\ r.sent \in Seq(SentPart) /\ r.boundary \in Text
    /\ Framable(r.sent, r.boundary)
    /\ LET text == Encoded(r.sent, r.boundary)
       IN  IF r.whole THEN r.body = text
                      ELSE \E n \in 0 .. Len(text) : r.body = SubSeq(text, 1, n)

ASSUME FramingAssumption ==
    \A r \in Responses :
        /\ r.whole => r.framed
        /\ r.framed =>
             \/ /\ r.sent = <<>> /\ TypeOf(r.lines) # MultipartRelated
                /\ \A n \in DOMAIN r.lines : ~IsMultipart(r.lines[n])
             \/ Announced(r) /\ FramedAsSent(r)

\* What the server means by a whole response: an error, or the document in the
\* first part with the identifier the reply in the root part includes.
Failure(err) == [err |-> err, data |-> Null]

Replied(sent, content) ==
    IF content \notin DOMAIN Documents THEN Failure("XML")
    ELSE LET document == Documents[content]
             included == Bearing(sent, document.href)
         IN  IF document.err # "SUCCESS" THEN Failure(document.err)
             ELSE IF document.href = Null THEN Failure("ISDS")
             ELSE IF included = {} THEN Failure("ERROR")
             ELSE [err |-> "SUCCESS", data |-> sent[Earliest(included)].data]

Outcome(r) ==
    LET roots == Bearing(r.sent, r.root)
    IN  IF r.code \in {401, 403} THEN Failure("NOT_LOGGED_IN")
        ELSE IF r.code \in {302, 404} THEN Failure("HTTP")
        ELSE IF r.sent # <<>> THEN IF roots = {} THEN Failure("HTTP")
                                   ELSE Replied(r.sent, r.sent[Earliest(roots)].data)
        ELSE IF TypeOf(r.lines) \in {<<>>, SoapType} THEN Replied(r.sent, r.body)
        ELSE Failure("SOAP")

ASSUME TypesAssumption == MultipartRelated \notin {<<>>, SoapType}
ASSUME MeaningAssumption == \A r \in Responses : r.whole => r.meant = Outcome(r)

VARIABLES
    response,   \* the response being received
    line,       \* number of header lines received
    multi,      \* accepted_data.is_multipart
    raw,        \* accepted_data.raw_monolitic
    phase,
    result      \* what the call returns

vars == <<multipartVars, response, line, multi, raw, phase, result>>

Phase == {"headers", "body", "answered", "done", "crashed"}

NoResult == [err |-> "ERROR", data |-> Null]

Init ==
    /\ response \in Responses
    /\ body = response.body
    /\ pos = 1 /\ mark = 1
    /\ parser = Null
    /\ interm = NewInterm
    /\ parts = NewParts
    /\ line = 0
    /\ multi = FALSE
    /\ raw = <<>>
    /\ phase = "headers"
    /\ result = NoResult

-----------------------------------------------------------------------------
(***************************************************************************)
(* write_multipart_header(): a second start or boundary is refused, which  *)
(* makes CURL give up.  CURL passes the line with its end.                 *)
(***************************************************************************)
Line == response.lines[line + 1] \o <<CR, LF>>

LineStart == AssignedValue(Line, Start)
LineBoundary == AssignedValue(Line, Boundary)

LineRefused ==
    \/ LineStart # <<>> /\ parts.expected # Null
    \/ LineBoundary # <<>> /\ parser # Null

Fail(err) ==
    /\ phase' = "done"
    /\ result' = [err |-> err, data |-> Null]

\* Any error of http() other than an abort closes the connection; parts and
\* parser are freed by _isds_soap_vodz().
HeaderLine ==
    /\ phase = "headers"
    /\ line < Len(response.lines)
    /\ ~LineRefused
    /\ line' = line + 1
    /\ multi' = (multi \/ StartOf(FirstValue(Line), MultipartRelated))
    /\ parts' = [parts EXCEPT !.expected = IF LineStart = <<>> THEN @ ELSE LineStart]
    /\ parser' = IF LineBoundary = <<>> THEN parser ELSE NewParser(LineBoundary)
    /\ UNCHANGED <<body, pos, mark, interm, response, raw, phase, result>>

HeaderLineRefused ==
    /\ phase = "headers"
    /\ line < Len(response.lines)
    /\ LineRefused
    /\ Fail("NETWORK")
    /\ UNCHANGED <<multipartVars, response, line, multi, raw>>

HeadersRead ==
    /\ phase = "headers"
    /\ line = Len(response.lines)
    /\ phase' = "body"
    /\ UNCHANGED <<multipartVars, response, line, multi, raw, result>>

-----------------------------------------------------------------------------
(***************************************************************************)
(* write_multipart_body() and multipart_intermediate_finish().             *)
(***************************************************************************)
\* The identifier of a part is compared with the expected one, which without
\* a start parameter is a NULL pointer.
AfterPart == IF parts.expected = Null /\ Len(parts'.list) > Len(parts.list)
             THEN "crashed" ELSE phase

BodyByte ==
    /\ phase = "body"
    /\ multi
    /\ ReadBody
    /\ phase' = AfterPart
    /\ UNCHANGED <<response, line, multi, raw, result>>

BodyWithoutBoundary ==
    /\ phase = "body"
    /\ multi /\ parser = Null /\ body # <<>>
    /\ Fail("NETWORK")
    /\ UNCHANGED <<multipartVars, response, line, multi, raw>>

PlainBody ==
    /\ phase = "body"
    /\ ~multi /\ pos <= Len(body)
    /\ raw' = body
    /\ pos' = Len(body) + 1
    /\ mark' = pos'
    /\ UNCHANGED <<body, parser, interm, parts, response, line, multi, phase, result>>

BodyRead ==
    /\ phase = "body"
    /\ pos > Len(body)
    /\ Finished
    /\ phase' = IF AfterPart = "crashed" THEN "crashed" ELSE "answered"
    /\ UNCHANGED <<body, pos, mark, parser, response, line, multi, raw, result>>

ConnectionLost ==
    /\ phase \in {"headers", "body"}
    /\ Fail("NETWORK")
    /\ UNCHANGED <<multipartVars, response, line, multi, raw>>

-----------------------------------------------------------------------------
(***************************************************************************)
(* What _isds_soap_vodz() and isds_DownloadAttachment_mtomxop() make of a  *)
(* response.                                                               *)
(***************************************************************************)
MimeType == TypeOf(response.lines)

Refused == response.code \in {302, 401, 403, 404}

\* process_http_response(), isds_response_status() and the search for dmFile.
Document(content) ==
    IF content \in DOMAIN Documents THEN Documents[content]
                                    ELSE [err |-> "XML", href |-> Null]

\* multipart_parts_find_part(): the first part of the identifier.
Found(id) == {n \in DOMAIN parts.list : parts.list[n].id = id}

\* Mutant: the last part of the identifier.
First_Last(places) == CHOOSE n \in places : \A k \in places : n >= k

First(places) == CHOOSE n \in places : \A k \in places : n <= k

\* extract_dmFile(): the reply has to include a part that is in the list.
Included(content) ==
    LET document == Document(content)
    IN  IF document.err # "SUCCESS" THEN [err |-> document.err, data |-> Null]
        ELSE IF document.href = Null THEN [err |-> "ISDS", data |-> Null]
        ELSE IF Found(document.href) = {} THEN [err |-> "ERROR", data |-> Null]
        ELSE [err |-> "SUCCESS", data |-> parts.list[First(Found(document.href))].data]

Answered == phase = "answered" /\ phase' = "done"

Rest == UNCHANGED <<multipartVars, response, line, multi, raw>>

CodeRefused ==
    /\ Answered
    /\ Refused
    /\ result' = [err |-> IF response.code \in {401, 403} THEN "NOT_LOGGED_IN" ELSE "HTTP",
                  data |-> Null]
    /\ Rest

PlainAnswer ==
    /\ Answered
    /\ ~Refused
    /\ MimeType \in {<<>>, SoapType}
    /\ result' = Included(raw)
    /\ Rest

\* Without a root part there is nothing to read the reply from.
MultipartAnswer ==
    /\ Answered
    /\ ~Refused
    /\ MimeType = MultipartRelated
    /\ result' = IF parts.root = 0 THEN [err |-> "HTTP", data |-> Null]
                 ELSE Included(parts.list[parts.root].data)
    /\ Rest

OtherAnswer ==
    /\ Answered
    /\ ~Refused
    /\ MimeType \notin {<<>>, SoapType, MultipartRelated}
    /\ result' = [err |-> "SOAP", data |-> Null]
    /\ Rest

Next ==
    \/ HeaderLine \/ HeaderLineRefused \/ HeadersRead
    \/ BodyByte \/ BodyWithoutBoundary \/ PlainBody \/ BodyRead
    \/ ConnectionLost
    \/ CodeRefused \/ PlainAnswer \/ MultipartAnswer \/ OtherAnswer

Spec == Init /\ [][Next]_vars

-----------------------------------------------------------------------------
(***************************************************************************)
(* Properties.                                                             *)
(***************************************************************************)

\* The types of the state of http() and _isds_soap_vodz() during a download.
TypeOK ==
    /\ MultipartTypeOK
    /\ response \in Responses
    /\ line \in 0 .. Len(response.lines)
    /\ multi \in BOOLEAN
    /\ raw \in Text
    /\ phase \in Phase
    /\ result \in [err : Err, data : TextOrNull]

Plain(part) == [id |-> part.id, type |-> part.type,
                encoding |-> part.encoding, data |-> part.data]

\* Wherever the chunks of a body end, no byte of a content is lost, doubled or
\* moved between the blank line in front of it and the byte being read.
NoByteLost == phase = "body" => NothingLost

\* However a complete multipart response is cut into chunks, the parts found
\* are those sent, in their order, with their headers, and the root part is
\* the first of them with the announced identifier.
PartsArrive ==
    phase = "answered" /\ response.whole =>
        LET sent == response.sent
            roots == Bearing(sent, response.root)
        IN  /\ Len(parts.list) = Cardinality(Identified(sent))
            /\ \A n \in Identified(sent) : Plain(parts.list[Rank(sent, n)]) = Meant(sent[n])
            /\ parts.root = IF roots = {} THEN 0 ELSE Rank(sent, Earliest(roots))

\* A download ends the way the server meant it to, with the document it sent
\* or with its error, or it is lost on the network.
DownloadedAsSent ==
    phase = "done" /\ response.whole =>
        result \in {response.meant, [err |-> "NETWORK", data |-> Null]}

\* Of a response that breaks off, wherever it does, no part has anything but
\* the beginning of what the server sent under its identifier.
NothingInvented ==
    response.framed => \A n \in DOMAIN parts.list :
        \E k \in DOMAIN response.sent :
            LET received == parts.list[n].data
                data == response.sent[k].data
            IN  /\ parts.list[n].id = Worth(response.sent[k], "id")
                /\ Len(received) <= Len(data)
                /\ received = SubSeq(data, 1, Len(received))

=============================================================================
