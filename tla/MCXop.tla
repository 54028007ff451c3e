------------------------------- MODULE MCXop -------------------------------
(***************************************************************************)
(* Responses of a server for XopDownload.                                  *)
(***************************************************************************)
EXTENDS XopDownload

CONSTANTS MaxContent    \* length of the documents made of all byte strings

MCFieldName == [id |-> <<"c", "i">>, type |-> <<"c", "t">>, encoding |-> <<"c", "e">>]
MCLetter == {"b", "c", "C", "e", "i", "t", "x"}
MCLowerCase == [C |-> "c"]
MCByte == {CR, LF, SP, HY, COLON, "<", ">", "1", "2", "r", Semicolon, Quote,
           Start, Boundary, "m"} \cup MCLetter
MCMultipartRelated == <<"m", "r">>
MCSoapType == <<"x", "m">>

Bound == <<"b", HY>>
RootId == <<"<", "1", ">">>
FileId == <<"<", "2", ">">>

\* The SOAP reply to a download, one without the document, a refusal.
Reply == <<"r">>
Bare == <<"r", "1">>
Refusal == <<"r", "2">>
MCDocuments ==
    [d \in {Reply, Bare, Refusal} |->
        CASE d = Reply -> [err |-> "SUCCESS", href |-> FileId]
          [] d = Bare -> [err |-> "SUCCESS", href |-> Null]
          [] OTHER -> [err |-> "ISDS", href |-> Null]]

-----------------------------------------------------------------------------
(***************************************************************************)
(* Contents: every short sequence of the bytes boundaries are made of, and *)
(* longer ones that come close to a boundary.                              *)
(***************************************************************************)
Near == {Delimiter(Bound), EOL \o <<HY, HY>>, EOL \o <<HY, HY, "b">>,
         EOL \o EOL \o <<HY, HY, "b", "x">>, <<CR>> \o EOL \o <<HY>>,
         EOL \o <<HY, HY, "b", CR>>, EOL \o <<HY, CR, LF, HY, HY, "b">>,
         <<"x">> \o EOL \o <<HY, HY, "b", "b", HY>>}

Contents == BoundedSeq({CR, LF, HY, "b"}, MaxContent) \cup Near

H(name, value) == [name |-> name, value |-> value]

Root(data) == [headers |-> <<H(<<"c", "t">>, <<"x">>), H(<<"c", "i">>, RootId)>>, data |-> data]
File(data) == [headers |-> <<H(<<"C", "i">>, FileId), H(<<"c", "e">>, <<"b">>)>>, data |-> data]
TwiceNamed == [headers |-> <<H(<<"c", "i">>, FileId), H(<<"c", "i">>, RootId)>>, data |-> <<"x">>]
Nameless == [headers |-> <<H(<<"x">>, <<>>)>>, data |-> EOL]
Headerless == [headers |-> <<>>, data |-> <<>>]
TwiceTyped == [headers |-> <<H(<<"c", "t">>, <<>>), H(<<"c", "t">>, <<"x">>),
                             H(<<"c", "i">>, FileId)>>, data |-> <<HY>>]

\* The header as the server sends it: the parameters that matter are not last.
TypeLine ==
    MultipartRelated \o <<Semicolon, SP, Start, Quote>> \o RootId \o
    <<Quote, Semicolon, Boundary, Quote>> \o Bound \o <<Quote, SP, Semicolon, "x">>

Response(lines, code, text, sent, err, data) ==
    [lines |-> lines, code |-> code, body |-> text, sent |-> sent,
     root |-> RootId, boundary |-> Bound, framed |-> TRUE, whole |-> TRUE,
     meant |-> [err |-> err, data |-> data]]

Whole(sent, err, data) == Response(<<TypeLine>>, 200, Encoded(sent, Bound), sent, err, data)

Downloads == {Whole(<<Root(Reply), File(d)>>, "SUCCESS", d) : d \in Contents}

OddOnes ==
    { Whole(<<File(EOL), Nameless, Root(Reply), Headerless>>, "SUCCESS", EOL),
      Whole(<<Root(Reply), TwiceTyped, File(<<"x">>)>>, "SUCCESS", <<HY>>),
      Whole(<<Root(Reply), TwiceNamed>>, "ERROR", Null),
      Whole(<<Root(Reply), Root(Refusal), File(<<>>)>>, "SUCCESS", <<>>),
      Whole(<<Root(Refusal)>>, "ISDS", Null),
      Whole(<<Root(Bare), File(<<"x">>)>>, "ISDS", Null),
      Whole(<<Root(<<"x">>)>>, "XML", Null),
      Whole(<<File(<<"x">>)>>, "HTTP", Null),
      Response(<<TypeLine>>, 401, Encoded(<<Root(Reply)>>, Bound), <<Root(Reply)>>,
               "NOT_LOGGED_IN", Null),
      Response(<<SoapType \o <<Semicolon, "x">> >>, 400, Refusal, <<>>, "ISDS", Null),
      Response(<<>>, 200, Reply, <<>>, "ERROR", Null),
      Response(<< <<"b", "i", "x">> >>, 200, Reply, <<>>, "SOAP", Null),
      Response(<<SoapType>>, 404, <<>>, <<>>, "HTTP", Null) }

WholeResponses == Downloads \cup OddOnes

-----------------------------------------------------------------------------
(***************************************************************************)
(* Responses that are not framed as they should be: broken off, with text  *)
(* before the first boundary, without a boundary, announced twice.         *)
(***************************************************************************)
Broken(lines, text, sent) ==
    [Response(lines, 200, text, sent, "ERROR", Null) EXCEPT !.framed = FALSE, !.whole = FALSE]

Sent == <<Root(Reply), File(EOL \o <<HY, HY, "b", "x">>)>>

Truncated ==
    {[Broken(<<TypeLine>>, SubSeq(Encoded(Sent, Bound), 1, n), Sent) EXCEPT !.framed = TRUE] :
        n \in 0 .. Len(Encoded(Sent, Bound))}

Strange ==
    { Broken(<<TypeLine>>, EOL \o Encoded(Sent, Bound), Sent),
      Broken(<<TypeLine>>, <<"x">> \o EOL \o Encoded(Sent, Bound), Sent),
      Broken(<<TypeLine>>, Encoded(Sent, Bound) \o EOL \o Encoded(Sent, Bound), Sent),
      Broken(<<TypeLine>>, Encoded(<<[headers |-> <<H(<<"c", "1">>, <<"x">>)>>, data |-> <<>>]>> \o Sent, Bound), Sent),
      Broken(<<TypeLine>>, Encoded(Sent, Bound) \o <<"x">>, Sent),
      Broken(<<TypeLine, TypeLine>>, Encoded(Sent, Bound), Sent),
      Broken(<<TypeLine, SoapType>>, Encoded(Sent, Bound), Sent),
      Broken(<<MultipartRelated>>, Encoded(Sent, Bound), Sent),
      Broken(<<MultipartRelated \o <<Semicolon, "x">> >>, Encoded(Sent, Bound), Sent) }

BrokenResponses == Truncated \cup Strange

MCResponses == WholeResponses \cup BrokenResponses

-----------------------------------------------------------------------------
(***************************************************************************)
(* Responses that are framed well and announced in another way RFC 2387    *)
(* allows: the boundary as the last parameter, no start parameter.         *)
(***************************************************************************)
Otherwise(header) ==
    {Broken(<<header>>, Encoded(<<Root(Reply), File(<<"x">>)>>, Bound), <<>>)}

BoundaryLast ==
    Otherwise(MultipartRelated \o <<Semicolon, Start, Quote>> \o RootId \o
              <<Quote, Semicolon, Boundary, Quote>> \o Bound \o <<Quote>>)

WithoutStart ==
    Otherwise(MultipartRelated \o <<Semicolon, Boundary>> \o Bound \o <<Semicolon, "x">>)

=============================================================================
