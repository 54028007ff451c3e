---------------------------- MODULE AuthHeaders ----------------------------
(***************************************************************************)
(* The headers in which the authentication services explain themselves:    *)
(* write_header(), which CURL calls with one line of a response head after *)
(* another, and what http() and _isds_soap() make of them.                 *)
(*                                                                         *)
(* A call of _isds_soap() makes one exchange or, after a redirect, more of *)
(* them, and within an exchange CURL hands over every head it reads: one   *)
(* of a proxy or an interim one may come before the final one.             *)
(***************************************************************************)
EXTENDS Naturals, Sequences, SequencesExt

CONSTANTS
    Calls,      \* the calls the server may answer: sequences of exchanges,
                \* which are sequences of heads, which are sequences of lines
    Word,       \* plain words of header values
    Encoded,    \* encoded words
    Resolution, \* function from message codes to OTP resolutions
    Null

Space == "SP"
White == {Space, "TAB", "EOL"}

Header == {"WWW-Authenticate", "X-Response-message-code", "X-Response-message-text"}

(***************************************************************************)
(* A line starts a header, goes on with the one before it, or ends the     *)
(* head.  Texts are sequences of words and white space; a decoded text has *)
(* the words and single spaces only.                                       *)
(***************************************************************************)
Token == Word \cup Encoded \cup White
Text == Seq(Token)

HeadLine == [kind : {"header"}, name : STRING, text : Text]
            \cup [kind : {"continuation"}, text : Text] \cup [kind : {"separator"}]

Pending == [name : STRING, text : Text]

ASSUME NullAssumption == Null \notin Text \cup Pending
ASSUME TokensAssumption == (Word \cup Encoded) \cap White = {}
ASSUME ResolutionAssumption == DOMAIN Resolution \subseteq Text

\* A head is what CURL reads up to an empty line ("Chunked encoding trailer is not
\* supported", write_header()), and an exchange with an answer has one.
ASSUME CallsAssumption ==
    \A c \in Calls :
        /\ c \in Seq(Seq(Seq(HeadLine)))
        /\ \A e \in DOMAIN c :
             /\ c[e] # <<>>
             /\ \A i \in DOMAIN c[e] :
                  /\ c[e][i] # <<>>
                  /\ \A n \in DOMAIN c[e][i] :
                       c[e][i][n].kind = "separator" <=> n = Len(c[e][i])

VARIABLES
    call,       \* the exchanges of the call
    exchange,   \* the one being made
    head,       \* the head being received
    line,       \* lines of it received
    headers,    \* struct auth_headers
    otp         \* the resolution told to the application

vars == <<call, exchange, head, line, headers, otp>>

Fields == [method : Text \cup {Null}, code : Text \cup {Null}, message : Text \cup {Null}]

\* Mutant: the code is not freed.
Freed_KeepsCode(h) == [h EXCEPT !.last = Null, !.method = Null, !.message = Null]

\* auth_headers_free(); is_complete and resolution stay as they are.
Freed(h) == [h EXCEPT !.last = Null, !.method = Null, !.code = Null, !.message = Null]

NoHeaders == [complete |-> FALSE, last |-> Null, method |-> Null, code |-> Null,
              message |-> Null, resolution |-> "SUCCESS"]

Init ==
    /\ call \in Calls
    /\ exchange = 1 /\ head = 1 /\ line = 0
    /\ headers = NoHeaders
    /\ otp = Null

-----------------------------------------------------------------------------
(***************************************************************************)
(* decode_header_value(): white space at the ends and between two encoded  *)
(* words goes, elsewhere it becomes one space.                             *)
(***************************************************************************)
\* Mutant: white space between encoded words is kept.
Gap_Always(d, t) == IF d.white /\ d.text # <<>> THEN <<Space>> ELSE <<>>

Gap(d, t) ==
    IF d.white /\ d.text # <<>> /\ ~(d.encoded /\ t \in Encoded) THEN <<Space>> ELSE <<>>

NothingDecoded == [text |-> <<>>, white |-> FALSE, encoded |-> FALSE]

DecodeToken(d, t) ==
    IF t \in White THEN [d EXCEPT !.white = TRUE]
    ELSE [text |-> d.text \o Gap(d, t) \o <<t>>, white |-> FALSE, encoded |-> t \in Encoded]

Decoded(text) ==
    LET done[k \in 0 .. Len(text)] ==
            IF k = 0 THEN NothingDecoded ELSE DecodeToken(done[k - 1], text[k])
    IN  done[Len(text)].text

-----------------------------------------------------------------------------
(***************************************************************************)
(* write_header().                                                         *)
(***************************************************************************)
Heads == call[exchange]
Line == Heads[head][line + 1]

Receive == exchange <= Len(call) /\ head <= Len(Heads) /\ line < Len(Heads[head])

\* Once a head is complete every line takes what was decoded away.
Current == IF headers.complete THEN Freed(headers) ELSE headers

\* The header before this line is decoded when the line shows that it is all.
DecodedLast(h) ==
    LET value == Decoded(h.last.text)
    IN  IF h.last = Null THEN h
        ELSE IF h.last.name = "WWW-Authenticate" THEN [h EXCEPT !.method = value]
        ELSE IF h.last.name = "X-Response-message-code" THEN [h EXCEPT !.code = value]
        ELSE IF h.last.name = "X-Response-message-text" THEN [h EXCEPT !.message = value]
        ELSE h

Took(h) == headers' = h /\ line' = line + 1 /\ UNCHANGED <<call, exchange, head, otp>>

Continuation ==
    /\ Receive
    /\ Line.kind = "continuation"
    /\ Took(IF Current.last = Null THEN Current
            ELSE [Current EXCEPT !.last.text = @ \o Line.text])

NewHeader ==
    /\ Receive
    /\ Line.kind = "header"
    /\ Took([DecodedLast(Current) EXCEPT !.last = [name |-> Line.name, text |-> Line.text]])

Separator ==
    /\ Receive
    /\ Line.kind = "separator"
    /\ Took([DecodedLast(Current) EXCEPT !.last = Null, !.complete = TRUE])

-----------------------------------------------------------------------------
(***************************************************************************)
(* http() and _isds_soap().                                                *)
(***************************************************************************)
HeadRead == exchange <= Len(call) /\ head <= Len(Heads) /\ line = Len(Heads[head])

NextHead ==
    /\ HeadRead
    /\ head < Len(Heads)
    /\ head' = head + 1
    /\ line' = 0
    /\ UNCHANGED <<call, exchange, headers, otp>>

\* Mutant: an unknown code is taken for success.
ResolutionOf_Open(code) == IF code \in DOMAIN Resolution THEN Resolution[code] ELSE "OK"

\* string2isds_otp_resolution()
ResolutionOf(code) == IF code \in DOMAIN Resolution THEN Resolution[code] ELSE "UNKNOWN"

\* The end of an exchange; the redirect, if one follows, frees the headers.
Answered ==
    /\ HeadRead
    /\ head = Len(Heads)
    /\ LET resolution == IF headers.complete THEN ResolutionOf(headers.code)
                                             ELSE headers.resolution
       IN  /\ otp' = resolution
           /\ headers' = Freed([headers EXCEPT !.resolution = resolution])
    /\ exchange' = exchange + 1
    /\ head' = 1
    /\ line' = 0
    /\ UNCHANGED call

Next == Continuation \/ NewHeader \/ Separator \/ NextHead \/ Answered

Spec == Init /\ [][Next]_vars

-----------------------------------------------------------------------------
(***************************************************************************)
(* Properties.                                                             *)
(***************************************************************************)

\* The types of the reader of response heads.
TypeOK ==
    /\ call \in Calls
    /\ exchange \in 1 .. (Len(call) + 1)
    /\ headers.complete \in BOOLEAN
    /\ headers.last = Null \/ headers.last \in Pending
    /\ [method |-> headers.method, code |-> headers.code, message |-> headers.message] \in Fields
    /\ headers.resolution \in {"SUCCESS", "UNKNOWN"} \cup {Resolution[c] : c \in DOMAIN Resolution}

\* What a head says in the header of a name: the last one, with the lines
\* that continue it.
Starts(h, name) == {n \in DOMAIN h : h[n].kind = "header" /\ h[n].name = name}

Continued(h, n) ==
    {k \in n .. Len(h) : \A j \in (n + 1) .. k : h[j].kind = "continuation"}

\* The words of a text as RFC 2047 wants them shown: one space where white
\* space separates two of them, unless both are encoded.
Words(text) == {k \in DOMAIN text : text[k] \notin White}

\* The place of the last word in front of place k, 0 if there is none.
WordBefore(text, k) ==
    LET before == {j \in Words(text) : j < k}
    IN  IF before = {} THEN 0 ELSE CHOOSE j \in before : \A i \in before : i <= j

Apart(text, k) ==
    LET j == WordBefore(text, k)
    IN  j # 0 /\ j < k - 1 /\ ~(text[j] \in Encoded /\ text[k] \in Encoded)

Shown(text) ==
    FlattenSeq([k \in DOMAIN text |->
                  IF k \notin Words(text) THEN <<>>
                  ELSE IF Apart(text, k) THEN <<Space, text[k]>> ELSE <<text[k]>>])

Said(h, name) ==
    IF Starts(h, name) = {} THEN Null
    ELSE LET n == CHOOSE k \in Starts(h, name) : \A j \in Starts(h, name) : j <= k
         IN  Shown(FlattenSeq([k \in DOMAIN h |->
                IF k \in Continued(h, n) THEN h[k].text ELSE <<>>]))

\* The first head of a call is decoded as it was sent, however its headers
\* are folded and encoded, and the application is told what its code means.
FirstHeadDecoded ==
    /\ exchange = 1 /\ head = 1 /\ HeadRead =>
        /\ headers.complete
        /\ headers.method = Said(call[1][1], "WWW-Authenticate")
        /\ headers.code = Said(call[1][1], "X-Response-message-code")
        /\ headers.message = Said(call[1][1], "X-Response-message-text")
    /\ exchange = 2 /\ Len(call[1]) = 1 =>
        otp = ResolutionOf(Said(call[1][1], "X-Response-message-code"))

\* A code of an earlier head never passes for one of a later: what is told
\* after an exchange is what its last head says, or that nothing is known.
NoStaleResolution ==
    exchange > 1 =>
        LET heads == call[exchange - 1]
        IN  otp \in {"UNKNOWN", ResolutionOf(Said(heads[Len(heads)], "X-Response-message-code"))}

=============================================================================
