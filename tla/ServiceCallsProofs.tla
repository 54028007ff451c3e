------------------------- MODULE ServiceCallsProofs -------------------------
(***************************************************************************)
(* The properties of ServiceCalls for every table of functions, and what   *)
(* follows from them for the table of the library.                         *)
(***************************************************************************)
EXTENDS MCServices, TLAPS

\* What is known of the result at each stage of a call.
ResultSoFar ==
  /\ call.pc = "request" =>
       call.err = Success /\ call.fault = Success /\ call.code = NoAnswer /\ ~call.response
  /\ call.pc = "extract" /\ call.response =>
       /\ call.fault = Success
       /\ \/ call.err = Success /\ call.code = "0000"
          \/ call.err \in Accepted(Row) /\ call.code \in Row.goesOn
  /\ call.pc = "extract" /\ ~call.response => ~Row.checked /\ call.fault # Success
  /\ call.pc \in {"leave", "returned"} =>
       /\ call.err = Success => call.code = "0000" /\ call.fault = Success
       /\ Row.checked => \/ call.err = call.fault
                         \/ call.fault = Success /\ call.err \in Accepted(Row)

StatusSoFar ==
  call.pc # "idle" /\ Row.builds = "code" /\ ~Row.loads =>
    status = IF Answer THEN Status(call.code) ELSE NoStatus

RefSoFar ==
  call.pc # "idle" =>
    /\ Row.refs /\ Answer => ref # "earlier"
    /\ ref = "this" => Row.refs /\ Answer /\ call.code # Missing

Kept(r) == r.resets = "never" => r.reads = "data"

OutputSoFar ==
  /\ call.pc \in {"request", "extract"} =>
       /\ out \in {"none", "earlier"}
       /\ Row.resets = "early" => out = "none"
  /\ call.pc \in {"leave", "returned"} /\ call.err \in {Success} \cup Accepted(Row)
       /\ Row.reads \notin {"nothing", "verdict"} /\ Kept(Row) => out \in {"none", "this"}

(***************************************************************************)
(* Facts about the operators                                               *)
(***************************************************************************)

Failures == {"IE_INVAL", "IE_ISDS", "IE_ERROR", "IE_NOTEQUAL"}

\* The row of the function under way obeys the assumption on the table.
LEMMA RowIsOk ==
  ASSUME TypeOK
  PROVE  call.f \in DOMAIN Api /\ RowOk(Row)
<1>1. call.f \in DOMAIN Api BY DEF TypeOK
<1> QED BY <1>1, ApiAssumption DEF ApiAssumption, Row

\* A code stands for success only if it is 0000, and for an error that comes
\* with data only if the row says so.
LEMMA ErrorOfCode ==
  ASSUME NEW r, RowOk(r), NEW c \in Codes(r)
  PROVE  /\ ErrorOf(r, c) \in {Success} \cup Error
         /\ ErrorOf(r, c) = Success => c = "0000"
         /\ c \in r.goesOn => ErrorOf(r, c) \in Accepted(r)
         /\ ErrorOf(r, c) \in Accepted(r) => c \in r.goesOn
<1>1. CASE c \in DOMAIN r.codes
  <2>1. ErrorOf(r, c) = r.codes[c] /\ r.codes[c] \in Error BY <1>1 DEF ErrorOf, RowOk
  <2>2. Success \notin Error BY DEF Success, Error
  <2>3. c \in r.goesOn => ErrorOf(r, c) \in Accepted(r) BY <2>1 DEF Accepted
  <2>4. ASSUME ErrorOf(r, c) \in Accepted(r) PROVE c \in r.goesOn
    <3>1. PICK d \in r.goesOn : r.codes[c] = r.codes[d] BY <2>1, <2>4 DEF Accepted
    <3> QED BY <1>1, <3>1 DEF RowOk
  <2> QED BY <2>1, <2>2, <2>3, <2>4
<1>2. CASE c \notin DOMAIN r.codes
  <2>1. ErrorOf(r, c) = (IF c = "0000" THEN Success ELSE "IE_ISDS") BY <1>2 DEF ErrorOf
  <2>2. c \notin r.goesOn BY <1>2 DEF RowOk
  <2>3. ErrorOf(r, c) \notin Accepted(r)
    <3>1. SUFFICES ASSUME NEW d \in r.goesOn, ErrorOf(r, c) = r.codes[d] PROVE FALSE
      BY DEF Accepted
    <3> QED BY <2>1, <3>1 DEF RowOk, Success
  <2> QED BY <2>1, <2>2, <2>3 DEF Success, Error
<1> QED BY <1>1, <1>2

\* No failure is among the errors that come with data.
LEMMA AcceptedApart ==
  ASSUME NEW r, RowOk(r)
  PROVE  /\ Accepted(r) \subseteq {"IE_TOO_BIG", "IE_PARTIAL_SUCCESS"} \ r.faults
         /\ ~r.checked => Accepted(r) = {}
BY DEF RowOk, Accepted

\* What an extraction can end with, and what it leaves in the output.
LEMMA OutcomeIs ==
  ASSUME TypeOK, NEW o \in Outcomes(Row) \cup {<<"IE_ERROR", out>>}
  PROVE  /\ o[1] \in {Success} \cup Failures
         /\ o[2] \in Output
         /\ ~call.response /\ Row.reads # "nothing" => o[1] # Success
         /\ OutputSoFar /\ call.pc = "extract" /\ o[1] = Success
              /\ Row.reads \notin {"nothing", "verdict"} /\ Kept(Row) => o[2] \in {"none", "this"}
<1> USE DEF Success, Failures, Output
<1>1. out \in Output BY DEF TypeOK
<1>2. Blank(Row) \in Output BY <1>1 DEF Blank
<1>3. CASE o = <<"IE_ERROR", out>> BY <1>1, <1>3
<1>4. CASE o \in Outcomes(Row) /\ Row.reads = "nothing"
  <2>1. o = <<Success, out>> BY <1>4 DEF Outcomes
  <2> QED BY <1>1, <1>4, <2>1
<1>5. CASE o \in Outcomes(Row) /\ Row.reads # "nothing" /\ ~call.response
  <2>1. o = <<"IE_INVAL", Blank(Row)>> BY <1>5 DEF Outcomes
  <2> QED BY <1>2, <2>1
<1>6. CASE o \in Outcomes(Row) /\ Row.reads # "nothing" /\ call.response
  <2>0. OutputSoFar /\ call.pc = "extract" /\ Row.reads \notin {"nothing", "verdict"} /\ Kept(Row)
          /\ Row.reads # "data" => Blank(Row) = "none"
    <3>1. Row.resets \in {"early", "reading", "never"} BY RowIsOk DEF RowOk
    <3> QED BY <3>1 DEF OutputSoFar, Kept, Blank
  <2>1. CASE call.body = "missing"
    <3>1. o = IF Row.reads \in {"list", "value"} THEN <<Success, Blank(Row)>> ELSE <<"IE_ISDS", out>>
      BY <1>6, <2>1 DEF Outcomes
    <3> QED BY <1>1, <1>2, <1>6, <2>0, <3>1
  <2>2. CASE call.body = "empty"
    <3>1. o = IF Row.reads = "data" THEN <<"IE_ISDS", Blank(Row)>> ELSE <<Success, Blank(Row)>>
      BY <1>6, <2>2 DEF Outcomes
    <3> QED BY <1>2, <1>6, <2>0, <3>1
  <2>3. CASE call.body = "broken"
    <3>1. o \in {"IE_ISDS", "IE_ERROR"} \X ({Blank(Row)} \cup Half(Row)) BY <1>6, <2>3 DEF Outcomes
    <3>2. Half(Row) \subseteq {"partial"} BY DEF Half
    <3> QED BY <1>2, <1>6, <3>1, <3>2
  <2>4. CASE call.body = "refuted"
    <3>1. o = <<"IE_NOTEQUAL", out>> BY <1>6, <2>4 DEF Outcomes
    <3> QED BY <1>1, <1>6, <3>1
  <2>5. CASE call.body = "whole"
    <3>1. o = <<Success, IF Row.reads = "verdict" THEN out ELSE "this">> BY <1>6, <2>5 DEF Outcomes
    <3> QED BY <1>1, <1>6, <3>1
  <2> QED BY <2>1, <2>2, <2>3, <2>4, <2>5 DEF TypeOK
<1> QED BY <1>3, <1>4, <1>5, <1>6

(***************************************************************************)
(* The type invariant                                                      *)
(***************************************************************************)

Call == [f : DOMAIN Api, pc : {"idle", "request", "extract", "leave", "returned"},
         err : {Success} \cup Error, fault : {Success} \cup Error,
         code : AnyCode \cup {NoAnswer},
         body : {"whole", "broken", "empty", "missing", "refuted"}, response : BOOLEAN]

\* The calls that begin, and those that end before they began.
LEMMA CallsAreTyped ==
  ASSUME NEW f \in DOMAIN Api, NEW e \in {Success} \cup Error
  PROVE  /\ NewCall(f) \in Call
         /\ [NewCall(f) EXCEPT !.pc = "idle"] \in Call
         /\ Ended(f, e) \in Call
BY DEF NewCall, Ended, Call

\* What the application hands over.
LEMMA GivenIs ==
  ASSUME NEW f \in DOMAIN Api, NEW given \in Given(f)
  PROVE  /\ given \in {"none", "earlier"}
         /\ ResetEarly(Api[f], given) \in {"none", given}
         /\ Api[f].resets = "early" => ResetEarly(Api[f], given) = "none"
BY DEF Given, Older, ResetEarly

\* A call enters with no status and no reference number of its own.
LEMMA EnteredIs ==
  ASSUME NEW f \in DOMAIN Api, Entered(f)
  PROVE  status' = NoStatus /\ ref' \in {"none", "earlier"}
BY DEF Entered, Older

\* The end of an exchange.
LEMMA ExchangedIsTyped ==
  ASSUME TypeOK, NEW e \in {Success} \cup Error, NEW c \in AnyCode \cup {NoAnswer},
         NEW b \in {"whole", "broken", "empty", "missing", "refuted"}, Exchanged(e, c, b)
  PROVE  call' \in Call
<1>1. Row.checked \in BOOLEAN BY RowIsOk DEF RowOk
<1>2. call.f \in DOMAIN Api BY DEF TypeOK
<1> QED BY <1>1, <1>2 DEF Exchanged, Call

\* The end of an extraction.
LEMMA ExtractedIsTyped ==
  ASSUME TypeOK, NEW o \in Outcomes(Row) \cup {<<"IE_ERROR", out>>}, Extracted(o)
  PROVE  out' \in Output /\ call' \in Call
<1>1. o[1] \in {Success} \cup Error /\ o[2] \in Output BY OutcomeIs DEF Failures, Error
<1>2. call \in Call BY DEF TypeOK, Call
<1> QED BY <1>1, <1>2 DEF Extracted, Call

\* The codes and bodies a service answers with.
LEMMA AnswersAreTyped ==
  ASSUME TypeOK, NEW c \in Codes(Row), NEW b \in Bodies(Row)
  PROVE  /\ c \in AnyCode
         /\ b \in {"whole", "broken", "empty", "missing", "refuted"}
         /\ StatusBuilt(Row, c) \in [built : BOOLEAN, code : AnyCode \cup {Pointer}]
<1>1. call.f \in DOMAIN Api /\ RowOk(Row) BY RowIsOk
<1>2. c \in AnyCode BY <1>1 DEF Codes, AnyCode, Row
<1>3. b \in {"whole", "broken", "empty", "missing", "refuted"} BY DEF Bodies
<1>4. Row.builds \in {"code", "pointer", "none"} BY <1>1 DEF RowOk
<1>5. StatusBuilt(Row, c) \in [built : BOOLEAN, code : AnyCode \cup {Pointer}]
  BY <1>2, <1>4 DEF StatusBuilt, Status, TypeOK
<1> QED BY <1>2, <1>3, <1>5

LEMMA TypeStep == TypeOK /\ [Next]_vars => TypeOK'
<1> SUFFICES ASSUME TypeOK, [Next]_vars PROVE TypeOK' OBVIOUS
<1>a. curl \in BOOLEAN /\ status \in [built : BOOLEAN, code : AnyCode \cup {Pointer}]
       /\ out \in Output /\ ref \in {"none", "this", "earlier"} /\ call \in Call
  BY DEF TypeOK, Call
<1>b. NoStatus \in [built : BOOLEAN, code : AnyCode \cup {Pointer}] BY DEF NoStatus, AnyCode
<1>c. SUFFICES curl' \in BOOLEAN /\ status' \in [built : BOOLEAN, code : AnyCode \cup {Pointer}]
       /\ out' \in Output /\ ref' \in {"none", "this", "earlier"} /\ call' \in Call
  BY DEF TypeOK, Call
<1>1. CASE Login \/ Logout
  <2>1. Rest \in Call BY <1>a, CallsAreTyped DEF Rest, Call
  <2> QED BY <1>1, <1>a, <1>b, <2>1 DEF Login, Logout
<1>2. ASSUME NEW f \in DOMAIN Api, Refused(f) PROVE TypeOK'
  <2>1. PICK given \in Given(f) : out' \in {given, ResetEarly(Api[f], given)} BY <1>2 DEF Refused
  <2>2. Ended(f, "IE_INVAL") \in Call BY CallsAreTyped DEF Error
  <2>3. out' \in Output BY <2>1, GivenIs DEF Output
  <2> QED BY <1>2, <1>a, <1>b, <2>2, <2>3, EnteredIs DEF Refused, TypeOK, Call
<1>3. ASSUME NEW f \in DOMAIN Api, Disconnected(f) PROVE TypeOK'
  <2>1. PICK given \in Given(f) : out' = ResetEarly(Api[f], given) BY <1>3 DEF Disconnected
  <2>2. Ended(f, "IE_CONNECTION_CLOSED") \in Call BY CallsAreTyped DEF Error
  <2>3. out' \in Output BY <2>1, GivenIs DEF Output
  <2> QED BY <1>3, <1>a, <1>b, <2>2, <2>3, EnteredIs DEF Disconnected, TypeOK, Call
<1>4. ASSUME NEW f \in DOMAIN Api, Begin(f) PROVE TypeOK'
  <2>1. PICK given \in Given(f) : out' = ResetEarly(Api[f], given) BY <1>4 DEF Begin
  <2>2. NewCall(f) \in Call BY CallsAreTyped
  <2>3. out' \in Output BY <2>1, GivenIs DEF Output
  <2> QED BY <1>4, <1>a, <1>b, <2>2, <2>3, EnteredIs DEF Begin, TypeOK, Call
<1>5. CASE RequestFails
  <2>1. PICK e \in Row.faults : call' = [call EXCEPT !.pc = "leave", !.err = e, !.fault = e]
    BY <1>5 DEF RequestFails
  <2>2. e \in Error BY RowIsOk DEF RowOk
  <2> QED BY <1>5, <1>a, <2>1, <2>2 DEF RequestFails, Call
<1>6. CASE FoundClosed
  <2>1. call' \in Call BY <1>6, ExchangedIsTyped DEF FoundClosed, Error
  <2> QED BY <1>6, <1>a, <2>1 DEF FoundClosed
<1>7. CASE TransportFails
  <2>1. PICK e \in {"IE_NETWORK"} \cup KeptOpen : Exchanged(e, NoAnswer, "whole")
    BY <1>7 DEF TransportFails
  <2>2. call' \in Call BY <2>1, ExchangedIsTyped DEF KeptOpen, Error
  <2> QED BY <1>7, <1>a, <2>2 DEF TransportFails
<1>8. CASE Answered
  <2>1. PICK c \in Codes(Row), b \in Bodies(Row) :
          status' = StatusBuilt(Row, c) /\ Exchanged(ErrorOf(Row, c), c, b)
    BY <1>8 DEF Answered
  <2>2. ErrorOf(Row, c) \in {Success} \cup Error BY RowIsOk, ErrorOfCode
  <2>3. call' \in Call BY <2>1, <2>2, AnswersAreTyped, ExchangedIsTyped
  <2>4. ref' \in {"none", "this", "earlier"} BY <1>8, <1>a DEF Answered
  <2> QED BY <1>8, <1>a, <2>1, <2>3, <2>4, AnswersAreTyped DEF Answered
<1>9. CASE Extract \/ Load
  <2>1. PICK o \in Outcomes(Row) \cup {<<"IE_ERROR", out>>} : Extracted(o) BY <1>9 DEF Extract, Load
  <2> QED BY <1>9, <1>a, <1>b, <2>1, ExtractedIsTyped DEF Extract, Load
<1>10. CASE Leave
  BY <1>10, <1>a DEF Leave, Call, Output
<1>11. CASE UNCHANGED vars
  BY <1>11, <1>a DEF vars
<1> QED BY <1>1, <1>2, <1>3, <1>4, <1>5, <1>6, <1>7, <1>8, <1>9, <1>10, <1>11 DEF Next, Enter, TypeOK, Call

\* Every function, however it goes about its calls, keeps the variables in
\* their ranges; the result is always one of the errors.
THEOREM ServiceTypeCorrect == Spec => []TypeOK
<1>1. Init => TypeOK
  <2> SUFFICES ASSUME Init PROVE TypeOK OBVIOUS
  <2>1. PICK f \in DOMAIN Api : call = [NewCall(f) EXCEPT !.pc = "idle"] BY DEF Init
  <2>2. call \in Call BY <2>1, CallsAreTyped DEF Error
  <2> QED BY <2>2 DEF Init, TypeOK, Call, NoStatus, AnyCode, Output
<1> QED BY <1>1, TypeStep, PTL DEF Spec

(***************************************************************************)
(* The result                                                              *)
(***************************************************************************)

LEMMA ResultStep == TypeOK /\ ResultSoFar /\ [Next]_vars => ResultSoFar'
<1> SUFFICES ASSUME TypeOK, ResultSoFar, [Next]_vars PROVE ResultSoFar' OBVIOUS
<1>t. call \in Call BY DEF TypeOK, Call
<1>r. RowOk(Row) BY RowIsOk
<1>a. Accepted(Row) \subseteq {"IE_TOO_BIG", "IE_PARTIAL_SUCCESS"} /\ (~Row.checked => Accepted(Row) = {})
  BY <1>r, AcceptedApart
<1>1. CASE Login \/ Logout
  <2>1. call'.pc = "idle" BY <1>1 DEF Login, Logout, Rest, NewCall
  <2> QED BY <2>1 DEF ResultSoFar
<1>2. ASSUME NEW f \in DOMAIN Api, NEW e \in Error, call' = Ended(f, e) PROVE ResultSoFar'
  <2>1. call'.pc = "returned" /\ call'.err = e /\ call'.fault = e BY <1>2 DEF Ended, NewCall
  <2>2. e # Success BY DEF Error, Success
  <2> QED BY <2>1, <2>2 DEF ResultSoFar
<1>3. ASSUME NEW f \in DOMAIN Api, call' = NewCall(f) PROVE ResultSoFar'
  BY <1>3 DEF NewCall, ResultSoFar
<1>4. CASE RequestFails
  <2>1. PICK e \in Row.faults : call' = [call EXCEPT !.pc = "leave", !.err = e, !.fault = e]
    BY <1>4 DEF RequestFails
  <2>2. e # Success BY <1>r DEF RowOk, Error, Success
  <2>3. call'.pc = "leave" /\ call'.err = e /\ call'.fault = e BY <1>t, <2>1 DEF Call
  <2> QED BY <2>2, <2>3 DEF ResultSoFar
<1>5. ASSUME NEW e \in Error, NEW b, Exchanged(e, NoAnswer, b) PROVE ResultSoFar'
  <2>1. e # Success BY DEF Error, Success
  <2>2. NoAnswer \notin Row.goesOn BY <1>r DEF RowOk
  <2>3. /\ call'.pc = IF ~Row.checked THEN "extract" ELSE "leave"
        /\ call'.err = e /\ call'.fault = e /\ call'.response = FALSE /\ call'.f = call.f
    BY <1>5, <2>1, <2>2 DEF Exchanged
  <2>4. Row' = Row BY <2>3 DEF Row
  <2> QED BY <2>1, <2>3, <2>4 DEF ResultSoFar
<1>6. CASE Answered
  <2>1. PICK c \in Codes(Row), b \in Bodies(Row) : Exchanged(ErrorOf(Row, c), c, b) BY <1>6 DEF Answered
  <2> DEFINE e == ErrorOf(Row, c)
  <2>2. /\ e \in {Success} \cup Error
        /\ e = Success => c = "0000"
        /\ c \in Row.goesOn => e \in Accepted(Row)
        /\ e \in Accepted(Row) => c \in Row.goesOn
    BY <1>r, ErrorOfCode
  <2>3. call'.f = call.f /\ call'.err = e /\ call'.code = c BY <2>1 DEF Exchanged
  <2>4. Row' = Row BY <2>3 DEF Row
  <2>5. CASE e = Success \/ c \in Row.goesOn
    <3>1. call'.pc = "extract" /\ call'.fault = Success /\ call'.response = TRUE
      BY <2>1, <2>5 DEF Exchanged
    <3> HIDE DEF e
    <3> QED BY <2>2, <2>3, <2>4, <2>5, <3>1 DEF ResultSoFar
  <2>6. CASE ~(e = Success \/ c \in Row.goesOn)
    <3>1. /\ call'.pc = IF ~Row.checked THEN "extract" ELSE "leave"
          /\ call'.fault = e /\ call'.response = FALSE
      BY <2>1, <2>6 DEF Exchanged
    <3> HIDE DEF e
    <3> QED BY <2>2, <2>3, <2>4, <2>6, <3>1 DEF ResultSoFar
  <2> QED BY <2>5, <2>6
<1>7. CASE Extract \/ Load
  <2>1. PICK o \in Outcomes(Row) \cup {<<"IE_ERROR", out>>} : Extracted(o) BY <1>7 DEF Extract, Load
  <2>2. /\ o[1] \in {Success} \cup Failures
        /\ ~call.response /\ Row.reads # "nothing" => o[1] # Success
    BY OutcomeIs
  <2>3. /\ call'.pc = "leave" /\ call'.f = call.f /\ call'.code = call.code
        /\ call'.err = (IF o[1] = Success /\ Row.checked THEN call.err ELSE o[1])
        /\ call'.fault = (IF call.fault = Success THEN o[1] ELSE call.fault)
    BY <1>t, <2>1 DEF Extracted, Call
  <2>4. Row' = Row BY <2>3 DEF Row
  <2>5. call.pc = "extract" BY <1>7 DEF Extract, Load
  <2>6. CASE call.response
    <3>1. call.fault = Success /\ ((call.err = Success /\ call.code = "0000") \/ call.err \in Accepted(Row))
      BY <2>5, <2>6 DEF ResultSoFar
    <3> QED BY <1>a, <2>2, <2>3, <2>4, <3>1 DEF ResultSoFar, Success, Failures
  <2>7. CASE ~call.response
    <3>1. ~Row.checked /\ call.fault # Success BY <2>5, <2>7 DEF ResultSoFar
    <3>2. o[1] # Success BY <1>r, <2>2, <2>7, <3>1 DEF RowOk
    <3> QED BY <2>3, <2>4, <3>1, <3>2 DEF ResultSoFar
  <2> QED BY <2>6, <2>7
<1>8. CASE Leave
  <2>1. /\ call'.pc = "returned" /\ call'.f = call.f /\ call'.code = call.code
        /\ call'.err = call.err /\ call'.fault = call.fault /\ call.pc = "leave"
    BY <1>t, <1>8 DEF Leave, Call
  <2> QED BY <2>1 DEF ResultSoFar, Row
<1>9. CASE UNCHANGED vars
  BY <1>9 DEF vars, ResultSoFar, Row
<1> QED
  <2>1. CASE Enter
    <3>1. PICK f \in DOMAIN Api : Refused(f) \/ Disconnected(f) \/ Begin(f) BY <2>1 DEF Enter
    <3> QED BY <1>2, <1>3, <3>1 DEF Refused, Disconnected, Begin, Error
  <2>2. CASE FoundClosed \/ TransportFails
    BY <1>5, <2>2 DEF FoundClosed, TransportFails, KeptOpen, Error
  <2> QED BY <1>1, <1>4, <1>6, <1>7, <1>8, <1>9, <2>1, <2>2 DEF Next

LEMMA ResultAlways == Spec => []ResultSoFar
<1>1. Init => ResultSoFar
  <2> SUFFICES ASSUME Init PROVE ResultSoFar OBVIOUS
  <2>1. call.pc = "idle" BY DEF Init, NewCall
  <2> QED BY <2>1 DEF ResultSoFar
<1> QED BY <1>1, ResultStep, ServiceTypeCorrect, PTL DEF Spec

\* Whatever functions the library has, one that reports success was told so by
\* the service, in the answer to this call, and met no failure.
THEOREM SuccessCorrect == Spec => []SuccessIsServers
<1>1. ResultSoFar => SuccessIsServers BY DEF ResultSoFar, SuccessIsServers, Returned
<1> QED BY <1>1, ResultAlways, PTL

\* The failure a call met first is the one it reports, in every function that
\* looks at the result of the exchange.
THEOREM FailureCorrect == Spec => []FailureIsItsOwn
<1>1. ResultSoFar => FailureIsItsOwn BY DEF ResultSoFar, FailureIsItsOwn, Returned
<1> QED BY <1>1, ResultAlways, PTL

(***************************************************************************)
(* The status and the reference number                                     *)
(***************************************************************************)

\* A call enters its stages with the code and the function it had, but for the
\* end of the exchange.
LEMMA CodeKept ==
  ASSUME TypeOK, RequestFails \/ Extract \/ Load \/ Leave
  PROVE  /\ call'.f = call.f /\ call'.code = call.code /\ ref' = ref
         /\ call'.pc # "idle" /\ call.pc # "idle"
<1>t. call \in Call BY DEF TypeOK, Call
<1>1. CASE RequestFails
  <2>1. PICK e \in Row.faults : call' = [call EXCEPT !.pc = "leave", !.err = e, !.fault = e]
    BY <1>1 DEF RequestFails
  <2> QED BY <1>1, <1>t, <2>1 DEF RequestFails, Call
<1>2. CASE Extract \/ Load
  <2>1. PICK o : Extracted(o) BY <1>2 DEF Extract, Load
  <2> QED BY <1>2, <1>t, <2>1 DEF Extract, Load, Extracted, Call
<1>3. CASE Leave
  BY <1>3, <1>t DEF Leave, Call
<1> QED BY <1>1, <1>2, <1>3

\* A call that begins or is refused has no answer.
LEMMA CallsBegin ==
  ASSUME NEW f \in DOMAIN Api, Refused(f) \/ Disconnected(f) \/ Begin(f)
  PROVE  /\ call'.f = f /\ call'.code = NoAnswer
         /\ \/ call'.pc = "returned" /\ call'.err \in {"IE_INVAL", "IE_CONNECTION_CLOSED"}
            \/ call'.pc = "request"
<1>1. CASE Refused(f) BY <1>1 DEF Refused, Ended, NewCall
<1>2. CASE Disconnected(f) BY <1>2 DEF Disconnected, Ended, NewCall
<1>3. CASE Begin(f) BY <1>3 DEF Begin, NewCall
<1> QED BY <1>1, <1>2, <1>3

LEMMA StatusStep == TypeOK /\ StatusSoFar /\ ResultSoFar /\ [Next]_vars => StatusSoFar'
<1> SUFFICES ASSUME TypeOK, StatusSoFar, ResultSoFar, [Next]_vars PROVE StatusSoFar' OBVIOUS
<1>1. CASE Login \/ Logout
  <2>1. call'.pc = "idle" BY <1>1 DEF Login, Logout, Rest, NewCall
  <2> QED BY <2>1 DEF StatusSoFar
<1>2. ASSUME NEW f \in DOMAIN Api, Refused(f) \/ Disconnected(f) \/ Begin(f) PROVE StatusSoFar'
  <2>1. status' = NoStatus BY <1>2 DEF Refused, Disconnected, Begin, Entered
  <2>2. call'.code = NoAnswer BY <1>2, CallsBegin
  <2> QED BY <2>1, <2>2 DEF StatusSoFar, Answer
<1>3. CASE RequestFails \/ Extract \/ Leave
  <2>1. status' = status BY <1>3 DEF RequestFails, Extract, Leave
  <2> QED BY <1>3, <2>1, CodeKept DEF StatusSoFar, Answer, Row
<1>4. CASE Load
  <2>1. Row.loads BY <1>4 DEF Load, Handed
  <2> QED BY <1>4, <2>1, CodeKept DEF StatusSoFar, Row
<1>5. CASE FoundClosed \/ TransportFails
  <2>1. PICK e : Exchanged(e, NoAnswer, "whole") /\ status' = status
    BY <1>5 DEF FoundClosed, TransportFails
  <2>2. call'.f = call.f /\ call'.code = NoAnswer BY <2>1 DEF Exchanged
  <2>3. call.pc = "request" /\ call.code = NoAnswer BY <1>5 DEF FoundClosed, TransportFails, ResultSoFar
  <2> QED BY <2>1, <2>2, <2>3 DEF StatusSoFar, Answer, Row
<1>6. CASE Answered
  <2>1. PICK c \in Codes(Row), b \in Bodies(Row) :
          status' = StatusBuilt(Row, c) /\ Exchanged(ErrorOf(Row, c), c, b)
    BY <1>6 DEF Answered
  <2>2. call'.f = call.f /\ call'.code = c BY <2>1 DEF Exchanged
  <2>3. c # NoAnswer BY RowIsOk DEF RowOk, Codes, NoAnswer, Missing
  <2>4. Row.builds = "code" => status' = Status(c) BY <2>1 DEF StatusBuilt
  <2> QED BY <2>2, <2>3, <2>4 DEF StatusSoFar, Answer, Row, Status
<1>7. CASE UNCHANGED vars
  BY <1>7 DEF vars, StatusSoFar, Answer, Row
<1> QED BY <1>1, <1>2, <1>3, <1>4, <1>5, <1>6, <1>7 DEF Next, Enter

\* In every function that hands over the code itself and loads nothing, the
\* status after the call is that of the answer, and none without an answer.
THEOREM StatusCorrect == Spec => []StatusIsServers
<1>1. Init => StatusSoFar
  <2> SUFFICES ASSUME Init PROVE StatusSoFar OBVIOUS
  <2>1. call.pc = "idle" BY DEF Init, NewCall
  <2> QED BY <2>1 DEF StatusSoFar
<1>2. StatusSoFar => StatusIsServers BY DEF StatusSoFar, StatusIsServers, Returned
<1> QED BY <1>1, <1>2, StatusStep, ServiceTypeCorrect, ResultAlways, PTL DEF Spec

LEMMA RefStep == TypeOK /\ RefSoFar /\ ResultSoFar /\ [Next]_vars => RefSoFar'
<1> SUFFICES ASSUME TypeOK, RefSoFar, ResultSoFar, [Next]_vars PROVE RefSoFar' OBVIOUS
<1>1. CASE Login \/ Logout
  <2>1. call'.pc = "idle" BY <1>1 DEF Login, Logout, Rest, NewCall
  <2> QED BY <2>1 DEF RefSoFar
<1>2. ASSUME NEW f \in DOMAIN Api, Refused(f) \/ Disconnected(f) \/ Begin(f) PROVE RefSoFar'
  <2>1. ref' \in {"none", "earlier"} BY <1>2, EnteredIs DEF Refused, Disconnected, Begin
  <2>2. call'.code = NoAnswer BY <1>2, CallsBegin
  <2> QED BY <2>1, <2>2 DEF RefSoFar, Answer
<1>3. CASE RequestFails \/ Extract \/ Load \/ Leave
  BY <1>3, CodeKept DEF RefSoFar, Answer, Row
<1>4. CASE FoundClosed \/ TransportFails
  <2>1. PICK e : Exchanged(e, NoAnswer, "whole") /\ ref' = ref
    BY <1>4 DEF FoundClosed, TransportFails
  <2>2. call'.f = call.f /\ call'.code = NoAnswer BY <2>1 DEF Exchanged
  <2>3. call.pc = "request" /\ call.code = NoAnswer BY <1>4 DEF FoundClosed, TransportFails, ResultSoFar
  <2> QED BY <2>1, <2>2, <2>3 DEF RefSoFar, Answer, Row
<1>5. CASE Answered
  <2>1. PICK c \in Codes(Row), b \in Bodies(Row) :
          /\ Exchanged(ErrorOf(Row, c), c, b)
          /\ IF Row.refs THEN ref' \in (IF c = Missing THEN {"none"} ELSE {"none", "this"})
                         ELSE ref' = ref
    BY <1>5 DEF Answered
  <2>2. call'.f = call.f /\ call'.code = c BY <2>1 DEF Exchanged
  <2>3. c # NoAnswer BY RowIsOk DEF RowOk, Codes, NoAnswer, Missing
  <2>4. call.pc = "request" /\ call.code = NoAnswer BY <1>5 DEF Answered, ResultSoFar
  <2>5. ref # "this" BY <2>4 DEF RefSoFar, Answer
  <2> QED BY <2>1, <2>2, <2>3, <2>5 DEF RefSoFar, Answer, Row
<1>6. CASE UNCHANGED vars
  BY <1>6 DEF vars, RefSoFar, Answer, Row
<1> QED BY <1>1, <1>2, <1>3, <1>4, <1>5, <1>6 DEF Next, Enter

\* The reference number is the service's, given with the answer to this call.
THEOREM RefCorrect == Spec => []RefIsOwn
<1>1. Init => RefSoFar
  <2> SUFFICES ASSUME Init PROVE RefSoFar OBVIOUS
  <2>1. call.pc = "idle" BY DEF Init, NewCall
  <2> QED BY <2>1 DEF RefSoFar
<1>2. RefSoFar => RefIsOwn BY DEF RefSoFar, RefIsOwn, Returned
<1> QED BY <1>1, <1>2, RefStep, ServiceTypeCorrect, ResultAlways, PTL DEF Spec

(***************************************************************************)
(* The output                                                              *)
(***************************************************************************)

LEMMA OutputStep == TypeOK /\ OutputSoFar /\ ResultSoFar /\ [Next]_vars => OutputSoFar'
<1> SUFFICES ASSUME TypeOK, OutputSoFar, ResultSoFar, [Next]_vars PROVE OutputSoFar' OBVIOUS
<1>r. RowOk(Row) BY RowIsOk
<1>a. /\ Accepted(Row) \subseteq {"IE_TOO_BIG", "IE_PARTIAL_SUCCESS"} \ Row.faults
      /\ Row.faults \subseteq Error
  BY <1>r, AcceptedApart DEF RowOk
<1>1. CASE Login \/ Logout
  <2>1. call'.pc = "idle" BY <1>1 DEF Login, Logout, Rest, NewCall
  <2> QED BY <2>1 DEF OutputSoFar
<1>2. ASSUME NEW f \in DOMAIN Api, Refused(f) \/ Disconnected(f) \/ Begin(f) PROVE OutputSoFar'
  <2>1. Row' = Api[f] BY <1>2, CallsBegin DEF Row
  <2>2. Accepted(Api[f]) \subseteq {"IE_TOO_BIG", "IE_PARTIAL_SUCCESS"}
    BY ApiAssumption, AcceptedApart DEF ApiAssumption
  <2>3. CASE call'.pc = "returned" /\ call'.err \in {"IE_INVAL", "IE_CONNECTION_CLOSED"}
    BY <2>1, <2>2, <2>3 DEF OutputSoFar, Success
  <2>4. CASE call'.pc = "request"
    <3>1. Begin(f) BY <1>2, <2>4 DEF Refused, Disconnected, Ended, NewCall
    <3>2. PICK given \in Given(f) : out' = ResetEarly(Api[f], given) BY <3>1 DEF Begin
    <3>3. given \in {"none", "earlier"} BY GivenIs
    <3> QED BY <2>1, <2>4, <3>2, <3>3 DEF OutputSoFar, ResetEarly
  <2> QED BY <1>2, <2>3, <2>4, CallsBegin
<1>3. CASE RequestFails
  <2>1. PICK e \in Row.faults : call' = [call EXCEPT !.pc = "leave", !.err = e, !.fault = e]
    BY <1>3 DEF RequestFails
  <2>2. call'.pc = "leave" /\ call'.err = e /\ Row' = Row
    BY <2>1 DEF TypeOK, Row
  <2> QED BY <1>a, <2>2 DEF OutputSoFar, Error, Success
<1>4. ASSUME NEW e, NEW c, NEW b, Exchanged(e, c, b), out' = out, call.pc = "request",
             e = Success \/ e \in Accepted(Row) => e = Success \/ c \in Row.goesOn
      PROVE  OutputSoFar'
  <2>1. Row' = Row BY <1>4 DEF Exchanged, Row
  <2>2. call'.err = e /\ call'.pc \in {"extract", "leave"} BY <1>4 DEF Exchanged
  <2>3. call'.pc = "leave" => e \notin {Success} \cup Accepted(Row) BY <1>4 DEF Exchanged
  <2> QED BY <1>4, <2>1, <2>2, <2>3 DEF OutputSoFar
<1>5. CASE FoundClosed \/ TransportFails
  <2>1. PICK e \in KeptOpen \cup {"IE_NETWORK", "IE_CONNECTION_CLOSED"} :
          Exchanged(e, NoAnswer, "whole") /\ out' = out /\ call.pc = "request"
    BY <1>5 DEF FoundClosed, TransportFails
  <2>2. e \notin {Success} \cup Accepted(Row) BY <1>a DEF KeptOpen, Success
  <2> QED BY <1>4, <2>1, <2>2
<1>6. CASE Answered
  <2>1. PICK c \in Codes(Row), b \in Bodies(Row) : Exchanged(ErrorOf(Row, c), c, b)
    BY <1>6 DEF Answered
  <2>2. out' = out /\ call.pc = "request" BY <1>6 DEF Answered
  <2>3. ErrorOf(Row, c) \in Accepted(Row) => c \in Row.goesOn BY <1>r, ErrorOfCode
  <2> QED BY <1>4, <2>1, <2>2, <2>3
<1>7. CASE Extract \/ Load
  <2>1. PICK o \in Outcomes(Row) \cup {<<"IE_ERROR", out>>} : Extracted(o) BY <1>7 DEF Extract, Load
  <2>2. call.pc = "extract" BY <1>7 DEF Extract, Load
  <2>3. /\ call'.pc = "leave" /\ Row' = Row /\ out' = o[2]
        /\ call'.err = (IF o[1] = Success /\ Row.checked THEN call.err ELSE o[1])
    BY <2>1 DEF Extracted, TypeOK, Row
  <2>4. o[1] \in {Success} \cup Failures BY OutcomeIs
  <2>5. CASE o[1] = Success
    <3>1. Row.reads \notin {"nothing", "verdict"} /\ Kept(Row) => o[2] \in {"none", "this"}
      BY <2>2, <2>5, OutcomeIs
    <3> QED BY <2>3, <3>1 DEF OutputSoFar
  <2>6. CASE o[1] # Success
    <3>1. o[1] \notin {Success} \cup Accepted(Row) BY <1>a, <2>4, <2>6 DEF Failures
    <3> QED BY <2>3, <2>6, <3>1 DEF OutputSoFar
  <2> QED BY <2>5, <2>6
<1>8. CASE Leave
  <2>1. call'.pc = "returned" /\ call'.err = call.err /\ Row' = Row /\ call.pc = "leave"
    BY <1>8 DEF Leave, TypeOK, Row
  <2>2. out' \in {"none", out} BY <1>8 DEF Leave
  <2> QED BY <2>1, <2>2 DEF OutputSoFar
<1>9. CASE UNCHANGED vars
  BY <1>9 DEF vars, OutputSoFar, Row
<1> QED BY <1>1, <1>2, <1>3, <1>5, <1>6, <1>7, <1>8, <1>9 DEF Next, Enter

\* What a function hands over with success, or with a code that comes with
\* data, was read from the answer to this call and read completely.
THEOREM OutputCorrect == Spec => []OutputIsOwn
<1>1. Init => OutputSoFar
  <2> SUFFICES ASSUME Init PROVE OutputSoFar OBVIOUS
  <2>1. call.pc = "idle" BY DEF Init, NewCall
  <2> QED BY <2>1 DEF OutputSoFar
<1>2. OutputSoFar => OutputIsOwn BY DEF OutputSoFar, OutputIsOwn, Returned, Kept
<1> QED BY <1>1, <1>2, OutputStep, ServiceTypeCorrect, ResultAlways, PTL DEF Spec

(***************************************************************************)
(* What is left of an answer that could not be read                        *)
(***************************************************************************)

\* The output is written when all is read, or freed on error.
Tidy(r) == r.writes = "asRead" => r.frees

HalfSoFar ==
  /\ call.pc = "leave" /\ out = "partial" =>
       Row.writes = "asRead" /\ call.err \notin {Success} \cup Accepted(Row)
  /\ Returned /\ out = "partial" => ~Tidy(Row)

\* Only an extraction that breaks off while it writes leaves half an output.
LEMMA HalfOutcomes ==
  ASSUME TypeOK, OutputSoFar, call.pc = "extract",
         NEW o \in Outcomes(Row) \cup {<<"IE_ERROR", out>>}, o[2] = "partial"
  PROVE  Row.writes = "asRead" /\ o[1] \in {"IE_ISDS", "IE_ERROR"}
<1>1. out # "partial" /\ Blank(Row) # "partial" BY DEF OutputSoFar, Blank
<1>2. o \in Outcomes(Row) /\ Row.reads # "nothing" /\ call.response
  <2>1. o # <<"IE_ERROR", out>> BY <1>1
  <2>2. Row.reads # "nothing"
    <3>1. ASSUME Row.reads = "nothing" PROVE o = <<Success, out>> BY <2>1, <3>1 DEF Outcomes
    <3> QED BY <1>1, <3>1
  <2>3. ASSUME ~call.response PROVE o = <<"IE_INVAL", Blank(Row)>> BY <2>1, <2>2, <2>3 DEF Outcomes
  <2> QED BY <1>1, <2>1, <2>2, <2>3
<1>3. call.body = "broken"
  <2>1. ASSUME call.body = "missing" PROVE FALSE
    <3>1. o = IF Row.reads \in {"list", "value"} THEN <<Success, Blank(Row)>> ELSE <<"IE_ISDS", out>>
      BY <1>2, <2>1 DEF Outcomes
    <3> QED BY <1>1, <3>1
  <2>2. ASSUME call.body = "empty" PROVE FALSE
    <3>1. o = IF Row.reads = "data" THEN <<"IE_ISDS", Blank(Row)>> ELSE <<Success, Blank(Row)>>
      BY <1>2, <2>2 DEF Outcomes
    <3> QED BY <1>1, <3>1
  <2>3. ASSUME call.body = "refuted" PROVE FALSE
    <3>1. o = <<"IE_NOTEQUAL", out>> BY <1>2, <2>3 DEF Outcomes
    <3> QED BY <1>1, <3>1
  <2>4. ASSUME call.body = "whole" PROVE FALSE
    <3>1. o = <<Success, IF Row.reads = "verdict" THEN out ELSE "this">> BY <1>2, <2>4 DEF Outcomes
    <3> QED BY <1>1, <3>1
  <2> QED BY <2>1, <2>2, <2>3, <2>4 DEF TypeOK
<1>4. o \in {"IE_ISDS", "IE_ERROR"} \X ({Blank(Row)} \cup Half(Row)) BY <1>2, <1>3 DEF Outcomes
<1>5. o[1] \in {"IE_ISDS", "IE_ERROR"} /\ o[2] \in Half(Row) BY <1>1, <1>4
<1> QED BY <1>5 DEF Half

LEMMA HalfStep == TypeOK /\ OutputSoFar /\ HalfSoFar /\ [Next]_vars => HalfSoFar'
<1> SUFFICES ASSUME TypeOK, OutputSoFar, HalfSoFar, [Next]_vars PROVE HalfSoFar' OBVIOUS
<1>r. RowOk(Row) /\ call \in Call BY RowIsOk DEF TypeOK, Call
<1>1. CASE Login \/ Logout
  <2>1. call'.pc = "idle" BY <1>1 DEF Login, Logout, Rest, NewCall
  <2> QED BY <2>1 DEF HalfSoFar, Returned
<1>2. ASSUME NEW f \in DOMAIN Api, Refused(f) \/ Disconnected(f) \/ Begin(f) PROVE HalfSoFar'
  <2>1. call'.pc # "leave" BY <1>2, CallsBegin
  <2>2. PICK given \in Given(f) : out' \in {given, ResetEarly(Api[f], given)}
    BY <1>2 DEF Refused, Disconnected, Begin
  <2>3. given \in {"none", "earlier"} BY GivenIs
  <2>4. out' # "partial" BY <2>2, <2>3 DEF ResetEarly
  <2> QED BY <2>1, <2>4 DEF HalfSoFar
<1>3. CASE RequestFails \/ FoundClosed \/ TransportFails \/ Answered
  <2>1. call.pc = "request" /\ out' = out BY <1>3 DEF RequestFails, FoundClosed, TransportFails, Answered
  <2>2. out' # "partial" BY <2>1 DEF OutputSoFar
  <2> QED BY <2>2 DEF HalfSoFar
<1>4. CASE Extract \/ Load
  <2>1. PICK o \in Outcomes(Row) \cup {<<"IE_ERROR", out>>} : Extracted(o) BY <1>4 DEF Extract, Load
  <2>2. call.pc = "extract" BY <1>4 DEF Extract, Load
  <2>3. /\ call'.pc = "leave" /\ Row' = Row /\ out' = o[2]
        /\ call'.err = (IF o[1] = Success /\ Row.checked THEN call.err ELSE o[1])
    BY <1>r, <2>1 DEF Extracted, Call, Row
  <2>4. ASSUME o[2] = "partial"
        PROVE  Row.writes = "asRead" /\ call'.err \notin {Success} \cup Accepted(Row)
    <3>1. Row.writes = "asRead" /\ o[1] \in {"IE_ISDS", "IE_ERROR"} BY <2>2, <2>4, HalfOutcomes
    <3>2. Accepted(Row) \subseteq {"IE_TOO_BIG", "IE_PARTIAL_SUCCESS"} BY <1>r, AcceptedApart
    <3> QED BY <2>3, <3>1, <3>2 DEF Success
  <2> QED BY <2>3, <2>4 DEF HalfSoFar, Returned
<1>5. CASE Leave
  <2>1. call'.pc = "returned" /\ Row' = Row /\ call.pc = "leave"
    BY <1>5, <1>r DEF Leave, Call, Row
  <2>2. ASSUME out' = "partial" PROVE ~Tidy(Row)
    <3>1. out = "partial" BY <1>5, <2>2 DEF Leave
    <3>2. Row.writes = "asRead" /\ call.err \notin {Success} \cup Accepted(Row)
      BY <2>1, <3>1 DEF HalfSoFar
    <3>3. ~Row.frees BY <1>5, <2>2, <3>2 DEF Leave
    <3> QED BY <3>2, <3>3 DEF Tidy
  <2> QED BY <2>1, <2>2 DEF HalfSoFar
<1>6. CASE UNCHANGED vars
  BY <1>6 DEF vars, HalfSoFar, Row, Returned
<1> QED BY <1>1, <1>2, <1>3, <1>4, <1>5, <1>6 DEF Next, Enter

\* Whatever breaks off the extraction of an answer, a function leaves the
\* application half an output only if it writes while it reads and does not
\* free on error.
THEOREM HalfOnlyUntidy == Spec => [](Returned /\ out = "partial" => ~Tidy(Row))
<1>1. Init => OutputSoFar /\ HalfSoFar
  <2> SUFFICES ASSUME Init PROVE OutputSoFar /\ HalfSoFar OBVIOUS
  <2>1. call.pc = "idle" BY DEF Init, NewCall
  <2> QED BY <2>1 DEF OutputSoFar, HalfSoFar, Returned
<1>2. HalfSoFar => (Returned /\ out = "partial" => ~Tidy(Row)) BY DEF HalfSoFar
<1> QED BY <1>1, <1>2, HalfStep, OutputStep, ServiceTypeCorrect, ResultAlways, PTL DEF Spec

\* The functions of the library, all but those of LeavesPartial, are tidy.
LEMMA LibraryIsTidy ==
  ASSUME NEW f \in DOMAIN LibraryApi, f \notin LeavesPartial
  PROVE  Tidy(LibraryApi[f])
<1>1. /\ Tidy(isds_GetOwnerInfoFromLogin) /\ Tidy(isds_GetOwnerInfoFromLogin2)
      /\ Tidy(isds_GetUserInfoFromLogin) /\ Tidy(isds_GetUserInfoFromLogin2)
      /\ Tidy(isds_get_password_expiration)
    BY DEF Tidy, isds_GetOwnerInfoFromLogin, DbDummy, Plain,
      isds_GetOwnerInfoFromLogin2, isds_GetUserInfoFromLogin, isds_GetUserInfoFromLogin2,
      isds_get_password_expiration
<1>2. /\ Tidy(isds_add_pfoinfo) /\ Tidy(isds_delete_box)
      /\ Tidy(isds_UpdateDataBoxDescr) /\ Tidy(isds_UpdateDataBoxDescr2)
      /\ Tidy(isds_UpdateDataBoxUser) /\ Tidy(isds_UpdateDataBoxUser2)
      /\ Tidy(isds_DeleteDataBoxUser2) /\ Tidy(isds_switch_commercial_receiving)
      /\ Tidy(isds_switch_box_accessibility_on_owner_request) /\ Tidy(isds_disable_box_accessibility_externaly)
    BY DEF Tidy, isds_add_pfoinfo, Command, Describing, Plain, isds_delete_box,
      isds_UpdateDataBoxDescr, isds_UpdateDataBoxDescr2, isds_UpdateDataBoxUser,
      isds_UpdateDataBoxUser2, isds_DeleteDataBoxUser2, isds_switch_commercial_receiving,
      isds_switch_box_accessibility_on_owner_request, isds_disable_box_accessibility_externaly
<1>3. /\ Tidy(isds_GetDataBoxUsers) /\ Tidy(isds_GetDataBoxUsers2)
      /\ Tidy(isds_get_box_list_archive) /\ Tidy(isds_find_box_by_fulltext)
      /\ Tidy(isds_CheckDataBox) /\ Tidy(isds_get_commercial_permissions)
      /\ Tidy(isds_PDZSendInfo) /\ Tidy(isds_DTInfo)
      /\ Tidy(isds_PickUpAsyncResponse) /\ Tidy(isds_authenticate_message)
      /\ Tidy(isds_AuthenticateBigMessage) /\ Tidy(isds_AuthenticateBigMessage_mtomxop)
    BY DEF Tidy, isds_GetDataBoxUsers, Plain, isds_GetDataBoxUsers2,
      isds_get_box_list_archive, isds_find_box_by_fulltext, isds_CheckDataBox,
      isds_get_commercial_permissions, isds_PDZSendInfo, isds_DTInfo,
      isds_PickUpAsyncResponse, isds_authenticate_message, isds_AuthenticateBigMessage,
      isds_AuthenticateBigMessage_mtomxop
<1>4. /\ Tidy(isds_FindDataBox) /\ Tidy(isds_FindDataBox2)
      /\ Tidy(isds_UploadAttachment) /\ Tidy(isds_UploadAttachment_mtomxop)
      /\ Tidy(isds_request_new_testing_box)
    BY DEF Tidy, isds_FindDataBox, Describing, Plain, isds_FindDataBox2,
      isds_UploadAttachment, isds_UploadAttachment_mtomxop, isds_request_new_testing_box
<1>5. /\ Tidy(isds_get_box_state_history) /\ Tidy(isds_get_list_of_messages)
      /\ Tidy(isds_get_list_of_sent_message_state_changes)
    BY DEF Tidy, isds_get_box_state_history, Listing, Plain, isds_get_list_of_messages,
      isds_get_list_of_sent_message_state_changes
<1>6. /\ Tidy(isds_send_message) /\ Tidy(isds_CreateBigMessage)
    BY DEF Tidy, isds_send_message, Sending, Describing, Plain, isds_CreateBigMessage
<1>7. /\ Tidy(isds_DownloadAttachment) /\ Tidy(isds_DownloadAttachment_mtomxop)
      /\ Tidy(isds_delete_message_from_storage) /\ Tidy(isds_GetListOfErasedMessages_interval)
      /\ Tidy(isds_GetListOfErasedMessages_month) /\ Tidy(isds_GetListOfErasedMessages_year)
    BY DEF Tidy, isds_DownloadAttachment, Asking, Plain,
      isds_DownloadAttachment_mtomxop, isds_delete_message_from_storage,
      isds_GetListOfErasedMessages_interval, isds_GetListOfErasedMessages_month,
      isds_GetListOfErasedMessages_year
<1>8. /\ Tidy(isds_get_received_envelope) /\ Tidy(isds_get_received_message)
      /\ Tidy(isds_BigMessageDownload) /\ Tidy(isds_get_message_sender)
      /\ Tidy(isds_GetMessageAuthor2) /\ Tidy(isds_download_message_hash)
      /\ Tidy(isds_mark_message_read) /\ Tidy(isds_mark_message_received)
    BY DEF Tidy, isds_get_received_envelope, OfMessage, Asking, Plain,
      isds_get_received_message, isds_BigMessageDownload, isds_get_message_sender,
      isds_GetMessageAuthor2, isds_download_message_hash, isds_mark_message_read,
      isds_mark_message_received
<1>9. /\ Tidy(isds_get_signed_delivery_info) /\ Tidy(isds_get_delivery_info)
      /\ Tidy(isds_get_signed_message) /\ Tidy(isds_get_signed_big_message)
      /\ Tidy(isds_get_signed_big_message_mtomxop) /\ Tidy(isds_verify_message_hash)
    BY DEF Tidy, isds_get_signed_delivery_info, Loading, OfMessage, Asking, Plain,
      isds_get_delivery_info, isds_get_signed_message, isds_get_signed_big_message,
      isds_get_signed_big_message_mtomxop, isds_verify_message_hash
<1> QED BY <1>1, <1>2, <1>3, <1>4, <1>5, <1>6, <1>7, <1>8, <1>9 DEF LibraryApi, LeavesPartial

\* In the library an extraction that breaks off leaves half an output only in
\* the functions of LeavesPartial.
THEOREM PartialOnlyThere == Api = LibraryApi => (Spec => []NothingPartial)
<1> SUFFICES ASSUME Api = LibraryApi PROVE Spec => []NothingPartial
  OBVIOUS
<1>1. TypeOK /\ (Returned /\ out = "partial" => ~Tidy(Row)) => NothingPartial
  <2>1. TypeOK => call.f \in DOMAIN LibraryApi BY DEF TypeOK
  <2>2. Row = LibraryApi[call.f] BY DEF Row
  <2> QED BY <2>1, <2>2, LibraryIsTidy DEF NothingPartial
<1> QED BY <1>1, HalfOnlyUntidy, ServiceTypeCorrect, PTL

=============================================================================
