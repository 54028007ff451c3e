---------------------------- MODULE ServiceCalls ----------------------------
(***************************************************************************)
(* One call of a service function of the library after another on one      *)
(* context: arguments, connection, request, answer, status, extraction,    *)
(* cleaning up.  Some seventy functions of isds.c are written out by hand  *)
(* along this line; Api says for each of them which steps it takes and in  *)
(* which way (ServiceApi.tla has the table).                               *)
(*                                                                         *)
(* What the application holds is kept relative to the last call, so that   *)
(* the number of calls needs no bound: the output of a function is of      *)
(* "this" call, of an "earlier" call, or was left behind half-written      *)
(* ("partial").  Output variables are passed back to the function that     *)
(* filled them, which all of them allow; the function of another call is   *)
(* given a fresh one.                                                      *)
(***************************************************************************)

CONSTANT Api    \* [name of a function -> Row]

Success == "IE_SUCCESS"
Missing == "missing"       \* no status code in the answer
Pointer == "pointer"       \* bytes of a pointer, where a code should be
NoAnswer == "no answer"    \* the service has not answered

\* What building a request, and a service's code, may turn into.
Error == {"IE_INVAL", "IE_ENUM", "IE_ERROR", "IE_ISDS", "IE_NONEXIST",
          "IE_TOO_BIG", "IE_TOO_SMALL", "IE_PARTIAL_SUCCESS", "IE_NOTUNIQ", "IE_DATE",
          "IE_NOTEQUAL", "IE_CONNECTION_CLOSED", "IE_NETWORK", "IE_ABORTED",
          "IE_SOAP"}

\* Exchanges that fail: http() closes the connection unless the application
\* aborted the transfer; a response that came but cannot be used keeps it.
KeptOpen == {"IE_ABORTED", "IE_SOAP", "IE_ISDS"}

RowOk(r) ==
  /\ r.resets \in {"early", "reading", "never"}      \* the output variable
  /\ r.connects \in {"first", "late", "self"}        \* context->curl is looked at before
                                                     \* the request is built, after, or opened
  /\ r.faults \subseteq Error                        \* while the request is built
  /\ r.builds \in {"code", "pointer", "none"}        \* what context->status gets
  /\ r.checked \in BOOLEAN                           \* is a failed exchange noticed
  /\ r.reads \in {"nothing", "element", "data", "list", "value", "verdict"}
  /\ r.writes \in {"asRead", "whole"}
  /\ r.frees \in BOOLEAN                             \* the output, on error
  /\ r.loads \in BOOLEAN                             \* by another public function
  /\ r.refs \in BOOLEAN                              \* hands over refnumber
  /\ \A c \in DOMAIN r.codes : r.codes[c] \in Error  \* codes known to it
  /\ r.goesOn \subseteq DOMAIN r.codes               \* codes that come with data
  /\ ~r.checked => r.reads # "nothing" /\ r.goesOn = {}
  /\ DOMAIN r.codes \cap {"0000", Missing, NoAnswer} = {}
  /\ \A c \in r.goesOn :                             \* told from any failure
       /\ r.codes[c] \in {"IE_TOO_BIG", "IE_PARTIAL_SUCCESS"} \ r.faults
       /\ \A d \in DOMAIN r.codes \ r.goesOn : r.codes[d] # r.codes[c]

ASSUME ApiAssumption == \A f \in DOMAIN Api : RowOk(Api[f])

Codes(r) ==
  IF r.builds = "none" THEN {"0000"}
  ELSE {"0000", "other", Missing} \cup DOMAIN r.codes

Bodies(r) ==
  CASE r.reads = "nothing" -> {"whole"}
    [] r.reads = "verdict" -> {"whole", "refuted", "broken", "missing"}
    [] OTHER               -> {"whole", "broken", "empty", "missing"}

\* What the data that follow such a code are handed over with.
Accepted(r) == {r.codes[c] : c \in r.goesOn}

VARIABLES
  curl,     \* context->curl
  status,   \* context->status, isds_operation_status()
  out,      \* the output variable of the function called last
  ref,      \* the application's reference number
  call      \* the call under way, or the last one

vars == <<curl, status, out, ref, call>>

Output == {"none", "partial", "this", "earlier"}
NoStatus == [built |-> FALSE, code |-> Missing]
Status(c) == [built |-> TRUE, code |-> c]

\* fault is the failure the call met first (a history variable).
NewCall(f) == [f |-> f, pc |-> "request", err |-> Success, fault |-> Success,
               code |-> NoAnswer, body |-> "whole", response |-> FALSE]
Ended(f, e) == [NewCall(f) EXCEPT !.pc = "returned", !.err = e, !.fault = e]

Init ==
  /\ curl = FALSE
  /\ status = NoStatus
  /\ out = "none"
  /\ ref = "none"
  /\ call \in {[NewCall(f) EXCEPT !.pc = "idle"] : f \in DOMAIN Api}

Row == Api[call.f]
Idle == call.pc \in {"idle", "returned"}

(***************************************************************************)
(* Between calls                                                           *)
(***************************************************************************)

Rest == [NewCall(call.f) EXCEPT !.pc = "idle"]

\* isds_login() and its like open the connection anew, isds_logout() closes it.
\* One that fails leaves it open or closed, as the other of the two does.
Login == Idle /\ curl' = TRUE /\ status' = NoStatus /\ call' = Rest /\ UNCHANGED <<out, ref>>
Logout == Idle /\ curl' = FALSE /\ status' = NoStatus /\ call' = Rest /\ UNCHANGED <<out, ref>>

(***************************************************************************)
(* The call                                                                *)
(***************************************************************************)

Older(held) == IF held = "none" THEN "none" ELSE "earlier"

\* The variable the application passes to f: the one f filled before, or none.
Given(f) == {"none"} \cup (IF call.f = f THEN {Older(out)} ELSE {})

\* Mutant: an old list is not freed before the call.
ResetEarly_Kept(r, given) == given

ResetEarly(r, given) == IF r.resets = "early" THEN "none" ELSE given

\* Mutant: the status of the call before is left.
Entered_OldStatus(f) == Idle /\ status' = status /\ ref' \in {"none", Older(ref)}

\* Every function begins with this.
Entered(f) == Idle /\ status' = NoStatus /\ ref' \in {"none", Older(ref)}

\* An argument is missing.  The output may be reset before another argument
\* is looked at.
Refused(f) ==
  /\ Entered(f)
  /\ \E given \in Given(f) : out' \in {given, ResetEarly(Api[f], given)}
  /\ call' = Ended(f, "IE_INVAL")
  /\ UNCHANGED curl

Disconnected(f) ==
  /\ Api[f].connects = "first" /\ ~curl
  /\ Entered(f)
  /\ \E given \in Given(f) : out' = ResetEarly(Api[f], given)
  /\ call' = Ended(f, "IE_CONNECTION_CLOSED")
  /\ UNCHANGED curl

Begin(f) ==
  /\ Api[f].connects = "first" => curl
  /\ Entered(f)
  /\ \E given \in Given(f) : out' = ResetEarly(Api[f], given)
  /\ call' = NewCall(f)
  /\ UNCHANGED curl

\* Something the application asks for cannot be put into the request.
RequestFails ==
  /\ call.pc = "request"
  /\ \E e \in Row.faults : call' = [call EXCEPT !.pc = "leave", !.err = e, !.fault = e]
  /\ UNCHANGED <<curl, status, out, ref>>

\* Mutant: send_destroy_request_check_response() frees only what it could not read.
Exchanged_ResponseKept(e, c, b) ==
  LET ok == e = Success \/ c \in Row.goesOn IN
  call' = [f |-> call.f, pc |-> IF ok \/ ~Row.checked THEN "extract" ELSE "leave",
           err |-> e, fault |-> IF ok THEN Success ELSE e,
           code |-> c, body |-> b, response |-> c # NoAnswer]

\* The exchange has ended with e.  On error the response is gone; most
\* functions then leave, some overwrite err with what they extract from it.
Exchanged(e, c, b) ==
  LET ok == e = Success \/ c \in Row.goesOn IN
  call' = [f |-> call.f, pc |-> IF ok \/ ~Row.checked THEN "extract" ELSE "leave",
           err |-> e, fault |-> IF ok THEN Success ELSE e,
           code |-> c, body |-> b, response |-> ok]

\* send_destroy_request_check_response() finds the connection closed.
FoundClosed ==
  /\ call.pc = "request" /\ Row.connects = "late" /\ ~curl
  /\ Exchanged("IE_CONNECTION_CLOSED", NoAnswer, "whole")
  /\ UNCHANGED <<curl, status, out, ref>>

Connected == Row.connects = "self" \/ curl

TransportFails ==
  /\ call.pc = "request" /\ Connected
  /\ \/ Exchanged("IE_NETWORK", NoAnswer, "whole") /\ curl' = (Row.connects = "self" /\ curl)
     \/ \E e \in KeptOpen : Exchanged(e, NoAnswer, "whole") /\ UNCHANGED curl
  /\ UNCHANGED <<status, out, ref>>

\* Mutant: the code itself is returned where a meaning is expected.
ErrorOf_Code(r, c) == IF c \in DOMAIN r.codes THEN c ELSE "IE_ISDS"

ErrorOf(r, c) ==
  IF c \in DOMAIN r.codes THEN r.codes[c]
  ELSE IF c = "0000" THEN Success ELSE "IE_ISDS"

StatusBuilt(r, c) ==
  CASE r.builds = "code" -> Status(c)
    [] r.builds = "pointer" -> Status(Pointer)
    [] r.builds = "none" -> status

\* Mutant: the old reference number is freed only if there is a new one.
Answered_OldNumber ==
  /\ call.pc = "request" /\ Connected
  /\ \E c \in Codes(Row), b \in Bodies(Row) :
       /\ status' = StatusBuilt(Row, c)
       /\ Exchanged(ErrorOf(Row, c), c, b)
       /\ IF Row.refs /\ c # Missing THEN ref' \in {ref, "this"} ELSE ref' = ref
  /\ UNCHANGED <<curl, out>>

\* The reference number is replaced even by none.
Answered ==
  /\ call.pc = "request" /\ Connected
  /\ \E c \in Codes(Row), b \in Bodies(Row) :
       /\ status' = StatusBuilt(Row, c)
       /\ Exchanged(ErrorOf(Row, c), c, b)
       /\ IF Row.refs THEN ref' \in (IF c = Missing THEN {"none"} ELSE {"none", "this"})
                      ELSE ref' = ref
  /\ UNCHANGED <<curl, out>>

(***************************************************************************)
(* Extraction: the result, and what is then in the output variable         *)
(***************************************************************************)

Blank(r) == IF r.resets = "reading" THEN "none" ELSE out
Half(r) == IF r.writes = "asRead" THEN {"partial"} ELSE {}

Outcomes(r) ==
  IF r.reads = "nothing" THEN {<<Success, out>>}
  ELSE IF ~call.response THEN {<<"IE_INVAL", Blank(r)>>}
  ELSE CASE call.body = "missing" ->
              IF r.reads \in {"list", "value"} THEN {<<Success, Blank(r)>>} ELSE {<<"IE_ISDS", out>>}
         [] call.body = "empty" ->
              IF r.reads = "data" THEN {<<"IE_ISDS", Blank(r)>>} ELSE {<<Success, Blank(r)>>}
         [] call.body = "broken" -> {"IE_ISDS", "IE_ERROR"} \X ({Blank(r)} \cup Half(r))
         [] call.body = "refuted" -> {<<"IE_NOTEQUAL", out>>}
         [] call.body = "whole" -> {<<Success, IF r.reads = "verdict" THEN out ELSE "this">>}

\* Mutant: what the code said hides that the data could not be read.
Extracted_CodeWins(o) ==
  /\ out' = o[2]
  /\ call' = [call EXCEPT !.pc = "leave",
                          !.err = IF @ # Success /\ Row.checked THEN @ ELSE o[1],
                          !.fault = IF @ = Success THEN o[1] ELSE @]

\* A function that does not look at the result of the exchange returns the
\* result of the extraction, whatever it is.
Extracted(o) ==
  /\ out' = o[2]
  /\ call' = [call EXCEPT !.pc = "leave",
                          !.err = IF o[1] = Success /\ Row.checked THEN @ ELSE o[1],
                          !.fault = IF @ = Success THEN o[1] ELSE @]

\* A document is handed on to the function that loads it; what is inside it
\* does not show until then.
Handed == Row.loads /\ call.response /\ call.body \in {"whole", "refuted", "broken"}

Extract ==
  /\ call.pc = "extract"
  /\ \E o \in Outcomes(Row) : Extracted(o) /\ (Handed => call.body = "broken" /\ o[2] # "partial")
  /\ UNCHANGED <<curl, status, ref>>

\* The loading function is a public one and clears context->status.  It may
\* fail for reasons of its own, a signature for instance.
Load ==
  /\ call.pc = "extract" /\ Handed
  /\ status' = NoStatus
  /\ \E o \in Outcomes(Row) \cup {<<"IE_ERROR", out>>} : Extracted(o)
  /\ UNCHANGED <<curl, ref>>

Leave ==
  /\ call.pc = "leave"
  /\ out' = IF Row.frees /\ call.err \notin {Success} \cup Accepted(Row) THEN "none" ELSE out
  /\ call' = [call EXCEPT !.pc = "returned"]
  /\ UNCHANGED <<curl, status, ref>>

Enter == \E f \in DOMAIN Api : Refused(f) \/ Disconnected(f) \/ Begin(f)

Next ==
  \/ Login \/ Logout
  \/ Enter
  \/ RequestFails \/ FoundClosed \/ TransportFails \/ Answered
  \/ Extract \/ Load \/ Leave

Spec == Init /\ [][Next]_vars

(***************************************************************************)
(* Properties of every function                                            *)
(***************************************************************************)

AnyCode == {"0000", "other", Missing} \cup UNION {DOMAIN Api[f].codes : f \in DOMAIN Api}

\* The type invariant.
TypeOK ==
  /\ curl \in BOOLEAN
  /\ status \in [built : BOOLEAN, code : AnyCode \cup {Pointer}]
  /\ out \in Output
  /\ ref \in {"none", "this", "earlier"}
  /\ call \in [f : DOMAIN Api, pc : {"idle", "request", "extract", "leave", "returned"},
               err : {Success} \cup Error, fault : {Success} \cup Error,
               code : AnyCode \cup {NoAnswer},
               body : {"whole", "broken", "empty", "missing", "refuted"}, response : BOOLEAN]

Returned == call.pc = "returned"
Answer == call.code # NoAnswer

\* A function that reports success has the server's agreement: the answer to
\* this very call came, with the code 0000, and nothing failed on the way.
\* The functions that do not look at the result of the exchange depend for
\* this on send_destroy_request_check_response() freeing the response.
SuccessIsServers ==
  Returned /\ call.err = Success => call.code = "0000" /\ call.fault = Success

\* An error is the one the call met first: nothing that is done after a
\* failure hides it.  The functions that do not look at the result of the
\* exchange are left out: they answer every failure with IE_INVAL.
FailureIsItsOwn ==
  Returned /\ Row.checked =>
    \/ call.err = call.fault
    \/ call.fault = Success /\ call.err \in Accepted(Row)

\* With success, or with a code that comes with data, the output is what this
\* answer said and all of it: nothing kept from the call before.  A function
\* that neither resets its output nor insists on the value is left out.
OutputIsOwn ==
  Returned /\ call.err \in {Success} \cup Accepted(Row)
           /\ Row.reads \notin {"nothing", "verdict"}
           /\ (Row.resets = "never" => Row.reads = "data") =>
    out \in {"none", "this"}

\* context->status describes the answer to the call that returned, and is
\* empty if there was none.  Left out: the functions that convert the address
\* of the code instead of the code, and those that load what they downloaded.
StatusIsServers ==
  Returned /\ Row.builds = "code" /\ ~Row.loads =>
    status = IF Answer THEN Status(call.code) ELSE NoStatus

\* The reference number in the application's hands is never that of an earlier
\* request once this one is answered, and is never made up without an answer.
RefIsOwn ==
  Returned => /\ Row.refs /\ Answer => ref # "earlier"
              /\ ref = "this" => Row.refs /\ Answer /\ call.code # Missing

=============================================================================
