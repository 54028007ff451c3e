------------------------------ MODULE IsdsSoap ------------------------------
(***************************************************************************)
(* The context of the library and its SOAP layer (src/src/soap.c): the     *)
(* exchange of HTTP requests that _isds_soap() and _isds_soap_vodz() run   *)
(* for one API call, with the redirects of the one-time password and       *)
(* mobile key authentication.  IsdsSession adds the API calls.             *)
(*                                                                         *)
(* The library is synchronous: call.pc says how far the call in progress   *)
(* is.  A call begins when call.pc = "idle", passes through one or more    *)
(* HTTP exchanges ("http"), looks at each answer ("code", "body") and      *)
(* returns ("done" -> "idle").  Between any two of these steps the user    *)
(* may acknowledge a mobile key login, or the server end a session.        *)
(***************************************************************************)
EXTENDS IsdsServer, Integers

CONSTANTS
    OtpMethods,     \* methods the application may put into struct isds_otp
    MepKinds,       \* isds_login_mep ("BASIC"), isds_login_mep2 ("EXTENDED")
    AllocFails      \* may an allocation of the library fail?

ASSUME MethodAssumption == OtpMethods \subseteq {"HOTP", "TOTP", "undefined"}
ASSUME KindAssumption == MepKinds \subseteq {"BASIC", "EXTENDED"}
ASSUME AllocAssumption == AllocFails \in BOOLEAN

VARIABLES
    ctx,        \* struct isds_ctx
    curl,       \* its CURL handle, whose options outlive a request
    appOtp,     \* the application's struct isds_otp
    appMep,     \* the application's struct isds_mep
    call,       \* the API call in progress, or the last one and its result
    reply,      \* the HTTP answer being processed
    srv         \* the server's sessions

vars == <<ctx, curl, appOtp, appMep, call, reply, srv>>

-----------------------------------------------------------------------------
Err == {"SUCCESS", "PARTIAL", "INVAL", "INVALID_CONTEXT", "ENUM", "NOMEM",
        "ERROR", "NETWORK", "ABORTED", "CLOSED", "NOT_LOGGED_IN", "HTTP",
        "SOAP", "XML", "ISDS"}
Url == Location \cup {None}
MepResolution == {"SUCCESS", "UNKNOWN", "UNRECOGNISED", "ACK_REQUESTED",
                  "ACK", "ACK_EXPIRED"}
Op == {"none", "login", "loginMep", "logout", "free", "service", "vodz",
       "changePassword", "requestTotp", "CZP", "TESTING"}
Pc == {"idle", "http", "code", "body", "done", "freed"}

Context ==
    [type : {"NONE", "ISDS", "CZP", "TESTING"},
     url : Url, vurl : Url,             \* url and url_vodz
     cred : Credentials,                \* username, password, pki_credentials
     savedUser : BOOLEAN,               \* saved_username
     otp : BOOLEAN,                     \* otp
     otpCred : BOOLEAN,                 \* otp_credentials # NULL
     mep : {"NONE", "BASIC", "EXTENDED"},
     mepCred : BOOLEAN]                 \* mep_credentials # NULL

Handle == [open : BOOLEAN, auth : Credentials, engine : BOOLEAN,
           jar : Cookie \cup {None}]

OtpArgument == [method : OtpMethods, code : BOOLEAN, res : OtpResolution]
MepArgument == [kind : MepKinds, uri : BOOLEAN, res : MepResolution]
Call == [op : Op, pc : Pc, to : Url, savedUrl : Url, again : BOOLEAN, err : Err]

NewContext == [type |-> "NONE", url |-> None, vurl |-> None,
               cred |-> NoCredentials, savedUser |-> FALSE, otp |-> FALSE,
               otpCred |-> FALSE, mep |-> "NONE", mepCred |-> FALSE]
Closed == [open |-> FALSE, auth |-> NoCredentials, engine |-> FALSE, jar |-> None]
Opened == [Closed EXCEPT !.open = TRUE]
NoReply == Page(200, "none")
At(pc, op, err) == [op |-> op, pc |-> pc, to |-> None, savedUrl |-> None,
                    again |-> FALSE, err |-> err]

TypeOK ==
    /\ ctx \in Context
    /\ curl \in Handle
    /\ appOtp \in OtpArgument
    /\ appMep \in MepArgument
    /\ call \in Call
    /\ reply \in Reply
    /\ srv \in [Cookie -> SessionState]

-----------------------------------------------------------------------------
\* Shared steps of the calls.

Idle == call.pc = "idle"

Return(op, err) == call' = At("idle", op, err) /\ reply' = NoReply

\* Start the exchanges of _isds_soap(): the request goes to url first.
Send(op, url, saved) ==
    /\ call' = [At("http", op, "SUCCESS") EXCEPT !.to = url, !.savedUrl = saved]
    /\ reply' = NoReply

\* _isds_discard_credentials()
Discard_KeepsPassword(c, savedToo) ==   \* the password is forgotten
    [c EXCEPT !.cred.user = FALSE, !.cred.pki = FALSE, !.savedUser = @ /\ ~savedToo]
Discard(c, savedToo) ==
    [c EXCEPT !.cred = NoCredentials, !.savedUser = @ /\ ~savedToo]

-----------------------------------------------------------------------------
\* http(): one request and its answer.

\* The intermediate URI of a mobile key login is polled with GET and without
\* the credentials being set.
Soap == call.op \notin {"logout", "free"}
Polling == ctx.mepCred /\ appMep.uri
Target == IF Soap /\ Polling THEN "mepState" ELSE call.to

\* The options set on the handle for this request; those of earlier requests
\* stay where no new value is set.
SetOptions ==
    LET set == ctx.cred IN
    [curl EXCEPT
        !.auth = [user |-> @.user \/ (~Polling /\ set.user),
                  pass |-> IF Polling \/ set.pass = "none" THEN @.pass ELSE set.pass,
                  pki  |-> @.pki \/ set.pki],
        !.engine = @ \/ ctx.otp \/ ctx.mep # "NONE"]

Receive(handle, r) ==
    [handle EXCEPT !.jar = IF handle.engine /\ r.cookie # None THEN r.cookie ELSE @]

\* What the server may do with the request; it never gets one without a URL.
Exchanges ==
    IF Target = None THEN {}
    ELSE Answers(Target, SetOptions.auth, SetOptions.jar, ctx.mep, srv)

HttpAnswered ==
    /\ call.pc = "http"
    /\ \E x \in Exchanges :
        /\ reply' = x[1]
        /\ srv' = x[2]
        /\ curl' = Receive(SetOptions, x[1])
    /\ call' = [call EXCEPT !.pc = "code"]
    /\ UNCHANGED <<ctx, appOtp, appMep>>

\* A transport failure, before or after the server has processed the
\* request, closes the connection.
HttpFailed ==
    /\ call.pc = "http"
    /\ curl' = Closed
    /\ srv' \in {srv} \cup {x[2] : x \in Exchanges}
    /\ call' = [call EXCEPT !.pc = "done", !.err = "NETWORK"]
    /\ UNCHANGED <<ctx, appOtp, appMep, reply>>

\* The application's progress callback aborts the transfer, before or after
\* the answer's headers are read: the connection is kept.
HttpAborted ==
    /\ call.pc = "http"
    /\ \/ curl' = SetOptions /\ srv' = srv
       \/ \E x \in Exchanges :
            /\ srv' = x[2]
            /\ curl' \in {SetOptions, Receive(SetOptions, x[1])}
    /\ call' = [call EXCEPT !.pc = "done", !.err = "ABORTED"]
    /\ UNCHANGED <<ctx, appOtp, appMep, reply>>

-----------------------------------------------------------------------------
\* _isds_soap(): what the HTTP code means.  One-time credentials take
\* precedence over mobile key credentials where both are attached.

Otp == ctx.otpCred
Mep == ctx.mepCred /\ ~Otp

Coded(http) == call.pc = "code" /\ Soap /\ reply.http \in http

\* The authentication headers are only read from the first answer of the
\* call: the mark that they are complete is never taken back.
HeaderResolution == IF call.again THEN "UNKNOWN" ELSE reply.code

Resolve_Early(res) ==   \* success is assumed before the HTTP code is known
    appOtp' = IF Otp THEN [appOtp EXCEPT !.res = IF res = "UNKNOWN" THEN "SUCCESS" ELSE res]
              ELSE appOtp
Resolve(res) == appOtp' = IF Otp THEN [appOtp EXCEPT !.res = res] ELSE appOtp

OtpSucceeded == IF HeaderResolution = "UNKNOWN" THEN "SUCCESS" ELSE HeaderResolution

Finish(err) == call' = [call EXCEPT !.pc = "done", !.err = err]
Redirect(url) == call' = [call EXCEPT !.pc = "http", !.to = url, !.again = TRUE]
ReadBody == call' = [call EXCEPT !.pc = "body"]

\* 200 to a request without mobile key credentials.
AnswerOk ==
    /\ Coded({200})
    /\ ~Mep
    /\ Resolve(OtpSucceeded)
    /\ ReadBody
    /\ UNCHANGED <<ctx, curl, appMep, reply, srv>>

\* The status of a mobile key login in a 200 answer, and its resolution.
MepStatusValue ==
    IF reply.body \in (IF ctx.mep = "BASIC" THEN NumericStatus ELSE JsonStatus)
    THEN reply.body ELSE "UNKNOWN"

MepStatusResolution_Raw(s) == s     \* the status is taken for the resolution
MepStatusResolution(s) ==
    CASE s \in {"1", "WAIT_TO_SEND", "SENT", "NOTIF", "LAUNCHED", "SENDING_FAIL"} -> "ACK_REQUESTED"
      [] s \in {"2", "ACK"}           -> "ACK"
      [] s \in {"3", "EXPIRED"}       -> "ACK_EXPIRED"
      [] s \in {"-1", "UNRECOGNISED"} -> "UNRECOGNISED"
      [] OTHER                        -> "UNKNOWN"

MepPending_Expired(s) ==    \* an expired login is polled on
    s \in {"1", "3", "WAIT_TO_SEND", "SENT", "NOTIF", "LAUNCHED", "EXPIRED"}
MepPending(s) == s \in {"1", "WAIT_TO_SEND", "SENT", "NOTIF", "LAUNCHED"}

\* Still waiting for the user: the application polls again.
MepWait ==
    /\ Coded({200})
    /\ Mep
    /\ MepPending(MepStatusValue)
    /\ appMep' = [appMep EXCEPT !.res = MepStatusResolution(MepStatusValue)]
    /\ Finish("PARTIAL")
    /\ UNCHANGED <<ctx, curl, appOtp, reply, srv>>

\* Acknowledged: the login is finished at the URL it was started at.
MepAcknowledged_KeepsUri == \* the intermediate URI is not freed
    /\ Coded({200})
    /\ Mep
    /\ MepStatusResolution(MepStatusValue) = "ACK"
    /\ appMep' = [appMep EXCEPT !.res = "ACK"]
    /\ Redirect(call.to)
    /\ UNCHANGED <<ctx, curl, appOtp, reply, srv>>
MepAcknowledged ==
    /\ Coded({200})
    /\ Mep
    /\ MepStatusResolution(MepStatusValue) = "ACK"
    /\ appMep' = [appMep EXCEPT !.res = "ACK", !.uri = FALSE]
    /\ Redirect(call.to)
    /\ UNCHANGED <<ctx, curl, appOtp, reply, srv>>

\* Refused, expired, not delivered or not understood.
MepFailed ==
    /\ Coded({200})
    /\ Mep
    /\ ~MepPending(MepStatusValue)
    /\ MepStatusResolution(MepStatusValue) # "ACK"
    /\ appMep' = [appMep EXCEPT !.res = MepStatusResolution(MepStatusValue), !.uri = FALSE]
    /\ Finish("NOT_LOGGED_IN")
    /\ UNCHANGED <<ctx, curl, appOtp, reply, srv>>

\* unset_http_authorization()
UnsetAuthorization_UserOnly(handle) == [handle EXCEPT !.auth.user = FALSE]
UnsetAuthorization(handle) ==
    [handle EXCEPT !.auth.user = FALSE, !.auth.pass = "none"]

\* 302 in the second phase of an OTP login: go on by cookie alone.
OtpRedirect ==
    /\ Coded({302})
    /\ Otp
    /\ appOtp.code /\ reply.to # None
    /\ Resolve(OtpSucceeded)
    /\ ctx' = Discard(ctx, FALSE)
    /\ curl' = UnsetAuthorization(curl)
    /\ Redirect(reply.to)
    /\ UNCHANGED <<appMep, reply, srv>>

\* 302 in the first phase of a TOTP login: the application must get the code.
OtpCodeNeeded ==
    /\ Coded({302})
    /\ Otp
    /\ ~(appOtp.code /\ reply.to # None)
    /\ Resolve(OtpSucceeded)
    /\ Finish("PARTIAL")
    /\ UNCHANGED <<ctx, curl, appMep, reply, srv>>

\* First 302 of a mobile key login: it names the URI to poll.
MepRequested ==
    /\ Coded({302})
    /\ Mep
    /\ appMep.res = "UNKNOWN"
    /\ ~appMep.uri /\ reply.to # None
    /\ appMep' = [appMep EXCEPT !.res = "ACK_REQUESTED", !.uri = TRUE]
    /\ Redirect(call.to)
    /\ UNCHANGED <<ctx, curl, appOtp, reply, srv>>

\* 302 to the request that finishes an acknowledged login.
MepLoggedIn_AnyRedirect ==  \* the acknowledgement is not looked at
    /\ Coded({302})
    /\ Mep
    /\ appMep' = [appMep EXCEPT !.res = "SUCCESS"]
    /\ Finish("SUCCESS")
    /\ UNCHANGED <<ctx, curl, appOtp, reply, srv>>
MepLoggedIn ==
    /\ Coded({302})
    /\ Mep
    /\ appMep.res = "ACK"
    /\ appMep' = [appMep EXCEPT !.res = "SUCCESS"]
    /\ Finish("SUCCESS")
    /\ UNCHANGED <<ctx, curl, appOtp, reply, srv>>

\* Any other 302 during a mobile key login is read as if it were an answer.
MepStrayRedirect ==
    /\ Coded({302})
    /\ Mep
    /\ appMep.res # "ACK"
    /\ appMep.res = "UNKNOWN" => appMep.uri \/ reply.to = None
    /\ appMep' = [appMep EXCEPT !.res = IF @ = "UNKNOWN" THEN "ACK_REQUESTED" ELSE @]
    /\ ReadBody
    /\ UNCHANGED <<ctx, curl, appOtp, reply, srv>>

\* The other codes: a redirect nobody asked for, a mobile key code that is
\* not recognised, failed authentication, a missing document.
CodeError ==
    CASE reply.http \in {401, 403} -> "NOT_LOGGED_IN"
      [] reply.http = 400          -> "NOT_LOGGED_IN"
      [] OTHER                     -> "HTTP"

AnswerRefused ==
    /\ \/ Coded({302}) /\ ~Otp /\ ~Mep
       \/ Coded({401, 403, 404})
       \/ Coded({400}) /\ ctx.mepCred
    /\ Resolve(HeaderResolution)
    /\ appMep' = IF reply.http = 400 THEN [appMep EXCEPT !.res = "UNRECOGNISED", !.uri = FALSE]
                 ELSE appMep
    /\ Finish(CodeError)
    /\ UNCHANGED <<ctx, curl, reply, srv>>

\* 500 and the remaining 400 answers are read like a 200 one.
AnswerOther ==
    /\ Coded({400, 500})
    /\ reply.http = 400 => ~ctx.mepCred
    /\ Resolve(HeaderResolution)
    /\ ReadBody
    /\ UNCHANGED <<ctx, curl, appMep, reply, srv>>

\* The MIME type is checked and the SOAP envelope opened.
BodyResult ==
    CASE reply.body \in {"soap", "refused"} -> "SUCCESS"
      [] reply.body = "none"                -> "XML"
      [] OTHER                              -> "SOAP"

BodyRead ==
    /\ call.pc = "body"
    /\ Finish(BodyResult)
    /\ UNCHANGED <<ctx, curl, appOtp, appMep, reply, srv>>

Exchange == HttpAnswered \/ HttpFailed \/ HttpAborted

Answer ==
    \/ AnswerOk \/ MepWait \/ MepAcknowledged \/ MepFailed
    \/ OtpRedirect \/ OtpCodeNeeded
    \/ MepRequested \/ MepLoggedIn \/ MepStrayRedirect
    \/ AnswerRefused \/ AnswerOther \/ BodyRead

=============================================================================
