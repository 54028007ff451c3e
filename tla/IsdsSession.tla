---------------------------- MODULE IsdsSession -----------------------------
(***************************************************************************)
(* The API calls that establish, use and end a session: isds_login(),      *)
(* isds_login_mep(), isds_login_mep2(), the web services, the anonymous    *)
(* services, isds_change_password(), isds_logout(), isds_ctx_free(); with  *)
(* the application that makes the calls and the user who acknowledges a    *)
(* mobile key login.  The build modelled is the default one, without       *)
(* HAVE_CURL_REAUTHORIZATION_BUG.                                          *)
(***************************************************************************)
EXTENDS IsdsSoap

Init ==
    /\ ctx = NewContext
    /\ curl = Closed
    /\ appOtp \in [method : OtpMethods, code : {FALSE}, res : {"UNKNOWN"}]
    /\ appMep \in [kind : MepKinds, uri : {FALSE}, res : {"UNKNOWN"}]
    /\ call = At("idle", "none", "SUCCESS")
    /\ reply = NoReply
    /\ srv = [c \in Cookie |-> "unused"]

\* _isds_store_credentials(): the password gets the one-time code appended
\* when one-time credentials are attached, the user name is also saved in an
\* OTP context unless it is the saved one itself.
Store(c, user, pass, pki, isSavedUser) ==
    [c EXCEPT !.cred = [user |-> user,
                        pass |-> IF ~pass THEN "none"
                                 ELSE IF c.otpCred /\ appOtp.code THEN "otp" ELSE "plain",
                        pki  |-> pki],
              !.savedUser = @ \/ (user /\ c.otp /\ ~isSavedUser)]

-----------------------------------------------------------------------------
\* isds_login()

\* The context after the connection settings of the previous session are
\* dropped.
Reset == [ctx EXCEPT !.type = "ISDS", !.url = None, !.vurl = None]

LoginUrl(pki, withOtp) ==
    IF pki \/ ~withOtp THEN "base"
    ELSE IF appOtp.method = "HOTP" THEN "hotp"
    ELSE IF appOtp.code THEN "totp" ELSE "sendsms"

\* Both user name and password are needed without a certificate.
LoginMissingPassword ==
    /\ Idle
    /\ curl' = Closed
    /\ ctx' = Reset
    /\ Return("login", "INVAL")
    /\ UNCHANGED <<appOtp, appMep, srv>>

LoginUnknownMethod ==
    /\ Idle
    /\ appOtp.method = "undefined"
    /\ curl' = Closed
    /\ ctx' = [Reset EXCEPT !.otp = TRUE, !.otpCred = TRUE]
    /\ appOtp' = [appOtp EXCEPT !.res = "UNKNOWN"]
    /\ Return("login", "ENUM")
    /\ UNCHANGED <<appMep, srv>>

\* The context as isds_login() has configured it for the first request.
LoginConfigured(pki, withOtp) ==
    LET otp == ~pki /\ withOtp IN
    [Reset EXCEPT !.otp = otp, !.otpCred = otp,
                  !.url = LoginUrl(pki, withOtp), !.vurl = "base"]

LoginArguments ==
    {a \in [pki : BOOLEAN, user : BOOLEAN, pass : BOOLEAN, otp : BOOLEAN] :
        /\ ~a.pki => a.user /\ a.pass
        /\ a.pki => ~a.otp
        /\ ~a.user => ~a.pass
        /\ a.otp => appOtp.method # "undefined"}

\* An allocation fails on the way to the first request: a URL is missing, the
\* handle or the request cannot be built, or the credentials not be stored.
LoginOutOfMemory ==
    /\ Idle
    /\ AllocFails
    /\ \E a \in LoginArguments :
        LET c == LoginConfigured(a.pki, a.otp) IN
        /\ \/ /\ \E u \in {None, c.url}, v \in {None, c.vurl} :
                    /\ u = None \/ v = None
                    /\ a.otp /\ u = None => v = None
                    /\ ctx' = [c EXCEPT !.url = u, !.vurl = v]
              /\ curl' = Closed
              /\ Return("login", "NOMEM")
           \/ /\ ctx' = c
              /\ curl' \in {Closed, Opened}
              /\ Return("login", "ERROR")
           \/ /\ ctx' = Discard(c, TRUE)
              /\ curl' = Opened
              /\ Return("login", "NOMEM")
        /\ appOtp' = IF a.otp THEN [appOtp EXCEPT !.res = "UNKNOWN"] ELSE appOtp
    /\ UNCHANGED <<appMep, srv>>

LoginSend ==
    /\ Idle
    /\ \E a \in LoginArguments :
        LET c == LoginConfigured(a.pki, a.otp) IN
        /\ ctx' = Store(Discard(c, TRUE), a.user, a.pass, a.pki, FALSE)
        /\ appOtp' = IF a.otp THEN [appOtp EXCEPT !.res = "UNKNOWN"] ELSE appOtp
        /\ Send("login", c.url, None)
    /\ curl' = Opened
    /\ UNCHANGED <<appMep, srv>>

\* After the exchange: the web-service URL replaces the authentication one,
\* the credentials go, and any result but success closes the connection.
LoginDone ==
    /\ call.pc = "done" /\ call.op = "login"
    /\ \E lost \in IF AllocFails /\ ctx.otp THEN BOOLEAN ELSE {FALSE} :
        LET base == IF ctx.otp
                    THEN [ctx EXCEPT !.url = IF lost THEN None ELSE "apps",
                                     !.vurl = "apps", !.otpCred = FALSE]
                    ELSE ctx
            err == IF lost THEN "NOMEM" ELSE call.err
        IN  /\ ctx' = Discard(base, FALSE)
            /\ curl' = IF err = "SUCCESS" THEN curl ELSE Closed
            /\ Return("login", err)
    /\ UNCHANGED <<appOtp, appMep, srv>>

-----------------------------------------------------------------------------
\* isds_login_mep(), isds_login_mep2()

LoginMepBadArgument ==
    /\ Idle
    /\ ctx' = Reset
    /\ Return("loginMep", "INVAL")
    /\ UNCHANGED <<curl, appOtp, appMep, srv>>

\* A pending negotiation (an intermediate URI) continues on its connection.
MepHandle == IF curl.open /\ appMep.uri THEN curl ELSE Opened

LoginMepConfigured ==
    [Reset EXCEPT !.mepCred = TRUE, !.mep = appMep.kind, !.url = "mep"]

LoginMepOutOfMemory ==
    /\ Idle
    /\ AllocFails
    /\ \/ /\ ctx' = [LoginMepConfigured EXCEPT !.url = None]
          /\ curl' = IF appMep.uri THEN curl ELSE Closed
          /\ Return("loginMep", "NOMEM")
       \/ /\ ctx' = LoginMepConfigured
          /\ curl' \in {MepHandle, IF appMep.uri THEN curl ELSE Closed}
          /\ Return("loginMep", "ERROR")
       \/ /\ ctx' = Discard(LoginMepConfigured, TRUE)
          /\ curl' = MepHandle
          /\ Return("loginMep", "NOMEM")
    /\ appMep' = [appMep EXCEPT !.res = "UNKNOWN"]
    /\ UNCHANGED <<appOtp, srv>>

LoginMepSend ==
    /\ Idle
    /\ curl' = MepHandle
    /\ ctx' = Store(Discard(LoginMepConfigured, TRUE), TRUE, TRUE, FALSE, FALSE)
    /\ appMep' = [appMep EXCEPT !.res = "UNKNOWN"]
    /\ Send("loginMep", "mep", None)
    /\ UNCHANGED <<appOtp, srv>>

\* As LoginDone, but a partial success keeps the connection for the next poll.
KeepsConnection_SuccessOnly(err) == err = "SUCCESS"
KeepsConnection_AbortedToo(err) == err \in {"SUCCESS", "PARTIAL", "ABORTED"}
KeepsConnection(err) == err \in {"SUCCESS", "PARTIAL"}

LoginMepDone ==
    /\ call.pc = "done" /\ call.op = "loginMep"
    /\ \E lost \in IF AllocFails THEN BOOLEAN ELSE {FALSE} :
        LET err == IF lost THEN "NOMEM" ELSE call.err IN
        /\ ctx' = Discard([ctx EXCEPT !.url = IF lost THEN None ELSE "apps",
                                      !.vurl = "apps", !.mepCred = FALSE], FALSE)
        /\ curl' = IF KeepsConnection(err) THEN curl ELSE Closed
        /\ Return("loginMep", err)
    /\ UNCHANGED <<appOtp, appMep, srv>>

-----------------------------------------------------------------------------
\* Web services: isds_ping() and every call of the form "check the connection,
\* send, check the status".  VODZ services use url_vodz and refuse to run with
\* log-in credentials attached.

ServiceClosed ==
    /\ Idle
    /\ ~curl.open
    /\ \E op \in {"service", "vodz"} : Return(op, "CLOSED")
    /\ UNCHANGED <<ctx, curl, appOtp, appMep, srv>>

ServiceSend ==
    /\ Idle
    /\ curl.open
    /\ ctx.type = "ISDS"
    /\ \/ Send("service", ctx.url, None)
       \/ /\ ~ctx.otpCred /\ ~ctx.mepCred
          /\ Send("vodz", ctx.vurl, None)
       \/ /\ ctx.otpCred \/ ctx.mepCred
          /\ Return("vodz", "INVAL")
    /\ UNCHANGED <<ctx, curl, appOtp, appMep, srv>>

ServiceDone ==
    /\ call.pc = "done" /\ call.op \in {"service", "vodz", "TESTING"}
    /\ Return(call.op, IF call.err = "SUCCESS" /\ reply.body = "refused"
                       THEN "ISDS" ELSE call.err)
    /\ UNCHANGED <<ctx, curl, appOtp, appMep, srv>>

-----------------------------------------------------------------------------
\* Anonymous services on a context of their own: czp_convert_document() and
\* isds_request_new_testing_box().  Their documentation forbids a context
\* that is connected to ISDS.

AnonymousSend ==
    /\ Idle
    /\ \E t \in {"CZP", "TESTING"} :
        /\ ctx.type \in {"NONE", t}
        /\ ctx' = [ctx EXCEPT !.type = t, !.url = "deposit"]
        /\ Send(t, "deposit", None)
    /\ curl' = IF curl.open THEN curl ELSE Opened
    /\ UNCHANGED <<appOtp, appMep, srv>>

\* A failed conversion closes the connection, a refused one keeps it.
ConversionDone ==
    /\ call.pc = "done" /\ call.op = "CZP"
    /\ curl' = IF call.err = "SUCCESS" THEN curl ELSE Closed
    /\ Return("CZP", IF call.err = "SUCCESS" /\ reply.body = "refused"
                     THEN "ISDS" ELSE call.err)
    /\ UNCHANGED <<ctx, appOtp, appMep, srv>>

-----------------------------------------------------------------------------
\* isds_change_password() and _isds_request_totp_code().  Without one-time
\* credentials it is a plain web service, otherwise the request goes to
\* another URL, authenticated for itself.

ChangePasswordRefused ==
    /\ Idle
    /\ \E err \in Err :
        /\ \/ err = "CLOSED" /\ ~curl.open
           \/ err = "INVAL" /\ curl.open /\ ctx.otp
        /\ Return("changePassword", err)
    /\ UNCHANGED <<ctx, curl, appOtp, appMep, srv>>

ChangePasswordPlain ==
    /\ Idle
    /\ curl.open /\ ~ctx.otp /\ ctx.type = "ISDS"
    /\ Send("service", ctx.url, None)
    /\ UNCHANGED <<ctx, curl, appOtp, appMep, srv>>

\* A TOTP code has to be sent first, if the application has none.
NeedsTotp == appOtp.method = "TOTP" /\ ~appOtp.code

ChangePasswordError ==
    CASE appOtp.method = "undefined" -> "ENUM"
      [] NeedsTotp /\ ~ctx.otp       -> "INVALID_CONTEXT"
      [] ctx.url = None              -> "ERROR"
      [] OTHER                       -> "SUCCESS"

ChangePasswordOtpRefused ==
    /\ Idle
    /\ curl.open /\ ctx.type = "ISDS"
    /\ ChangePasswordError # "SUCCESS"
    /\ appOtp' = [appOtp EXCEPT !.res = "UNKNOWN"]
    /\ Return("changePassword", ChangePasswordError)
    /\ UNCHANGED <<ctx, curl, appMep, srv>>

\* The context for one request to the password service.
ChangeContext ==
    Discard([ctx EXCEPT !.url = "asws", !.otpCred = TRUE], FALSE)

ChangePasswordSend ==
    /\ Idle
    /\ curl.open /\ ctx.type = "ISDS"
    /\ ChangePasswordError = "SUCCESS"
    /\ appOtp' = [appOtp EXCEPT !.res = "UNKNOWN"]
    /\ ctx' = Store(ChangeContext, ctx.savedUser, TRUE, FALSE, TRUE)
    /\ Send(IF NeedsTotp THEN "requestTotp" ELSE "changePassword", "asws", ctx.url)
    /\ UNCHANGED <<curl, appMep, srv>>

ChangePasswordOutOfMemory ==
    /\ Idle
    /\ AllocFails
    /\ curl.open /\ ctx.type = "ISDS"
    /\ ChangePasswordError = "SUCCESS"
    /\ appOtp' = [appOtp EXCEPT !.res = "UNKNOWN"]
    /\ ctx' \in {ctx, [ChangeContext EXCEPT !.url = ctx.url]}
    /\ Return("changePassword", "NOMEM")
    /\ UNCHANGED <<curl, appMep, srv>>

\* The temporary credentials and URL are taken back whatever the result.
ChangeRestored_KeepsUrl ==  \* the URL of the password service stays
    Discard([ctx EXCEPT !.otpCred = FALSE], FALSE)
ChangeRestored ==
    Discard([ctx EXCEPT !.url = call.savedUrl, !.otpCred = FALSE], FALSE)

ChangePasswordDone ==
    /\ call.pc = "done" /\ call.op = "changePassword"
    /\ ctx' = ChangeRestored
    /\ \E refusal \in {"INVAL", "ISDS"} :
        Return("changePassword",
               IF call.err = "SUCCESS" /\ reply.body = "refused" THEN refusal ELSE call.err)
    /\ UNCHANGED <<curl, appOtp, appMep, srv>>

\* The resolution mimics the status of the code request, where the server's
\* headers did not give one.
TotpRequestDone ==
    /\ call.pc = "done" /\ call.op = "requestTotp"
    /\ ctx' = ChangeRestored
    /\ \/ /\ call.err = "SUCCESS" /\ reply.body # "refused"
          /\ appOtp' = [appOtp EXCEPT !.res = IF @ = "SUCCESS" THEN "TOTP_SENT" ELSE @]
          /\ Return("changePassword", "PARTIAL")
       \/ /\ call.err = "SUCCESS" /\ reply.body = "refused"
          /\ \E res \in {"TOO_FAST", "TOTP_NOT_SENT", appOtp.res} :
                appOtp' = [appOtp EXCEPT !.res = IF @ = "SUCCESS" THEN res ELSE @]
          /\ Return("changePassword", "ISDS")
       \/ /\ call.err # "SUCCESS"
          /\ Return("changePassword", call.err)
          /\ UNCHANGED appOtp
    /\ UNCHANGED <<curl, appMep, srv>>

-----------------------------------------------------------------------------
\* isds_logout() and isds_ctx_free().

CookieSession == ctx.otp \/ ctx.mep # "NONE"

\* The context after a completed log out.
LoggedOut_KeepsUser == Discard([ctx EXCEPT !.url = None, !.vurl = None], FALSE)
LoggedOut == Discard([ctx EXCEPT !.url = None, !.vurl = None], TRUE)

\* The end of a log out.  isds_ctx_free() does not look at its result: it frees
\* the context, and never comes back to the CURL handle.
EndLogout(op, err) ==
    /\ reply' = NoReply
    /\ IF op = "free"
       THEN ctx' = NewContext /\ call' = At("freed", op, "SUCCESS")
       ELSE /\ ctx' = IF err = "SUCCESS" THEN LoggedOut ELSE ctx
            /\ call' = At("idle", op, err)

\* Without a session cookie there is nothing to tell the server.  Contexts of
\* the anonymous services are closed the same way.
LogoutLocal ==
    /\ Idle
    /\ ~curl.open \/ ~CookieSession
    /\ curl' = Closed
    /\ \E op \in {"logout", "free"} : EndLogout(op, "SUCCESS")
    /\ UNCHANGED <<appOtp, appMep, srv>>

\* The URL that invalidates the cookie is built from the context's URL.
LogoutWithoutUrl ==
    /\ Idle
    /\ curl.open /\ CookieSession
    /\ ctx.url = None
    /\ \E op \in {"logout", "free"} : EndLogout(op, "ERROR")
    /\ UNCHANGED <<curl, appOtp, appMep, srv>>

LogoutSend ==
    /\ Idle
    /\ curl.open /\ CookieSession
    /\ ctx.url # None
    /\ \E op \in {"logout", "free"} : Send(op, "logout", None)
    /\ UNCHANGED <<ctx, curl, appOtp, appMep, srv>>

\* Only 200 confirms that the cookie is invalid; then the connection goes too.
LogoutAnswered ==
    /\ call.pc = "code" /\ call.op \in {"logout", "free"}
    /\ curl' = IF reply.http = 200 THEN Closed ELSE curl
    /\ EndLogout(call.op, IF reply.http = 200 THEN "SUCCESS" ELSE "ISDS")
    /\ UNCHANGED <<appOtp, appMep, srv>>

LogoutFailed ==
    /\ call.pc = "done" /\ call.op \in {"logout", "free"}
    /\ EndLogout(call.op, call.err)
    /\ UNCHANGED <<curl, appOtp, appMep, srv>>

\* isds_ctx_create(): a new context starts without a handle.
CtxCreate ==
    /\ call.pc = "freed"
    /\ call' = At("idle", "none", "SUCCESS")
    /\ curl' = Closed
    /\ UNCHANGED <<ctx, appOtp, appMep, reply, srv>>

-----------------------------------------------------------------------------
\* The application's data, the user and the server between the steps.

\* Once it changes its own data, the last result no longer speaks of them.
ResultForgotten == call' = At("idle", "none", "SUCCESS")

\* The user types the one-time code in, or the application forgets it.
CodeEntered ==
    /\ Idle
    /\ appOtp' = [appOtp EXCEPT !.code = ~@]
    /\ ResultForgotten
    /\ UNCHANGED <<ctx, curl, appMep, reply, srv>>

\* The application gives a mobile key negotiation up and starts another one.
MepAbandoned ==
    /\ Idle
    /\ appMep.uri
    /\ appMep' \in [kind : MepKinds, uri : {FALSE}, res : {"UNKNOWN"}]
    /\ ResultForgotten
    /\ UNCHANGED <<ctx, curl, appOtp, reply, srv>>

SessionMoves(from, to) ==
    /\ \E c \in Cookie : srv[c] = from /\ srv' = [srv EXCEPT ![c] = to]
    /\ UNCHANGED <<ctx, curl, appOtp, appMep, call, reply>>

UserAcknowledges == SessionMoves("mepWaiting", "mepAcked")
RequestExpires == SessionMoves("mepWaiting", "mepGone")
SessionExpires == SessionMoves("live", "over")

-----------------------------------------------------------------------------
\* The library at work on the call in progress.
Library ==
    \/ Exchange \/ Answer
    \/ LoginDone \/ LoginMepDone \/ ServiceDone \/ ConversionDone
    \/ ChangePasswordDone \/ TotpRequestDone
    \/ LogoutAnswered \/ LogoutFailed

\* The application begins the next call.
Login == LoginMissingPassword \/ LoginUnknownMethod \/ LoginOutOfMemory \/ LoginSend
LoginMep == LoginMepBadArgument \/ LoginMepOutOfMemory \/ LoginMepSend
Service == ServiceClosed \/ ServiceSend \/ AnonymousSend
ChangePassword ==
    \/ ChangePasswordRefused \/ ChangePasswordPlain \/ ChangePasswordOtpRefused
    \/ ChangePasswordSend \/ ChangePasswordOutOfMemory
Logout == LogoutLocal \/ LogoutWithoutUrl \/ LogoutSend
Application ==
    Login \/ LoginMep \/ Service \/ ChangePassword \/ Logout \/ CtxCreate
    \/ CodeEntered \/ MepAbandoned

Environment == UserAcknowledges \/ RequestExpires \/ SessionExpires

Next == Library \/ Application \/ Environment

\* The library runs on the application's thread and its transfers end, so a
\* call that can go on does.
Spec == Init /\ [][Next]_vars /\ WF_vars(Library)

-----------------------------------------------------------------------------
(***************************************************************************)
(* Properties.                                                             *)
(***************************************************************************)

\* The server has authenticated the session of cookie c.
Granted(c) == c \in Cookie /\ srv[c] \in {"live", "over"}

Returned(op, err) == Idle /\ call.op = op /\ call.err = err

\* User name, password, code and certificate are kept in the context only
\* while a call runs, on every path out of every call; and the handle of an
\* OTP session does not carry a password after log in
\* (_isds_discard_credentials(), unset_http_authorization()).
SecretsWiped ==
    /\ call.pc \in {"idle", "freed"} => ctx.cred = NoCredentials
    /\ Returned("login", "SUCCESS") /\ ctx.otp => curl.auth = NoCredentials

\* isds_login() with a one-time password and isds_login_mep() report success
\* only if the connection holds the cookie of a session the server has
\* authenticated: over redirects, polls, aborted and failed attempts before,
\* stale intermediate URIs and connections of other logins.
LoginGranted ==
    Returned("loginMep", "SUCCESS") \/ (Returned("login", "SUCCESS") /\ ctx.otp)
        => curl.open /\ Granted(curl.jar)

\* A partial success of isds_login_mep() can be continued by repeating the
\* call: the URI to poll is kept, and the connection with the cookie of the
\* negotiation stays open.
PendingResumable ==
    Returned("loginMep", "PARTIAL") =>
        /\ appMep.uri /\ appMep.res = "ACK_REQUESTED"
        /\ curl.open /\ curl.jar \in Cookie
        /\ srv[curl.jar] \in {"mepWaiting", "mepAcked", "mepGone"}

\* What isds_login() writes to otp->resolution agrees with what it returns:
\* success, a code that has been sent (and only if the application has none
\* yet), or a failure.
ResolutionTold ==
    Idle /\ call.op = "login" /\ ctx.otp /\ appOtp.method # "undefined" =>
        CASE call.err = "SUCCESS" -> appOtp.res = "SUCCESS" /\ curl.open
          [] call.err = "PARTIAL" -> /\ appOtp.res = "TOTP_SENT"
                                     /\ appOtp.method = "TOTP"
                                     /\ ~curl.open
          [] call.err = "NOT_LOGGED_IN" -> appOtp.res \notin {"SUCCESS", "TOTP_SENT"}
          [] OTHER -> TRUE

\* The URLs of the authentication and password services are in the context
\* only during the call that uses them, so no web service is ever sent there.
ServiceUrls ==
    /\ Idle /\ curl.open => ctx.url \in {"base", "apps", "deposit", None}
    /\ call.op \in {"service", "vodz"} => call.to \in {"base", "apps", None}

\* The last request of an OTP login is authorised by the new cookie alone.
FinalRequestByCookie ==
    call.pc = "http" /\ call.op = "login" /\ call.to = "apps" =>
        /\ curl.auth = NoCredentials /\ ctx.cred = NoCredentials
        /\ Granted(curl.jar)

\* A log out that reports success leaves nothing behind: no connection, no
\* URL, no saved user name, and no live session for the cookie it held.
LogoutComplete ==
    [][ call' # call /\ call'.pc = "idle" /\ call'.op = "logout" /\ call'.err = "SUCCESS" =>
          /\ ~curl'.open /\ ctx'.url = None /\ ctx'.vurl = None /\ ~ctx'.savedUser
          /\ curl.jar \in Cookie => srv'[curl.jar] # "live" ]_vars

\* Every call that has begun returns, however often it is redirected.
CallReturns == call.pc \notin {"idle", "freed"} ~> call.pc \in {"idle", "freed"}

\* The application repeats isds_login_mep() with the same arguments as long as
\* it gets a partial success, and the user or a time-out decides in the end.
MepUndecided == Returned("loginMep", "PARTIAL")
MepRetry == MepUndecided /\ LoginMepSend
MepPolled == call.op = "loginMep" /\ appMep.uri /\ (Idle => MepUndecided)

\* Then polling comes to an end: no behaviour repeats one mobile key log in for
\* ever and always hears that it is pending (isds_login_mep(): "repeat the
\* function call as long as IE_PARTIAL_SUCCESS is being returned").
MepDecided ==
    WF_vars(MepRetry) /\ WF_vars(UserAcknowledges \/ RequestExpires)
        => ~<>[]MepPolled

\* The promise to the application.
Results == [op : Op, err : Err]
Busy == [op |-> "busy", err |-> "busy"]

\* The URL the context returns to after the call in progress.
LastingUrl == IF call.savedUrl = None THEN ctx.url ELSE call.savedUrl

Connection ==
    IF ~curl.open THEN "closed"
    ELSE IF LastingUrl = None THEN "dangling"
    ELSE IF Granted(curl.jar) THEN "session"
    ELSE IF LastingUrl = "base" THEN "perRequest"
    ELSE IF LastingUrl = "deposit" THEN "anonymous"
    ELSE "negotiating"

Contract ==
    INSTANCE SessionContract WITH
        conn <- Connection,
        result <- IF call.pc \in {"idle", "freed"}
                  THEN [op |-> call.op, err |-> call.err] ELSE Busy

KeepsContract == Contract!Spec

=============================================================================
