----------------------------- MODULE IsdsServer -----------------------------
(***************************************************************************)
(* The ISDS server as the library sees it: for every request the set of    *)
(* answers it may give, each with the server state after it.  Basic and    *)
(* one-time-password authentication follow the server the repository tests *)
(* against (src/test/simline/server.c); the mobile key authentication has  *)
(* no server in the repository and is modelled from the answers            *)
(* _isds_soap() distinguishes.                                             *)
(*                                                                         *)
(* The server keeps one session for every cookie it has issued:            *)
(*   unused      the cookie has not been issued yet                        *)
(*   mepWaiting  a mobile key login waits for the user's acknowledgement   *)
(*   mepAcked    the user acknowledged it, the login can be finished       *)
(*   mepGone     the user refused it or it timed out                       *)
(*   live        an authenticated session                                  *)
(*   over        a session that was authenticated and has ended            *)
(* A cookie is never issued twice, so the size of Cookie bounds the number *)
(* of sessions of a behaviour.                                             *)
(***************************************************************************)
CONSTANTS
    Cookie,     \* values of the IPCZ-X-COOKIE session cookie
    None,       \* no cookie, no URL, no redirect
    OtpReasons  \* the reasons the server gives for refusing an OTP login

ASSUME CookieAssumption == None \notin Cookie

SessionState == {"unused", "mepWaiting", "mepAcked", "mepGone", "live", "over"}

\* Web-service locations of a request URL.  "base" stands for every service
\* URL authenticated by HTTP Basic or a client certificate, "apps" for those
\* authenticated by a cookie, "deposit" for the Czech POINT server.
Location ==
    {"base", "apps", "hotp", "sendsms", "totp", "mep", "mepState", "asws",
     "logout", "webLogin", "deposit"}

ASSUME LocationAssumption == None \notin Location

\* Values of the X-Response-message-code header, as isds_otp_resolution.
OtpResolution ==
    {"SUCCESS", "UNKNOWN", "BAD_AUTHENTICATION", "ACCESS_BLOCKED",
     "PASSWORD_EXPIRED", "TOO_FAST", "UNAUTHORIZED", "TOTP_SENT",
     "TOTP_NOT_SENT"}

ASSUME ReasonAssumption ==
    OtpReasons \subseteq OtpResolution \ {"SUCCESS", "UNKNOWN", "TOTP_SENT"}

\* What is left of a body: a SOAP message (with status 0000, a refusal, a
\* fault), a page of a foreign MIME type, nothing, or a mobile key status.
NumericStatus == {"1", "2", "3", "-1"}
JsonStatus ==
    {"WAIT_TO_SEND", "SENT", "NOTIF", "LAUNCHED", "SENDING_FAIL", "ACK",
     "EXPIRED", "UNRECOGNISED"}
Body == {"soap", "refused", "fault", "html", "none"} \cup NumericStatus \cup JsonStatus

HttpCode == {200, 302, 400, 401, 403, 404, 500}

Reply == [http : HttpCode, code : OtpResolution, to : Location \cup {None},
          body : Body, cookie : Cookie \cup {None}]

Page(http, body) ==
    [http |-> http, code |-> "UNKNOWN", to |-> None, body |-> body, cookie |-> None]

\* A redirect, with the resolution of an OTP log in and a new cookie.
Moved(code, to, cookie) ==
    [http |-> 302, code |-> code, to |-> to, body |-> "none", cookie |-> cookie]

\* What a request carries: the user name, the password (alone or with the
\* one-time code appended), a client certificate.
Credentials == [user : BOOLEAN, pass : {"none", "plain", "otp"}, pki : BOOLEAN]
NoCredentials == [user |-> FALSE, pass |-> "none", pki |-> FALSE]

-----------------------------------------------------------------------------
\* Any request may meet a server that is out of order or a missing page.
Trouble == {Page(404, "html"), Page(500, "fault"), Page(400, "none")}

\* A web service that the client is entitled to: done, or refused with a
\* status other than 0000.
Served == {Page(200, "soap"), Page(200, "refused")}

\* The service refuses the credentials (403), or demands them (401).
Denied == {Page(401, "html"), Page(403, "none")}

\* HTTP Basic or certificate authentication of every request.
BasicService(auth) ==
    IF (auth.user /\ auth.pass = "plain") \/ auth.pki
    THEN Served \cup Denied ELSE Denied

\* Failed one-time-password authentication, with its reason in a header.
OtpDenied ==
    {Page(403, "none")} \cup
    {[http |-> 401, code |-> c, to |-> None, body |-> "html", cookie |-> None] :
        c \in OtpReasons}

\* First phase of a TOTP login: an SMS is sent and the client is redirected
\* to the second phase.
SendSms(auth) ==
    OtpDenied \cup
    IF auth.user /\ auth.pass = "plain"
    THEN {Moved("TOTP_SENT", "totp", None)}
    ELSE {}

\* The service that changes an OTP password and sends a code for it.
Asws(auth) ==
    OtpDenied \cup IF auth.user /\ auth.pass # "none" THEN Served ELSE {}

\* A web service authorised by the session cookie.
CookieService(cookie, srv) ==
    IF cookie \in Cookie /\ srv[cookie] = "live"
    THEN Served
    ELSE {Page(403, "none"), Moved("UNKNOWN", "webLogin", None)}

\* The state of a mobile key login, in the format the state service uses.
MepStatus(session, kind) ==
    CASE session = "mepWaiting" -> IF kind = "BASIC" THEN {"1"} ELSE
                                   {"WAIT_TO_SEND", "SENT", "NOTIF", "LAUNCHED", "SENDING_FAIL"}
      [] session = "mepAcked"   -> IF kind = "BASIC" THEN {"2"} ELSE {"ACK"}
      [] session = "mepGone"    -> IF kind = "BASIC" THEN {"3"} ELSE {"EXPIRED"}
      [] OTHER                  -> IF kind = "BASIC" THEN {"-1"} ELSE {"UNRECOGNISED"}

MepState(cookie, srv, kind) ==
    {Page(200, b) : b \in MepStatus(IF cookie \in Cookie THEN srv[cookie] ELSE "unused", kind)}

\* Cookies the server can still issue.
Unissued(srv) == {c \in Cookie : srv[c] = "unused"}

-----------------------------------------------------------------------------
Stay(pages, srv) == {<<p, srv>> : p \in pages}

\* Second phase of an OTP login: a new cookie and a redirect to the service.
PhaseTwo(auth, srv) ==
    Stay(OtpDenied, srv) \cup
    IF auth.user /\ auth.pass = "otp"
    THEN {<<Moved("UNKNOWN", "apps", c), [srv EXCEPT ![c] = "live"]>> :
            c \in Unissued(srv)}
    ELSE {}

\* Mobile key login: an acknowledged request becomes a session, anything
\* else with credentials starts a new request.
MepLogin(auth, cookie, srv) ==
    IF cookie \in Cookie /\ srv[cookie] = "mepAcked"
    THEN {<<Moved("UNKNOWN", "apps", None), [srv EXCEPT ![cookie] = "live"]>>}
    ELSE Stay(Denied, srv) \cup
         IF auth.user /\ auth.pass = "plain"
         THEN {<<Moved("UNKNOWN", "mepState", c), [srv EXCEPT ![c] = "mepWaiting"]>> :
                 c \in Unissued(srv)}
         ELSE {}

\* Invalidation of the session cookie.
LogoutService(cookie, srv) ==
    IF cookie \in Cookie /\ srv[cookie] = "live"
    THEN {<<Page(200, "none"), [srv EXCEPT ![cookie] = "over"]>>}
    ELSE Stay({Page(403, "none")}, srv)

\* All answers to a request to location to carrying auth and cookie.
Answers(to, auth, cookie, kind, srv) ==
    Stay(Trouble, srv) \cup
    CASE to = "base"     -> Stay(BasicService(auth), srv)
      [] to = "apps"     -> Stay(CookieService(cookie, srv), srv)
      [] to = "sendsms"  -> Stay(SendSms(auth), srv)
      [] to \in {"hotp", "totp"} -> PhaseTwo(auth, srv)
      [] to = "asws"     -> Stay(Asws(auth), srv)
      [] to = "mep"      -> MepLogin(auth, cookie, srv)
      [] to = "mepState" -> Stay(MepState(cookie, srv, kind), srv)
      [] to = "logout"   -> LogoutService(cookie, srv)
      [] to = "webLogin" -> Stay({Page(200, "html")}, srv)
      [] to = "deposit"  -> Stay(Served, srv)

=============================================================================
