-------------------------- MODULE IsdsSessionProofs --------------------------
(***************************************************************************)
(* Theorems about IsdsSession, for every set of cookies, every choice of   *)
(* methods and with or without failing allocations.                        *)
(***************************************************************************)
EXTENDS IsdsSession, TLAPS

-----------------------------------------------------------------------------
(***************************************************************************)
(* Lemmas about the server's answers.                                      *)
(***************************************************************************)

Sessions == [Cookie -> SessionState]

LEMMA PageType ==
    ASSUME NEW h \in HttpCode, NEW b \in Body
    PROVE  Page(h, b) \in Reply
BY DEF Page, Reply, OtpResolution, Location

LEMMA MovedType ==
    ASSUME NEW c \in OtpResolution, NEW t \in Location, NEW k \in Cookie \cup {None}
    PROVE  Moved(c, t, k) \in Reply
BY DEF Moved, Reply, HttpCode, Body

\* Whatever is asked, the answer is a reply and leaves sessions.
LEMMA AnswersType ==
    ASSUME NEW to \in Location, NEW auth \in Credentials,
           NEW cookie \in Cookie \cup {None}, NEW kind, NEW s \in Sessions,
           NEW x \in Answers(to, auth, cookie, kind, s)
    PROVE  x[1] \in Reply /\ x[2] \in Sessions
<1>1. CASE x \in Stay(Trouble, s)
    BY <1>1, PageType DEF Stay, Trouble, HttpCode, Body
<1>2. CASE to = "base" /\ x \in Stay(BasicService(auth), s)
    BY <1>2, PageType DEF Stay, BasicService, Served, Denied, HttpCode, Body
<1>3. CASE to = "apps" /\ x \in Stay(CookieService(cookie, s), s)
    BY <1>3, PageType, MovedType
    DEF Stay, CookieService, Served, HttpCode, Body, Location, OtpResolution
<1>4. OtpDenied \subseteq Reply
    BY PageType, ReasonAssumption DEF OtpDenied, HttpCode, Body, Reply
<1>5. CASE to = "sendsms" /\ x \in Stay(SendSms(auth), s)
    BY <1>5, <1>4, MovedType DEF Stay, SendSms, OtpResolution, Location
<1>6. CASE to \in {"hotp", "totp"} /\ x \in PhaseTwo(auth, s)
  <2>1. \A c \in Cookie : [s EXCEPT ![c] = "live"] \in Sessions
      BY DEF Sessions, SessionState
  <2>2. \A c \in Cookie : Moved("UNKNOWN", "apps", c) \in Reply
      BY MovedType DEF OtpResolution, Location
  <2>3. CASE x \in Stay(OtpDenied, s)
      BY <2>3, <1>4 DEF Stay
  <2>4. CASE x \notin Stay(OtpDenied, s)
    <3>1. PICK c \in Cookie : x = <<Moved("UNKNOWN", "apps", c), [s EXCEPT ![c] = "live"]>>
        BY <1>6, <2>4 DEF PhaseTwo, Unissued
    <3>. QED  BY <3>1, <2>1, <2>2
  <2>. QED  BY <2>3, <2>4
<1>7. CASE to = "asws" /\ x \in Stay(Asws(auth), s)
    BY <1>7, <1>4, PageType DEF Stay, Asws, Served, HttpCode, Body
<1>12. CASE to = "mep" /\ x \in MepLogin(auth, cookie, s)
  <2>1. \A c \in Cookie, st \in SessionState : [s EXCEPT ![c] = st] \in Sessions
      BY DEF Sessions
  <2>2. \A st \in {"apps", "mepState"}, c \in Cookie \cup {None} :
            Moved("UNKNOWN", st, c) \in Reply
      BY MovedType DEF OtpResolution, Location
  <2>3. CASE x \in Stay(Denied, s)
      BY <2>3, PageType DEF Stay, Denied, HttpCode, Body
  <2>4. CASE cookie \in Cookie /\ x = <<Moved("UNKNOWN", "apps", None), [s EXCEPT ![cookie] = "live"]>>
    <3>1. Moved("UNKNOWN", "apps", None) \in Reply
        BY <2>2
    <3>2. [s EXCEPT ![cookie] = "live"] \in Sessions
        BY <2>4, <2>1 DEF SessionState
    <3>. QED  BY <2>4, <3>1, <3>2
  <2>5. CASE \E c \in Cookie :
                x = <<Moved("UNKNOWN", "mepState", c), [s EXCEPT ![c] = "mepWaiting"]>>
    <3>1. PICK c \in Cookie :
            x = <<Moved("UNKNOWN", "mepState", c), [s EXCEPT ![c] = "mepWaiting"]>>
        BY <2>5
    <3>2. Moved("UNKNOWN", "mepState", c) \in Reply
        BY <2>2
    <3>3. [s EXCEPT ![c] = "mepWaiting"] \in Sessions
        BY <2>1 DEF SessionState
    <3>. QED  BY <3>1, <3>2, <3>3
  <2>. QED
      BY <1>12, <2>3, <2>4, <2>5 DEF MepLogin, Unissued
<1>8. CASE to = "mepState" /\ x \in Stay(MepState(cookie, s, kind), s)
  <2>1. \A session : MepStatus(session, kind) \subseteq Body
      BY DEF MepStatus, Body, NumericStatus, JsonStatus
  <2>. QED  BY <1>8, <2>1, PageType DEF Stay, MepState, HttpCode
<1>9. CASE to = "logout" /\ x \in LogoutService(cookie, s)
    BY <1>9, PageType DEF LogoutService, Stay, HttpCode, Body, Sessions, SessionState
<1>10. CASE to = "webLogin" /\ x \in Stay({Page(200, "html")}, s)
    BY <1>10, PageType DEF Stay, HttpCode, Body
<1>11. CASE to = "deposit" /\ x \in Stay(Served, s)
    BY <1>11, PageType DEF Stay, Served, HttpCode, Body
<1>. QED
    BY <1>1, <1>2, <1>3, <1>4, <1>5, <1>6, <1>7, <1>12, <1>8, <1>9, <1>10, <1>11
    DEF Answers, Location

-----------------------------------------------------------------------------
(***************************************************************************)
(* Type correctness.                                                       *)
(***************************************************************************)

LEMMA AtType ==
    ASSUME NEW pc \in Pc, NEW op \in Op, NEW err \in Err
    PROVE  At(pc, op, err) \in Call
BY DEF At, Call, Url

LEMMA NoReplyType == NoReply \in Reply
BY PageType DEF NoReply, HttpCode, Body

LEMMA ReturnType ==
    ASSUME NEW op \in Op, NEW err \in Err, Return(op, err)
    PROVE  call' \in Call /\ reply' \in Reply
BY AtType, NoReplyType DEF Return, Pc

LEMMA SendType ==
    ASSUME NEW op \in Op, NEW url \in Url, NEW saved \in Url, Send(op, url, saved)
    PROVE  call' \in Call /\ reply' \in Reply
BY NoReplyType DEF Send, At, Call, Pc, Err

LEMMA HandleType == Closed \in Handle /\ Opened \in Handle
BY DEF Closed, Opened, Handle, NoCredentials, Credentials

LEMMA NewContextType == NewContext \in Context
BY DEF NewContext, Context, Url, NoCredentials, Credentials

LEMMA DiscardType ==
    ASSUME NEW c \in Context, NEW b \in BOOLEAN
    PROVE  Discard(c, b) \in Context
BY DEF Discard, Context, NoCredentials, Credentials

LEMMA StoreType ==
    ASSUME NEW c \in Context, NEW user \in BOOLEAN, NEW pass \in BOOLEAN,
           NEW pki \in BOOLEAN, NEW saved \in BOOLEAN
    PROVE  Store(c, user, pass, pki, saved) \in Context
<1>1. [user |-> user,
       pass |-> IF ~pass THEN "none" ELSE IF c.otpCred /\ appOtp.code THEN "otp" ELSE "plain",
       pki  |-> pki] \in Credentials
    BY DEF Credentials
<1>2. \A cred \in Credentials, b \in BOOLEAN :
        [c EXCEPT !.cred = cred, !.savedUser = b] \in Context
    BY DEF Context
<1>3. (c.savedUser \/ (user /\ c.otp /\ ~saved)) \in BOOLEAN
    OBVIOUS
<1>. QED  BY <1>1, <1>2, <1>3 DEF Store

LEMMA SetOptionsType ==
    ASSUME TypeOK
    PROVE  SetOptions \in Handle
BY DEF TypeOK, SetOptions, Handle, Context, Credentials

LEMMA ReceiveType ==
    ASSUME NEW h \in Handle, NEW r \in Reply
    PROVE  Receive(h, r) \in Handle
BY DEF Receive, Handle, Reply

LEMMA ExchangesType ==
    ASSUME TypeOK, NEW x \in Exchanges
    PROVE  x[1] \in Reply /\ x[2] \in Sessions
<1>1. Target \in Location
    BY DEF TypeOK, Exchanges, Target, Call, Url, Location
<1>2. SetOptions.auth \in Credentials /\ SetOptions.jar \in Cookie \cup {None}
    BY SetOptionsType DEF Handle
<1>. QED
    BY <1>1, <1>2, AnswersType DEF Exchanges, TypeOK, Sessions

\* The calls' own data, as the steps of the SOAP layer change them.
LEMMA CallType ==
    ASSUME call \in Call
    PROVE  /\ \A pc \in Pc : [call EXCEPT !.pc = pc] \in Call
           /\ \A pc \in Pc, err \in Err : [call EXCEPT !.pc = pc, !.err = err] \in Call
           /\ \A url \in Url :
                [call EXCEPT !.pc = "http", !.to = url, !.again = TRUE] \in Call
BY DEF Call, Pc

LEMMA AppOtpType ==
    ASSUME appOtp \in OtpArgument
    PROVE  /\ \A res \in OtpResolution : [appOtp EXCEPT !.res = res] \in OtpArgument
           /\ [appOtp EXCEPT !.code = ~@] \in OtpArgument
BY DEF OtpArgument

LEMMA AppMepType ==
    ASSUME appMep \in MepArgument
    PROVE  \A res \in MepResolution :
              /\ [appMep EXCEPT !.res = res] \in MepArgument
              /\ \A b \in BOOLEAN : [appMep EXCEPT !.res = res, !.uri = b] \in MepArgument
BY DEF MepArgument

LEMMA MepStatusResolutionType ==
    ASSUME NEW s PROVE MepStatusResolution(s) \in MepResolution
BY DEF MepStatusResolution, MepResolution

LEMMA HeaderType ==
    ASSUME TypeOK
    PROVE  HeaderResolution \in OtpResolution /\ OtpSucceeded \in OtpResolution
BY DEF TypeOK, HeaderResolution, OtpSucceeded, Reply, OtpResolution

LEMMA ResolveType ==
    ASSUME TypeOK, NEW res \in OtpResolution, Resolve(res)
    PROVE  appOtp' \in OtpArgument
BY AppOtpType DEF TypeOK, Resolve

LEMMA ExchangeType == ASSUME TypeOK, Exchange PROVE TypeOK'
<1>1. CASE HttpAnswered
  <2>1. call' \in Call
      BY <1>1, CallType DEF HttpAnswered, TypeOK, Pc
  <2>2. PICK x \in Exchanges : /\ reply' = x[1] /\ srv' = x[2]
                               /\ curl' = Receive(SetOptions, x[1])
      BY <1>1 DEF HttpAnswered
  <2>3. reply' \in Reply /\ srv' \in Sessions /\ curl' \in Handle
      BY <2>2, ExchangesType, SetOptionsType, ReceiveType
  <2>. QED  BY <1>1, <2>1, <2>3 DEF HttpAnswered, TypeOK, Sessions
<1>2. CASE HttpFailed
  <2>1. call' \in Call
      BY <1>2, CallType DEF HttpFailed, TypeOK, Pc, Err
  <2>2. srv' \in Sessions
      BY <1>2, ExchangesType DEF HttpFailed, TypeOK, Sessions
  <2>. QED  BY <1>2, <2>1, <2>2, HandleType DEF HttpFailed, TypeOK, Sessions
<1>3. CASE HttpAborted
  <2>1. call' \in Call
      BY <1>3, CallType DEF HttpAborted, TypeOK, Pc, Err
  <2>2. srv' \in Sessions /\ curl' \in Handle
      BY <1>3, ExchangesType, SetOptionsType, ReceiveType DEF HttpAborted, TypeOK, Sessions
  <2>. QED  BY <1>3, <2>1, <2>2 DEF HttpAborted, TypeOK, Sessions
<1>. QED  BY <1>1, <1>2, <1>3 DEF Exchange

LEMMA AnswerType == ASSUME TypeOK, Answer PROVE TypeOK'
<1>. USE DEF TypeOK
<1>1. \A err \in Err : Finish(err) => call' \in Call
    BY CallType DEF Finish, Pc
<1>2. ReadBody => call' \in Call
    BY CallType DEF ReadBody, Pc
<1>3. \A url \in Url : Redirect(url) => call' \in Call
    BY CallType DEF Redirect
<1>4. CASE AnswerOk
    BY <1>4, <1>2, HeaderType, ResolveType DEF AnswerOk
<1>5. CASE MepWait
    BY <1>5, <1>1, AppMepType, MepStatusResolutionType DEF MepWait, Err
<1>6. CASE MepAcknowledged
  <2>1. call.to \in Url
      BY DEF Call
  <2>. QED
      BY <1>6, <1>3, <2>1, AppMepType DEF MepAcknowledged, MepResolution
<1>7. CASE MepFailed
    BY <1>7, <1>1, AppMepType, MepStatusResolutionType DEF MepFailed, Err
<1>8. CASE OtpRedirect
  <2>1. reply.to \in Url
      BY DEF Reply, Url
  <2>2. UnsetAuthorization(curl) \in Handle
      BY DEF UnsetAuthorization, Handle, Credentials
  <2>. QED
      BY <1>8, <1>3, <2>1, <2>2, HeaderType, ResolveType, DiscardType DEF OtpRedirect
<1>9. CASE OtpCodeNeeded
    BY <1>9, <1>1, HeaderType, ResolveType DEF OtpCodeNeeded, Err
<1>10. CASE MepRequested
  <2>1. call.to \in Url
      BY DEF Call
  <2>. QED
      BY <1>10, <1>3, <2>1, AppMepType DEF MepRequested, MepResolution
<1>11. CASE MepLoggedIn
    BY <1>11, <1>1, AppMepType DEF MepLoggedIn, MepResolution, Err
<1>12. CASE MepStrayRedirect
  <2>1. appMep.res \in MepResolution
      BY DEF MepArgument
  <2>. QED
      BY <1>12, <1>2, <2>1, AppMepType DEF MepStrayRedirect, MepResolution
<1>13. CASE AnswerRefused
  <2>1. CodeError \in Err
      BY DEF CodeError, Err
  <2>. QED
      BY <1>13, <1>1, <2>1, HeaderType, ResolveType, AppMepType
      DEF AnswerRefused, MepResolution
<1>14. CASE AnswerOther
    BY <1>14, <1>2, HeaderType, ResolveType DEF AnswerOther
<1>15. CASE BodyRead
  <2>1. BodyResult \in Err
      BY DEF BodyResult, Err
  <2>. QED  BY <1>15, <1>1, <2>1 DEF BodyRead
<1>. QED
    BY <1>4, <1>5, <1>6, <1>7, <1>8, <1>9, <1>10, <1>11, <1>12, <1>13, <1>14, <1>15
    DEF Answer

LEMMA LoginType == ASSUME TypeOK, Login \/ LoginDone PROVE TypeOK'
<1>. USE DEF TypeOK
<1>1. Reset \in Context
    BY DEF Reset, Context, Url
<1>2. \A p, o \in BOOLEAN : LoginUrl(p, o) \in Url /\ LoginConfigured(p, o) \in Context
    BY <1>1 DEF LoginConfigured, LoginUrl, Context, Url, Location
<1>3. \A a \in LoginArguments :
        /\ a.pki \in BOOLEAN /\ a.user \in BOOLEAN /\ a.pass \in BOOLEAN /\ a.otp \in BOOLEAN
        /\ LoginConfigured(a.pki, a.otp) \in Context
    BY <1>2 DEF LoginArguments
<1>4. \A err \in Err : Return("login", err) => call' \in Call /\ reply' \in Reply
    BY ReturnType DEF Op
<1>5. [appOtp EXCEPT !.res = "UNKNOWN"] \in OtpArgument
    BY AppOtpType DEF OtpResolution
<1>6. CASE LoginMissingPassword
    BY <1>6, <1>1, <1>4, HandleType DEF LoginMissingPassword, Err
<1>7. CASE LoginUnknownMethod
  <2>1. [Reset EXCEPT !.otp = TRUE, !.otpCred = TRUE] \in Context
      BY <1>1 DEF Context
  <2>. QED  BY <1>7, <1>4, <1>5, <2>1, HandleType DEF LoginUnknownMethod, Err
<1>8. CASE LoginOutOfMemory
  <2>1. \A c \in Context : \A u \in {None, c.url}, v \in {None, c.vurl} :
            [c EXCEPT !.url = u, !.vurl = v] \in Context
      BY DEF Context, Url
  <2>5. curl' \in Handle
      BY <1>8, HandleType DEF LoginOutOfMemory
  <2>6. PICK c \in Context :
          \/ \E u \in {None, c.url}, v \in {None, c.vurl} :
                ctx' = [c EXCEPT !.url = u, !.vurl = v]
          \/ ctx' = c
          \/ ctx' = Discard(c, TRUE)
      BY <1>8, <1>3 DEF LoginOutOfMemory
  <2>2. ctx' \in Context
      BY <2>1, <2>6, DiscardType
  <2>3. call' \in Call /\ reply' \in Reply
      BY <1>8, <1>4 DEF LoginOutOfMemory, Err
  <2>4. appOtp' \in OtpArgument
      BY <1>8, <1>5 DEF LoginOutOfMemory
  <2>. QED  BY <1>8, <2>2, <2>3, <2>4, <2>5 DEF LoginOutOfMemory
<1>9. CASE LoginSend
  <2>1. PICK a \in LoginArguments :
          /\ ctx' = Store(Discard(LoginConfigured(a.pki, a.otp), TRUE), a.user, a.pass, a.pki, FALSE)
          /\ Send("login", LoginConfigured(a.pki, a.otp).url, None)
      BY <1>9 DEF LoginSend
  <2>2. ctx' \in Context
      BY <2>1, <1>3, DiscardType, StoreType
  <2>3. LoginConfigured(a.pki, a.otp).url \in Url
      BY <1>3 DEF Context
  <2>4. call' \in Call /\ reply' \in Reply
      BY <2>1, <2>3, SendType DEF Op, Url
  <2>5. appOtp' \in OtpArgument
      BY <1>9, <1>5 DEF LoginSend
  <2>. QED  BY <1>9, <2>2, <2>4, <2>5, HandleType DEF LoginSend
<1>10. CASE LoginDone
  <2>1. PICK lost \in BOOLEAN :
          /\ ctx' = Discard(IF ctx.otp
                            THEN [ctx EXCEPT !.url = IF lost THEN None ELSE "apps",
                                             !.vurl = "apps", !.otpCred = FALSE]
                            ELSE ctx, FALSE)
          /\ Return("login", IF lost THEN "NOMEM" ELSE call.err)
      BY <1>10 DEF LoginDone
  <2>2. [ctx EXCEPT !.url = IF lost THEN None ELSE "apps", !.vurl = "apps",
                    !.otpCred = FALSE] \in Context
      BY DEF Context, Url, Location
  <2>3. ctx' \in Context
      BY <2>1, <2>2, DiscardType
  <2>4. call' \in Call /\ reply' \in Reply
      BY <2>1, <1>4 DEF Call, Err
  <2>. QED  BY <1>10, <2>3, <2>4, HandleType DEF LoginDone
<1>. QED  BY <1>6, <1>7, <1>8, <1>9, <1>10 DEF Login

LEMMA LoginMepType == ASSUME TypeOK, LoginMep \/ LoginMepDone PROVE TypeOK'
<1>. USE DEF TypeOK
<1>1. Reset \in Context /\ LoginMepConfigured \in Context
    BY KindAssumption DEF Reset, LoginMepConfigured, Context, Url, Location, MepArgument
<1>2. \A err \in Err : Return("loginMep", err) => call' \in Call /\ reply' \in Reply
    BY ReturnType DEF Op
<1>3. MepHandle \in Handle
    BY HandleType DEF MepHandle
<1>4. [appMep EXCEPT !.res = "UNKNOWN"] \in MepArgument
    BY AppMepType DEF MepResolution
<1>5. CASE LoginMepBadArgument
    BY <1>5, <1>1, <1>2 DEF LoginMepBadArgument, Err
<1>6. CASE LoginMepOutOfMemory
  <2>1. [LoginMepConfigured EXCEPT !.url = None] \in Context
      BY <1>1 DEF Context, Url
  <2>2. ctx' \in Context /\ curl' \in Handle
      BY <1>6, <1>1, <1>3, <2>1, DiscardType, HandleType DEF LoginMepOutOfMemory
  <2>3. call' \in Call /\ reply' \in Reply
      BY <1>6, <1>2 DEF LoginMepOutOfMemory, Err
  <2>. QED  BY <1>6, <1>4, <2>2, <2>3 DEF LoginMepOutOfMemory
<1>7. CASE LoginMepSend
  <2>1. ctx' \in Context
      BY <1>7, <1>1, DiscardType, StoreType DEF LoginMepSend
  <2>2. call' \in Call /\ reply' \in Reply
      BY <1>7, SendType DEF LoginMepSend, Op, Url, Location
  <2>. QED  BY <1>7, <1>3, <1>4, <2>1, <2>2 DEF LoginMepSend
<1>8. CASE LoginMepDone
  <2>1. PICK lost \in BOOLEAN :
          /\ ctx' = Discard([ctx EXCEPT !.url = IF lost THEN None ELSE "apps",
                                        !.vurl = "apps", !.mepCred = FALSE], FALSE)
          /\ Return("loginMep", IF lost THEN "NOMEM" ELSE call.err)
      BY <1>8 DEF LoginMepDone
  <2>2. [ctx EXCEPT !.url = IF lost THEN None ELSE "apps", !.vurl = "apps",
                    !.mepCred = FALSE] \in Context
      BY DEF Context, Url, Location
  <2>3. ctx' \in Context
      BY <2>1, <2>2, DiscardType
  <2>4. call' \in Call /\ reply' \in Reply
      BY <2>1, <1>2 DEF Call, Err
  <2>. QED  BY <1>8, <2>3, <2>4, HandleType DEF LoginMepDone
<1>. QED  BY <1>5, <1>6, <1>7, <1>8 DEF LoginMep

LEMMA ServiceType ==
    ASSUME TypeOK, Service \/ ServiceDone \/ ConversionDone PROVE TypeOK'
<1>. USE DEF TypeOK
<1>1. \A op \in Op, err \in Err : Return(op, err) => call' \in Call /\ reply' \in Reply
    BY ReturnType
<1>2. CASE ServiceClosed
    BY <1>2, <1>1 DEF ServiceClosed, Op, Err
<1>3. CASE ServiceSend
  <2>1. ctx.url \in Url /\ ctx.vurl \in Url /\ None \in Url
      BY DEF Context, Url
  <2>2. call' \in Call /\ reply' \in Reply
      BY <1>3, <1>1, <2>1, SendType DEF ServiceSend, Op, Err
  <2>. QED  BY <1>3, <2>2 DEF ServiceSend
<1>4. CASE AnonymousSend
  <2>1. \A t \in {"CZP", "TESTING"} : [ctx EXCEPT !.type = t, !.url = "deposit"] \in Context
      BY DEF Context, Url, Location
  <2>2. call' \in Call /\ reply' \in Reply
      BY <1>4, SendType DEF AnonymousSend, Op, Url, Location
  <2>. QED  BY <1>4, <2>1, <2>2, HandleType DEF AnonymousSend
<1>5. CASE ServiceDone
    BY <1>5, <1>1 DEF ServiceDone, Op, Err, Call
<1>6. CASE ConversionDone
    BY <1>6, <1>1, HandleType DEF ConversionDone, Op, Err, Call
<1>. QED  BY <1>2, <1>3, <1>4, <1>5, <1>6 DEF Service

LEMMA ChangePasswordType ==
    ASSUME TypeOK, ChangePassword \/ ChangePasswordDone \/ TotpRequestDone PROVE TypeOK'
<1>. USE DEF TypeOK
<1>1. \A err \in Err : Return("changePassword", err) => call' \in Call /\ reply' \in Reply
    BY ReturnType DEF Op
<1>2. [appOtp EXCEPT !.res = "UNKNOWN"] \in OtpArgument
    BY AppOtpType DEF OtpResolution
<1>3. ChangeContext \in Context
  <2>1. [ctx EXCEPT !.url = "asws", !.otpCred = TRUE] \in Context
      BY DEF Context, Url, Location
  <2>. QED  BY <2>1, DiscardType DEF ChangeContext
<1>4. ChangeRestored \in Context
  <2>1. [ctx EXCEPT !.url = call.savedUrl, !.otpCred = FALSE] \in Context
      BY DEF Context, Call
  <2>. QED  BY <2>1, DiscardType DEF ChangeRestored
<1>5. ctx.url \in Url /\ ctx.savedUser \in BOOLEAN /\ None \in Url
    BY DEF Context, Url
<1>6. CASE ChangePasswordRefused
    BY <1>6, <1>1 DEF ChangePasswordRefused
<1>7. CASE ChangePasswordPlain
    BY <1>7, <1>5, SendType DEF ChangePasswordPlain, Op
<1>8. CASE ChangePasswordOtpRefused
  <2>1. ChangePasswordError \in Err
      BY DEF ChangePasswordError, Err
  <2>. QED  BY <1>8, <1>1, <1>2, <2>1 DEF ChangePasswordOtpRefused
<1>9. CASE ChangePasswordSend
  <2>1. ctx' \in Context
      BY <1>9, <1>3, <1>5, StoreType DEF ChangePasswordSend
  <2>2. call' \in Call /\ reply' \in Reply
      BY <1>9, <1>5, SendType DEF ChangePasswordSend, Op, Url, Location
  <2>. QED  BY <1>9, <1>2, <2>1, <2>2 DEF ChangePasswordSend
<1>10. CASE ChangePasswordOutOfMemory
  <2>1. [ChangeContext EXCEPT !.url = ctx.url] \in Context
      BY <1>3, <1>5 DEF Context
  <2>. QED  BY <1>10, <1>1, <1>2, <2>1 DEF ChangePasswordOutOfMemory, Err
<1>11. CASE ChangePasswordDone
    BY <1>11, <1>1, <1>4 DEF ChangePasswordDone, Call, Err
<1>12. CASE TotpRequestDone
  <2>1. call' \in Call /\ reply' \in Reply
      BY <1>12, <1>1 DEF TotpRequestDone, Call, Err
  <2>2. appOtp.res \in OtpResolution
      BY DEF OtpArgument
  <2>3. appOtp' \in OtpArgument
      BY <1>12, <2>2, AppOtpType DEF TotpRequestDone, OtpResolution
  <2>. QED  BY <1>12, <1>4, <2>1, <2>3 DEF TotpRequestDone
<1>. QED  BY <1>6, <1>7, <1>8, <1>9, <1>10, <1>11, <1>12 DEF ChangePassword

LEMMA LogoutType ==
    ASSUME TypeOK, Logout \/ LogoutAnswered \/ LogoutFailed \/ CtxCreate PROVE TypeOK'
<1>. USE DEF TypeOK
<1>1. LoggedOut \in Context
  <2>1. [ctx EXCEPT !.url = None, !.vurl = None] \in Context
      BY DEF Context, Url
  <2>. QED  BY <2>1, DiscardType DEF LoggedOut
<1>2. \A op \in {"logout", "free"}, err \in Err : EndLogout(op, err) =>
        ctx' \in Context /\ call' \in Call /\ reply' \in Reply
    BY <1>1, AtType, NoReplyType, NewContextType DEF EndLogout, Op, Pc, Err
<1>3. CASE LogoutLocal
    BY <1>3, <1>2, HandleType DEF LogoutLocal, Err
<1>4. CASE LogoutWithoutUrl
    BY <1>4, <1>2 DEF LogoutWithoutUrl, Err
<1>5. CASE LogoutSend
    BY <1>5, SendType DEF LogoutSend, Op, Url, Location
<1>6. CASE LogoutAnswered
    BY <1>6, <1>2, HandleType DEF LogoutAnswered, Err
<1>7. CASE LogoutFailed
    BY <1>7, <1>2 DEF LogoutFailed, Call
<1>8. CASE CtxCreate
    BY <1>8, AtType, HandleType DEF CtxCreate, Pc, Op, Err
<1>. QED  BY <1>3, <1>4, <1>5, <1>6, <1>7, <1>8 DEF Logout

LEMMA SurroundingsType ==
    ASSUME TypeOK, CodeEntered \/ MepAbandoned \/ Environment PROVE TypeOK'
<1>. USE DEF TypeOK
<1>1. ResultForgotten => call' \in Call
    BY AtType DEF ResultForgotten, Pc, Op, Err
<1>2. CASE CodeEntered
    BY <1>2, <1>1, AppOtpType DEF CodeEntered
<1>3. CASE MepAbandoned
    BY <1>3, <1>1 DEF MepAbandoned, MepArgument, MepResolution
<1>4. CASE Environment
  <2>1. \A from, to \in SessionState : SessionMoves(from, to) =>
            /\ srv' \in Sessions
            /\ UNCHANGED <<ctx, curl, appOtp, appMep, call, reply>>
      BY DEF SessionMoves, Sessions
  <2>. QED
      BY <1>4, <2>1 DEF Environment, UserAcknowledges, RequestExpires, SessionExpires,
                        SessionState, Sessions
<1>. QED  BY <1>2, <1>3, <1>4

LEMMA TypeStep == ASSUME TypeOK, [Next]_vars PROVE TypeOK'
<1>1. CASE UNCHANGED vars
    BY <1>1 DEF vars, TypeOK
<1>. QED
    BY <1>1, ExchangeType, AnswerType, LoginType, LoginMepType, ServiceType,
       ChangePasswordType, LogoutType, SurroundingsType
    DEF Next, Library, Application

LEMMA TypeInit == ASSUME Init PROVE TypeOK
<1>1. ctx \in Context /\ curl \in Handle /\ reply \in Reply
    BY NewContextType, HandleType, NoReplyType DEF Init
<1>2. call \in Call
    BY AtType DEF Init, Pc, Op, Err
<1>3. appOtp \in OtpArgument /\ appMep \in MepArgument
    BY DEF Init, OtpArgument, MepArgument, OtpResolution, MepResolution
<1>4. srv \in [Cookie -> SessionState]
    BY DEF Init, SessionState
<1>. QED  BY <1>1, <1>2, <1>3, <1>4 DEF TypeOK

\* Every variable keeps its type: in particular every error, URL, resolution
\* and server answer the library meets is one its code distinguishes.
THEOREM TypeCorrect == Spec => []TypeOK
BY TypeInit, TypeStep, PTL DEF Spec

-----------------------------------------------------------------------------
(***************************************************************************)
(* The library forgets the secrets of its application when a call returns  *)
(* (SecretsWiped).                                                         *)
(*                                                                         *)
(* SecretsWiped is not inductive: it says nothing of the call in progress. *)
(* Three facts make it so.  Only the calls that wipe the credentials on    *)
(* their way out borrow them.  As long as an OTP log in has not cleared    *)
(* the handle, what it has asked for cannot end it with success: the       *)
(* authentication service redirects or refuses.  And once it has, nothing  *)
(* puts the credentials back.                                              *)
(***************************************************************************)

Running == {"http", "code", "body", "done"}
Borrowing == {"login", "loginMep", "changePassword", "requestTotp"}

CredentialsInUse ==
    ctx.cred # NoCredentials => call.pc \in Running /\ call.op \in Borrowing

\* The OTP log in has not been redirected to the web service yet.
Undecided ==
    /\ call.to \in {"hotp", "totp", "sendsms"}
    /\ ctx.cred.pki = FALSE /\ curl.auth.pki = FALSE
    /\ call.pc \in {"code", "body"} => reply.body \notin {"soap", "refused"}
    /\ call.pc = "done" => call.err # "SUCCESS"

Cleared == curl.auth = NoCredentials /\ ctx.cred = NoCredentials

OtpLogin ==
    call.op = "login" /\ call.pc \in Running /\ ctx.otp =>
        ctx.otpCred /\ (Cleared \/ Undecided)

HandleWiped == Returned("login", "SUCCESS") /\ ctx.otp => curl.auth = NoCredentials

Secrets == CredentialsInUse /\ OtpLogin /\ HandleWiped

-----------------------------------------------------------------------------
\* The authentication service never answers with the message of a web service.
LEMMA AuthenticationAnswers ==
    ASSUME NEW to \in {"hotp", "totp", "sendsms", "mepState"}, NEW auth,
           NEW cookie, NEW kind, NEW s, NEW x \in Answers(to, auth, cookie, kind, s)
    PROVE  x[1].body \notin {"soap", "refused"}
<1>1. \A p \in Trouble \cup OtpDenied \cup SendSms(auth) : p.body \notin {"soap", "refused"}
    BY DEF Trouble, OtpDenied, SendSms, Page, Moved
<1>2. \A c \in Cookie : Moved("UNKNOWN", "apps", c).body = "none"
    BY DEF Moved
<1>3. CASE x \in Stay(Trouble, s)
    BY <1>1, <1>3 DEF Stay
<1>4. CASE to = "sendsms" /\ x \in Stay(SendSms(auth), s)
    BY <1>1, <1>4 DEF Stay
<1>5. CASE to \in {"hotp", "totp"} /\ x \in PhaseTwo(auth, s)
  <2>1. CASE x \in Stay(OtpDenied, s)
      BY <1>1, <2>1 DEF Stay
  <2>2. CASE x \notin Stay(OtpDenied, s)
    <3>1. PICK c \in Cookie : x = <<Moved("UNKNOWN", "apps", c), [s EXCEPT ![c] = "live"]>>
        BY <1>5, <2>2 DEF PhaseTwo, Unissued
    <3>. QED  BY <3>1, <1>2
  <2>. QED  BY <2>1, <2>2
<1>6. CASE to = "mepState" /\ x \in Stay(MepState(cookie, s, kind), s)
  <2>1. \A session : MepStatus(session, kind) \cap {"soap", "refused"} = {}
      BY DEF MepStatus
  <2>. QED  BY <1>6, <2>1 DEF Stay, MepState, Page
<1>. QED  BY <1>3, <1>4, <1>5, <1>6 DEF Answers

LEMMA DiscardWipes ==
    ASSUME NEW c \in Context, NEW b \in BOOLEAN
    PROVE  /\ Discard(c, b).cred = NoCredentials
           /\ Discard(c, b).otp = c.otp /\ Discard(c, b).otpCred = c.otpCred
BY DEF Discard, Context

LEMMA ConfiguredLogin ==
    ASSUME TypeOK, NEW pki \in BOOLEAN, NEW otp \in BOOLEAN
    PROVE  /\ LoginConfigured(pki, otp) \in Context
           /\ LoginConfigured(pki, otp).cred = ctx.cred
           /\ LoginConfigured(pki, otp).otp = (~pki /\ otp)
           /\ LoginConfigured(pki, otp).otpCred = (~pki /\ otp)
           /\ LoginConfigured(pki, otp).url = LoginUrl(pki, otp)
<1>1. Reset \in Context /\ Reset.cred = ctx.cred
    BY DEF Reset, TypeOK, Context, Url
<1>2. LoginUrl(pki, otp) \in Url
    BY DEF LoginUrl, Url, Location
<1>3. "base" \in Url
    BY DEF Url, Location
<1>. QED  BY <1>1, <1>2, <1>3 DEF LoginConfigured, Context

\* A step that leaves the context without credentials and returns anything
\* but a successful log in.
LEMMA ReturnWipes ==
    ASSUME NEW op, NEW err, Return(op, err), ctx'.cred = NoCredentials,
           ~(op = "login" /\ err = "SUCCESS")
    PROVE  Secrets'
BY DEF Return, At, Secrets, CredentialsInUse, OtpLogin, HandleWiped, Returned, Idle, Running

\* A step that starts the exchanges of another call than a log in.
LEMMA SendWipes ==
    ASSUME NEW op, NEW url, NEW saved, Send(op, url, saved), op # "login",
           ctx'.cred = NoCredentials \/ op \in Borrowing
    PROVE  Secrets'
BY DEF Send, At, Secrets, CredentialsInUse, OtpLogin, HandleWiped, Returned, Idle, Running

LEMMA IdleWiped == ASSUME Secrets, Idle PROVE ctx.cred = NoCredentials
BY DEF Secrets, CredentialsInUse, Idle, Running

-----------------------------------------------------------------------------
LEMMA ExchangeWipes == ASSUME TypeOK, Secrets, Exchange PROVE Secrets'
<1>. USE DEF Secrets
<1>1. call.pc = "http" /\ call.pc \in Running /\ UNCHANGED <<ctx, appOtp, appMep>>
    BY DEF Exchange, HttpAnswered, HttpFailed, HttpAborted, Running
<1>2. /\ call'.op = call.op /\ call'.to = call.to
      /\ \/ call'.pc = "code"
         \/ call'.pc = "done" /\ call'.err \in {"NETWORK", "ABORTED"}
  <2>1. /\ [call EXCEPT !.pc = "code"].op = call.op
        /\ [call EXCEPT !.pc = "code"].to = call.to
        /\ [call EXCEPT !.pc = "code"].pc = "code"
      BY DEF TypeOK, Call
  <2>2. \A err : /\ [call EXCEPT !.pc = "done", !.err = err].op = call.op
                 /\ [call EXCEPT !.pc = "done", !.err = err].to = call.to
                 /\ [call EXCEPT !.pc = "done", !.err = err].pc = "done"
                 /\ [call EXCEPT !.pc = "done", !.err = err].err = err
      BY DEF TypeOK, Call
  <2>3. CASE HttpAnswered
      BY <2>1, <2>3 DEF HttpAnswered
  <2>4. CASE HttpFailed
      BY <2>2, <2>4 DEF HttpFailed
  <2>5. CASE HttpAborted
      BY <2>2, <2>5 DEF HttpAborted
  <2>. QED  BY <2>3, <2>4, <2>5 DEF Exchange
<1>3. CredentialsInUse'
    BY <1>1, <1>2 DEF CredentialsInUse, Running
<1>4. HandleWiped'
    BY <1>2 DEF HandleWiped, Returned, Idle
<1>5. ASSUME call'.op = "login", ctx'.otp
      PROVE  ctx'.otpCred /\ (Cleared' \/ Undecided')
  <2>1. ctx.otpCred /\ (Cleared \/ Undecided)
      BY <1>1, <1>2, <1>5 DEF OtpLogin
  <2>2. curl'.auth = NoCredentials \/ curl'.auth = SetOptions.auth
      BY SetOptionsType DEF Exchange, HttpAnswered, HttpFailed, HttpAborted, Receive,
         Closed, Handle
  <2>3. ASSUME Cleared PROVE Cleared'
    <3>1. SetOptions.auth = NoCredentials
      <4>1. SetOptions.auth =
              [user |-> curl.auth.user \/ (~Polling /\ ctx.cred.user),
               pass |-> IF Polling \/ ctx.cred.pass = "none" THEN curl.auth.pass ELSE ctx.cred.pass,
               pki  |-> curl.auth.pki \/ ctx.cred.pki]
          BY DEF SetOptions, TypeOK, Handle
      <4>2. /\ curl.auth.user = FALSE /\ ctx.cred.user = FALSE
            /\ curl.auth.pki = FALSE /\ ctx.cred.pki = FALSE
            /\ curl.auth.pass = "none" /\ ctx.cred.pass = "none"
          BY <2>3 DEF Cleared, NoCredentials
      <4>. QED  BY <4>1, <4>2 DEF NoCredentials
    <3>. QED  BY <1>1, <2>2, <2>3, <3>1 DEF Cleared
  <2>4. ASSUME Undecided PROVE Undecided'
    <3>1. SetOptions.auth.pki = FALSE
        BY <2>4 DEF Undecided, SetOptions, TypeOK, Handle, Credentials, Context
    <3>2. curl'.auth.pki = FALSE
        BY <2>2, <3>1 DEF NoCredentials
    <3>3. call'.pc \in {"code", "body"} => reply'.body \notin {"soap", "refused"}
      <4>1. SUFFICES ASSUME HttpAnswered PROVE reply'.body \notin {"soap", "refused"}
          BY <1>2 DEF Exchange, HttpFailed, HttpAborted, TypeOK, Call
      <4>2. PICK x \in Exchanges : reply' = x[1]
          BY <4>1 DEF HttpAnswered
      <4>3. Target \in {"hotp", "totp", "sendsms", "mepState"}
          BY <2>4 DEF Undecided, Target
      <4>. QED
          BY <4>2, <4>3, AuthenticationAnswers DEF Exchanges
    <3>. QED
        BY <1>1, <1>2, <2>4, <3>2, <3>3 DEF Undecided
  <2>. QED  BY <1>1, <2>1, <2>3, <2>4
<1>. QED  BY <1>3, <1>4, <1>5 DEF OtpLogin

LEMMA AnswerWipes == ASSUME TypeOK, Secrets, Answer PROVE Secrets'
<1>. USE DEF Secrets
<1>1. call.pc \in {"code", "body"} /\ call.pc \in Running
    BY DEF Answer, AnswerOk, MepWait, MepAcknowledged, MepFailed, OtpRedirect,
       OtpCodeNeeded, MepRequested, MepLoggedIn, MepStrayRedirect, AnswerRefused,
       AnswerOther, BodyRead, Coded, Running
<1>2. call'.op = call.op /\ call'.pc \in {"http", "body", "done"}
    BY DEF Answer, AnswerOk, MepWait, MepAcknowledged, MepFailed, OtpRedirect,
       OtpCodeNeeded, MepRequested, MepLoggedIn, MepStrayRedirect, AnswerRefused,
       AnswerOther, BodyRead, Finish, Redirect, ReadBody, TypeOK, Call
<1>3. \/ UNCHANGED ctx
      \/ OtpRedirect /\ ctx' = Discard(ctx, FALSE)
    BY DEF Answer, AnswerOk, MepWait, MepAcknowledged, MepFailed, OtpRedirect,
       OtpCodeNeeded, MepRequested, MepLoggedIn, MepStrayRedirect, AnswerRefused,
       AnswerOther, BodyRead
<1>4. CredentialsInUse'
    BY <1>1, <1>2, <1>3, DiscardWipes DEF CredentialsInUse, Running, TypeOK
<1>5. HandleWiped'
    BY <1>2 DEF HandleWiped, Returned, Idle
<1>6. ASSUME call'.op = "login", ctx'.otp
      PROVE  ctx'.otpCred /\ (Cleared' \/ Undecided')
  <2>1. ctx.otp
      BY <1>3, <1>6, DiscardWipes DEF TypeOK
  <2>2. ctx.otpCred /\ (Cleared \/ Undecided)
      BY <1>1, <1>2, <1>6, <2>1 DEF OtpLogin
  <2>3. CASE OtpRedirect
    <3>1. curl.auth.pki = FALSE
        BY <2>2 DEF Cleared, Undecided, NoCredentials
    <3>2. UnsetAuthorization(curl).auth = NoCredentials
        BY <3>1 DEF UnsetAuthorization, NoCredentials, TypeOK, Handle, Credentials
    <3>3. ctx'.cred = NoCredentials /\ ctx'.otpCred
        BY <2>2, <2>3, DiscardWipes DEF OtpRedirect, TypeOK
    <3>. QED  BY <2>3, <3>2, <3>3 DEF OtpRedirect, Cleared
  <2>4. CASE ~OtpRedirect
    <3>1. UNCHANGED <<ctx, curl, reply>>
        BY <2>2, <2>4 DEF Answer, AnswerOk, MepWait, MepAcknowledged, MepFailed,
           OtpCodeNeeded, MepRequested, MepLoggedIn, MepStrayRedirect, AnswerRefused,
           AnswerOther, BodyRead
    <3>2. Cleared => Cleared'
        BY <3>1 DEF Cleared
    <3>3. ASSUME Undecided PROVE Undecided'
      <4>1. \/ AnswerOk \/ AnswerOther \/ OtpCodeNeeded \/ AnswerRefused \/ BodyRead
          BY <2>2, <2>4 DEF Answer, MepWait, MepAcknowledged, MepFailed, MepRequested,
             MepLoggedIn, MepStrayRedirect, Mep, Otp
      <4>2. call'.to = call.to /\ call'.pc \in {"body", "done"}
          BY <4>1 DEF AnswerOk, AnswerOther, OtpCodeNeeded, AnswerRefused, BodyRead,
             ReadBody, Finish, TypeOK, Call
      <4>3. reply.body \notin {"soap", "refused"}
          BY <1>1, <3>3 DEF Undecided
      <4>4. BodyResult # "SUCCESS"
          BY <4>3 DEF BodyResult
      <4>5. CodeError # "SUCCESS"
          BY DEF CodeError
      <4>6. call'.pc = "done" => call'.err # "SUCCESS"
          BY <4>1, <4>4, <4>5 DEF AnswerOk, AnswerOther, OtpCodeNeeded, AnswerRefused,
             BodyRead, ReadBody, Finish, TypeOK, Call
      <4>. QED  BY <3>1, <3>3, <4>2, <4>3, <4>6 DEF Undecided
    <3>. QED  BY <2>2, <3>1, <3>2, <3>3
  <2>. QED  BY <2>3, <2>4
<1>. QED  BY <1>4, <1>5, <1>6 DEF OtpLogin

LEMMA LoginWipes == ASSUME TypeOK, Secrets, Login \/ LoginDone PROVE Secrets'
<1>1. Reset.cred = ctx.cred
    BY DEF Reset, TypeOK, Context
<1>2. \A a \in LoginArguments :
        /\ a.pki \in BOOLEAN /\ a.user \in BOOLEAN /\ a.pass \in BOOLEAN /\ a.otp \in BOOLEAN
        /\ LoginConfigured(a.pki, a.otp) \in Context
        /\ LoginConfigured(a.pki, a.otp).cred = ctx.cred
        /\ LoginConfigured(a.pki, a.otp).otp = a.otp
        /\ LoginConfigured(a.pki, a.otp).otpCred = a.otp
        /\ a.otp => /\ ~a.pki
                    /\ LoginConfigured(a.pki, a.otp).url \in {"hotp", "totp", "sendsms"}
    BY ConfiguredLogin DEF LoginArguments, LoginUrl
<1>3. CASE LoginMissingPassword
    BY <1>1, <1>3, IdleWiped, ReturnWipes DEF LoginMissingPassword
<1>4. CASE LoginUnknownMethod
  <2>1. ctx'.cred = ctx.cred
      BY <1>4 DEF LoginUnknownMethod, Reset, TypeOK, Context
  <2>. QED  BY <1>4, <2>1, IdleWiped, ReturnWipes DEF LoginUnknownMethod
<1>5. CASE LoginOutOfMemory
  <2>1. PICK c \in Context :
          /\ c.cred = ctx.cred
          /\ \/ \E u \in {None, c.url}, v \in {None, c.vurl} :
                  ctx' = [c EXCEPT !.url = u, !.vurl = v]
             \/ ctx' = c
             \/ ctx' = Discard(c, TRUE)
      BY <1>2, <1>5 DEF LoginOutOfMemory
  <2>2. ctx'.cred = NoCredentials
    <3>1. \A u, v : [c EXCEPT !.url = u, !.vurl = v].cred = c.cred
        BY DEF Context
    <3>2. ctx.cred = NoCredentials
        BY <1>5, IdleWiped DEF LoginOutOfMemory
    <3>3. CASE \E u \in {None, c.url}, v \in {None, c.vurl} :
                  ctx' = [c EXCEPT !.url = u, !.vurl = v]
      <4>1. PICK u \in {None, c.url}, v \in {None, c.vurl} :
                  ctx' = [c EXCEPT !.url = u, !.vurl = v]
          BY <3>3
      <4>. QED  BY <2>1, <3>1, <3>2, <4>1
    <3>. QED  BY <2>1, <3>2, <3>3, DiscardWipes
  <2>. QED  BY <1>5, <2>2, ReturnWipes DEF LoginOutOfMemory
<1>6. CASE LoginSend
  <2>1. PICK a \in LoginArguments :
          /\ ctx' = Store(Discard(LoginConfigured(a.pki, a.otp), TRUE), a.user, a.pass, a.pki, FALSE)
          /\ Send("login", LoginConfigured(a.pki, a.otp).url, None)
      BY <1>6 DEF LoginSend
  <2>2. PICK c \in Context :
          /\ c = LoginConfigured(a.pki, a.otp)
          /\ c.otp => c.otpCred /\ ~a.pki /\ c.url \in {"hotp", "totp", "sendsms"}
      BY <1>2
  <2>3. call'.op = "login" /\ call'.pc = "http" /\ call'.to = c.url
      BY <2>1, <2>2 DEF Send, At
  <2>4. ctx'.otp = c.otp /\ ctx'.otpCred = c.otpCred /\ ctx'.cred.pki = a.pki
    <3>1. a.pki \in BOOLEAN /\ a.user \in BOOLEAN /\ a.pass \in BOOLEAN
        BY <1>2
    <3>2. PICK d \in Context :
            d = Discard(c, TRUE) /\ d.otp = c.otp /\ d.otpCred = c.otpCred
        BY DiscardType, DiscardWipes
    <3>3. ctx' = Store(d, a.user, a.pass, a.pki, FALSE)
        BY <2>1, <2>2, <3>2
    <3>4. ctx'.otp = d.otp /\ ctx'.otpCred = d.otpCred /\ ctx'.cred.pki = a.pki
        BY <3>3 DEF Store, Context
    <3>. QED  BY <3>2, <3>4
  <2>5. curl'.auth.pki = FALSE
      BY <1>6 DEF LoginSend, Opened, Closed, NoCredentials
  <2>6. ASSUME ctx'.otp PROVE ctx'.otpCred /\ Undecided'
    <3>1. c.otp
        BY <2>4, <2>6
    <3>2. c.otpCred /\ a.pki = FALSE /\ call'.to \in {"hotp", "totp", "sendsms"}
        BY <1>2, <2>2, <2>3, <3>1
    <3>3. ctx'.otpCred /\ ctx'.cred.pki = FALSE
        BY <2>4, <3>2
    <3>. QED  BY <2>3, <2>5, <3>2, <3>3 DEF Undecided
  <2>. QED
      BY <2>3, <2>6 DEF Secrets, CredentialsInUse, OtpLogin, HandleWiped, Returned, Idle,
         Running, Borrowing
<1>7. CASE LoginDone
  <2>1. PICK lost \in BOOLEAN :
          /\ ctx' = Discard(IF ctx.otp
                            THEN [ctx EXCEPT !.url = IF lost THEN None ELSE "apps",
                                             !.vurl = "apps", !.otpCred = FALSE]
                            ELSE ctx, FALSE)
          /\ curl' = IF (IF lost THEN "NOMEM" ELSE call.err) = "SUCCESS" THEN curl ELSE Closed
          /\ Return("login", IF lost THEN "NOMEM" ELSE call.err)
      BY <1>7 DEF LoginDone
  <2>2. /\ [ctx EXCEPT !.url = IF lost THEN None ELSE "apps", !.vurl = "apps",
                       !.otpCred = FALSE] \in Context
        /\ [ctx EXCEPT !.url = IF lost THEN None ELSE "apps", !.vurl = "apps",
                       !.otpCred = FALSE].otp = ctx.otp
      BY DEF TypeOK, Context, Url, Location
  <2>3. ctx'.cred = NoCredentials /\ ctx'.otp = ctx.otp
    <3>1. CASE ctx.otp
        BY <2>1, <2>2, <3>1, DiscardWipes
    <3>2. CASE ~ctx.otp
        BY <2>1, <3>2, DiscardWipes DEF TypeOK
    <3>. QED  BY <3>1, <3>2
  <2>4. CASE lost \/ call.err # "SUCCESS"
      BY <2>1, <2>3, <2>4, ReturnWipes
  <2>5. CASE ~lost /\ call.err = "SUCCESS"
    <3>1. ctx.otp => curl.auth = NoCredentials
        BY <1>7, <2>5 DEF LoginDone, Secrets, OtpLogin, Running, Cleared, Undecided
    <3>. QED
        BY <2>1, <2>3, <2>5, <3>1 DEF Secrets, CredentialsInUse, OtpLogin, HandleWiped,
           Returned, Return, At, Idle, Running
  <2>. QED  BY <2>4, <2>5
<1>. QED  BY <1>3, <1>4, <1>5, <1>6, <1>7 DEF Login

LEMMA LoginMepWipes == ASSUME TypeOK, Secrets, LoginMep \/ LoginMepDone PROVE Secrets'
<1>1. LoginMepConfigured \in Context /\ LoginMepConfigured.cred = ctx.cred
  <2>1. Reset \in Context /\ Reset.cred = ctx.cred
      BY DEF Reset, TypeOK, Context, Url
  <2>2. appMep.kind \in {"BASIC", "EXTENDED"}
      BY KindAssumption DEF TypeOK, MepArgument
  <2>. QED  BY <2>1, <2>2 DEF LoginMepConfigured, Context, Url, Location
<1>2. CASE LoginMepBadArgument
  <2>1. ctx'.cred = ctx.cred
      BY <1>2 DEF LoginMepBadArgument, Reset, TypeOK, Context
  <2>. QED  BY <1>2, <2>1, IdleWiped, ReturnWipes DEF LoginMepBadArgument
<1>3. CASE LoginMepOutOfMemory
  <2>1. [LoginMepConfigured EXCEPT !.url = None].cred = LoginMepConfigured.cred
      BY <1>1 DEF Context
  <2>2. ctx.cred = NoCredentials
      BY <1>3, IdleWiped DEF LoginMepOutOfMemory
  <2>3. ctx'.cred = NoCredentials
      BY <1>1, <1>3, <2>1, <2>2, DiscardWipes DEF LoginMepOutOfMemory
  <2>. QED  BY <1>3, <2>3, ReturnWipes DEF LoginMepOutOfMemory
<1>4. CASE LoginMepSend
    BY <1>4, SendWipes DEF LoginMepSend, Borrowing
<1>5. CASE LoginMepDone
  <2>1. PICK lost \in BOOLEAN :
          /\ ctx' = Discard([ctx EXCEPT !.url = IF lost THEN None ELSE "apps",
                                        !.vurl = "apps", !.mepCred = FALSE], FALSE)
          /\ Return("loginMep", IF lost THEN "NOMEM" ELSE call.err)
      BY <1>5 DEF LoginMepDone
  <2>2. [ctx EXCEPT !.url = IF lost THEN None ELSE "apps", !.vurl = "apps",
                    !.mepCred = FALSE] \in Context
      BY DEF TypeOK, Context, Url, Location
  <2>. QED  BY <2>1, <2>2, DiscardWipes, ReturnWipes
<1>. QED  BY <1>2, <1>3, <1>4, <1>5 DEF LoginMep

LEMMA ServiceWipes ==
    ASSUME TypeOK, Secrets, Service \/ ServiceDone \/ ConversionDone PROVE Secrets'
<1>1. CASE ServiceClosed
    BY <1>1, IdleWiped, ReturnWipes DEF ServiceClosed
<1>2. CASE ServiceSend
    BY <1>2, IdleWiped, ReturnWipes, SendWipes DEF ServiceSend
<1>3. CASE AnonymousSend
  <2>1. \A t : [ctx EXCEPT !.type = t, !.url = "deposit"].cred = ctx.cred
      BY DEF TypeOK, Context
  <2>2. ctx'.cred = NoCredentials
      BY <1>3, <2>1, IdleWiped DEF AnonymousSend
  <2>. QED  BY <1>3, <2>2, SendWipes DEF AnonymousSend
<1>4. CASE ServiceDone
    BY <1>4, ReturnWipes DEF ServiceDone, Secrets, CredentialsInUse, Borrowing
<1>5. CASE ConversionDone
    BY <1>5, ReturnWipes DEF ConversionDone, Secrets, CredentialsInUse, Borrowing
<1>. QED  BY <1>1, <1>2, <1>3, <1>4, <1>5 DEF Service

LEMMA ChangePasswordWipes ==
    ASSUME TypeOK, Secrets, ChangePassword \/ ChangePasswordDone \/ TotpRequestDone
    PROVE  Secrets'
<1>1. CASE ChangePasswordRefused
    BY <1>1, IdleWiped, ReturnWipes DEF ChangePasswordRefused
<1>2. CASE ChangePasswordPlain
    BY <1>2, IdleWiped, SendWipes DEF ChangePasswordPlain
<1>3. CASE ChangePasswordOtpRefused
    BY <1>3, IdleWiped, ReturnWipes DEF ChangePasswordOtpRefused
<1>4. CASE ChangePasswordSend
  <2>1. PICK op \in {"requestTotp", "changePassword"} : Send(op, "asws", ctx.url)
      BY <1>4 DEF ChangePasswordSend
  <2>. QED  BY <2>1, SendWipes DEF Borrowing
<1>5. CASE ChangePasswordOutOfMemory
  <2>1. ChangeContext.cred = NoCredentials /\ ChangeContext \in Context
    <3>1. [ctx EXCEPT !.url = "asws", !.otpCred = TRUE] \in Context
        BY DEF TypeOK, Context, Url, Location
    <3>. QED  BY <3>1, DiscardWipes, DiscardType DEF ChangeContext
  <2>2. [ChangeContext EXCEPT !.url = ctx.url].cred = ChangeContext.cred
      BY <2>1 DEF Context
  <2>3. ctx'.cred = NoCredentials
      BY <1>5, <2>1, <2>2, IdleWiped DEF ChangePasswordOutOfMemory
  <2>. QED  BY <1>5, <2>3, ReturnWipes DEF ChangePasswordOutOfMemory
<1>6. ChangeRestored.cred = NoCredentials
  <2>1. [ctx EXCEPT !.url = call.savedUrl, !.otpCred = FALSE] \in Context
      BY DEF TypeOK, Context, Call
  <2>. QED  BY <2>1, DiscardWipes DEF ChangeRestored
<1>7. CASE ChangePasswordDone
    BY <1>6, <1>7, ReturnWipes DEF ChangePasswordDone
<1>8. CASE TotpRequestDone
    BY <1>6, <1>8, ReturnWipes DEF TotpRequestDone
<1>. QED  BY <1>1, <1>2, <1>3, <1>4, <1>5, <1>7, <1>8 DEF ChangePassword

LEMMA LogoutWipes ==
    ASSUME TypeOK, Secrets, Logout \/ LogoutAnswered \/ LogoutFailed \/ CtxCreate
    PROVE  Secrets'
<1>1. NewContext.cred = NoCredentials /\ LoggedOut.cred = NoCredentials
  <2>1. [ctx EXCEPT !.url = None, !.vurl = None] \in Context
      BY DEF TypeOK, Context, Url
  <2>. QED  BY <2>1, DiscardWipes DEF LoggedOut, NewContext
<1>2. ASSUME NEW op \in {"logout", "free"}, NEW err, EndLogout(op, err),
             ctx.cred = NoCredentials
      PROVE  Secrets'
    BY <1>1, <1>2 DEF EndLogout, At, Secrets, CredentialsInUse, OtpLogin, HandleWiped,
       Returned, Idle, Running
<1>3. CASE LogoutLocal
    BY <1>2, <1>3, IdleWiped DEF LogoutLocal
<1>4. CASE LogoutWithoutUrl
    BY <1>2, <1>4, IdleWiped DEF LogoutWithoutUrl
<1>5. CASE LogoutSend
    BY <1>5, IdleWiped, SendWipes DEF LogoutSend
<1>6. CASE LogoutAnswered
    BY <1>2, <1>6 DEF LogoutAnswered, Secrets, CredentialsInUse, Borrowing
<1>7. CASE LogoutFailed
    BY <1>2, <1>7 DEF LogoutFailed, Secrets, CredentialsInUse, Borrowing
<1>8. CASE CtxCreate
  <2>1. ctx.cred = NoCredentials
      BY <1>8 DEF CtxCreate, Secrets, CredentialsInUse, Running
  <2>. QED
      BY <1>8, <2>1 DEF CtxCreate, At, Secrets, CredentialsInUse, OtpLogin, HandleWiped,
         Returned, Idle, Running
<1>. QED  BY <1>3, <1>4, <1>5, <1>6, <1>7, <1>8 DEF Logout

LEMMA SurroundingsWipe ==
    ASSUME TypeOK, Secrets, CodeEntered \/ MepAbandoned \/ Environment PROVE Secrets'
<1>1. CASE CodeEntered \/ MepAbandoned
  <2>1. ctx.cred = NoCredentials
      BY <1>1, IdleWiped DEF CodeEntered, MepAbandoned
  <2>2. UNCHANGED ctx /\ ResultForgotten
      BY <1>1 DEF CodeEntered, MepAbandoned
  <2>. QED
      BY <2>1, <2>2 DEF ResultForgotten, At, Secrets, CredentialsInUse, OtpLogin,
         HandleWiped, Returned, Idle, Running
<1>2. CASE Environment
  <2>1. UNCHANGED <<ctx, curl, appOtp, appMep, call, reply>>
      BY <1>2 DEF Environment, UserAcknowledges, RequestExpires, SessionExpires, SessionMoves
  <2>. QED
      BY <2>1 DEF Secrets, CredentialsInUse, OtpLogin, Cleared, Undecided, HandleWiped,
         Returned, Idle
<1>. QED  BY <1>1, <1>2

LEMMA SecretsStep == ASSUME TypeOK, Secrets, [Next]_vars PROVE Secrets'
<1>1. CASE UNCHANGED vars
    BY <1>1 DEF vars, Secrets, CredentialsInUse, OtpLogin, Cleared, Undecided,
       HandleWiped, Returned, Idle
<1>. QED
    BY <1>1, ExchangeWipes, AnswerWipes, LoginWipes, LoginMepWipes, ServiceWipes,
       ChangePasswordWipes, LogoutWipes, SurroundingsWipe
    DEF Next, Library, Application

LEMMA SecretsInit == ASSUME Init PROVE Secrets
BY DEF Init, NewContext, At, Secrets, CredentialsInUse, OtpLogin, HandleWiped, Returned,
   Idle, Running

\* No call leaves the application's secrets behind: they are in the context
\* only while a call that wipes them runs, and an OTP session's handle has lost
\* them, whatever calls and failures came before.
THEOREM SecretsAreWiped == Spec => []SecretsWiped
<1>1. TypeOK /\ Secrets => SecretsWiped
    BY DEF Secrets, CredentialsInUse, HandleWiped, SecretsWiped, Running
<1>2. Init => TypeOK /\ Secrets
    BY TypeInit, SecretsInit
<1>3. TypeOK /\ Secrets /\ [Next]_vars => (TypeOK /\ Secrets)'
    BY TypeStep, SecretsStep
<1>. QED  BY <1>1, <1>2, <1>3, PTL DEF Spec

-----------------------------------------------------------------------------
(***************************************************************************)
(* What the cookie is of.                                                  *)
(*                                                                         *)
(* A log in by one-time password or mobile key that succeeds holds a       *)
(* session of the server (LoginGranted), the last request of an OTP log in *)
(* is made by it alone (FinalRequestByCookie), and a log out that succeeds *)
(* has ended it (LogoutComplete).                                          *)
(*                                                                         *)
(* The handle holds one cookie, and redirects, polls and aborted attempts  *)
(* decide what it is of.  The invariant says what each answer on its way   *)
(* to the library tells about that cookie: the message of a web service    *)
(* comes from its session only, an acknowledged state from its request,    *)
(* and the redirect after an acknowledgement makes it a session.           *)
(***************************************************************************)

\* A request that runs has a connection, and cookies come with one.
Connected ==
    /\ call.pc \in {"http", "code", "body"} => curl.open
    /\ ~curl.open => curl.jar = None

\* Cookies are only kept for a context that knows of its cookie session.
Marked == (curl.engine \/ curl.jar # None) /\ call.pc # "freed" => CookieSession

LoggingOut ==
    call.op \in {"logout", "free"} /\ call.pc \in Running =>
        /\ call.to = "logout" /\ call.pc # "body"
        /\ call.pc = "code" /\ reply.http = 200 /\ curl.jar \in Cookie => srv[curl.jar] # "live"
        /\ call.pc = "done" => call.err # "SUCCESS"

\* Where the requests of an OTP log in, and of any log in by cookie, may go.
OtpPlaces == {"hotp", "totp", "sendsms", "apps", "webLogin"}
LoginPlaces == OtpPlaces \cup {"mep", "mepState"}

Acked(c) == c \in Cookie /\ srv[c] = "mepAcked"

\* What an answer says of the session whose cookie the handle holds.
AnswerKnown ==
    /\ call.pc = "code" => reply.to \in LoginPlaces \cup {None}
    /\ call.pc \in {"code", "body"} /\ reply.body \in {"soap", "refused"} => Granted(curl.jar)
    /\ call.pc = "code" /\ reply.body \in {"2", "ACK"} => Acked(curl.jar)
    /\ call.pc = "done" /\ call.err = "SUCCESS" => curl.open /\ Granted(curl.jar)

OtpLoggingIn ==
    call.op = "login" /\ call.pc \in Running =>
        IF ctx.otp
        THEN /\ ctx.otpCred
             /\ call.to \in OtpPlaces
             /\ call.pc = "http" /\ call.to = "apps" => Granted(curl.jar)
             /\ call.pc = "code" => reply.to \in OtpPlaces \cup {None}
             /\ call.pc = "code" /\ reply.http = 302 /\ reply.to = "apps" => Granted(curl.jar)
             /\ AnswerKnown
        ELSE ~ctx.otpCred /\ call.to = "base"

MepLoggingIn ==
    call.op = "loginMep" /\ call.pc \in Running =>
        /\ ctx.mepCred
        /\ call.to \in LoginPlaces
        /\ AnswerKnown
        /\ ~ctx.otpCred =>
             /\ call.to = "mep"
             /\ call.pc = "http" /\ appMep.res = "ACK" => ~appMep.uri /\ Acked(curl.jar)
             /\ call.pc = "code" /\ appMep.res = "ACK" /\ reply.http = 302 => Granted(curl.jar)

Logins == Connected /\ Marked /\ LoggingOut /\ OtpLoggingIn /\ MepLoggingIn /\ LoginGranted

-----------------------------------------------------------------------------
(***************************************************************************)
(* The server.                                                             *)
(***************************************************************************)

\* What the answers to a log in say of the cookie they were asked with.
LEMMA LoginAnswers ==
    ASSUME NEW to \in LoginPlaces, NEW auth, NEW cookie \in Cookie \cup {None},
           NEW kind, NEW s \in Sessions, NEW x \in Answers(to, auth, cookie, kind, s)
    PROVE  /\ x[1].to \in LoginPlaces \cup {None}
           /\ x[1].body \in {"soap", "refused"} =>
                cookie \in Cookie /\ s[cookie] = "live" /\ x[1].cookie = None /\ x[2] = s
           /\ x[1].body \in {"2", "ACK"} =>
                cookie \in Cookie /\ s[cookie] = "mepAcked" /\ x[1].cookie = None /\ x[2] = s
           /\ to # "mep" => x[1].to \in OtpPlaces \cup {None}
           /\ to # "mep" /\ x[1].http = 302 /\ x[1].to = "apps" =>
                x[1].cookie \in Cookie /\ x[2][x[1].cookie] = "live"
           /\ to = "mep" /\ cookie \in Cookie /\ s[cookie] = "mepAcked" /\ x[1].http = 302 =>
                x[1].cookie = None /\ x[2][cookie] = "live"
<1>. USE DEF LoginPlaces, OtpPlaces
<1>1. \A p \in Trouble \cup Denied \cup OtpDenied \cup {Page(200, "html")} :
        /\ p.to = None /\ p.http # 302
        /\ p.body \notin {"soap", "refused", "2", "ACK"}
    BY DEF Trouble, Denied, OtpDenied, Page
<1>2. \A code, place, c : /\ Moved(code, place, c).to = place
                          /\ Moved(code, place, c).cookie = c
                          /\ Moved(code, place, c).body = "none"
    BY DEF Moved
<1>3. CASE x \in Stay(Trouble, s)
    BY <1>1, <1>3 DEF Stay
<1>4. CASE to = "apps" /\ x \in Stay(CookieService(cookie, s), s)
  <2>1. x[2] = s /\ x[1] \in CookieService(cookie, s)
      BY <1>4 DEF Stay
  <2>2. CASE cookie \in Cookie /\ s[cookie] = "live"
      BY <1>4, <2>1, <2>2 DEF CookieService, Served, Page
  <2>3. CASE ~(cookie \in Cookie /\ s[cookie] = "live")
    <3>1. x[1] = Page(403, "none") \/ x[1] = Moved("UNKNOWN", "webLogin", None)
        BY <2>1, <2>3 DEF CookieService
    <3>2. CASE x[1] = Page(403, "none")
        BY <1>4, <3>2 DEF Page
    <3>3. CASE x[1] = Moved("UNKNOWN", "webLogin", None)
        BY <1>2, <1>4, <3>3
    <3>. QED  BY <3>1, <3>2, <3>3
  <2>. QED  BY <2>2, <2>3
<1>5. CASE to = "sendsms" /\ x \in Stay(SendSms(auth), s)
  <2>1. x[1] \in OtpDenied \/ x[1] = Moved("TOTP_SENT", "totp", None)
      BY <1>5 DEF Stay, SendSms
  <2>2. CASE x[1] \in OtpDenied
      BY <1>1, <1>5, <2>2
  <2>3. CASE x[1] = Moved("TOTP_SENT", "totp", None)
      BY <1>2, <1>5, <2>3
  <2>. QED  BY <2>1, <2>2, <2>3
<1>6. CASE to \in {"hotp", "totp"} /\ x \in PhaseTwo(auth, s)
  <2>1. CASE x \in Stay(OtpDenied, s)
      BY <1>1, <1>6, <2>1 DEF Stay
  <2>2. CASE x \notin Stay(OtpDenied, s)
    <3>1. PICK c \in Cookie : x = <<Moved("UNKNOWN", "apps", c), [s EXCEPT ![c] = "live"]>>
        BY <1>6, <2>2 DEF PhaseTwo, Unissued
    <3>2. [s EXCEPT ![c] = "live"][c] = "live"
        BY DEF Sessions
    <3>. QED  BY <1>2, <1>6, <3>1, <3>2
  <2>. QED  BY <2>1, <2>2
<1>7. CASE to = "mep" /\ x \in MepLogin(auth, cookie, s)
  <2>1. CASE cookie \in Cookie /\ s[cookie] = "mepAcked"
    <3>1. x = <<Moved("UNKNOWN", "apps", None), [s EXCEPT ![cookie] = "live"]>>
        BY <1>7, <2>1 DEF MepLogin
    <3>2. [s EXCEPT ![cookie] = "live"][cookie] = "live"
        BY <2>1 DEF Sessions
    <3>. QED  BY <1>2, <1>7, <3>1, <3>2
  <2>2. CASE ~(cookie \in Cookie /\ s[cookie] = "mepAcked")
    <3>1. CASE x \in Stay(Denied, s)
        BY <1>1, <1>7, <3>1 DEF Stay
    <3>2. CASE x \notin Stay(Denied, s)
      <4>1. PICK c \in Cookie :
              x = <<Moved("UNKNOWN", "mepState", c), [s EXCEPT ![c] = "mepWaiting"]>>
          BY <1>7, <2>2, <3>2 DEF MepLogin, Unissued
      <4>. QED  BY <1>2, <1>7, <2>2, <4>1
    <3>. QED  BY <3>1, <3>2
  <2>. QED  BY <2>1, <2>2
<1>8. CASE to = "mepState" /\ x \in Stay(MepState(cookie, s, kind), s)
  <2>1. PICK b \in MepStatus(IF cookie \in Cookie THEN s[cookie] ELSE "unused", kind) :
          x = <<Page(200, b), s>>
      BY <1>8 DEF Stay, MepState
  <2>2. b \notin {"soap", "refused"}
      BY <2>1 DEF MepStatus
  <2>3. b \in {"2", "ACK"} => cookie \in Cookie /\ s[cookie] = "mepAcked"
      BY <2>1 DEF MepStatus
  <2>. QED  BY <1>8, <2>1, <2>2, <2>3 DEF Page
<1>9. CASE to = "webLogin" /\ x \in Stay({Page(200, "html")}, s)
    BY <1>1, <1>9 DEF Stay
<1>. QED
    BY <1>3, <1>4, <1>5, <1>6, <1>7, <1>8, <1>9 DEF Answers

LEMMA LogoutAnswers ==
    ASSUME NEW auth, NEW cookie \in Cookie \cup {None}, NEW kind, NEW s \in Sessions,
           NEW x \in Answers("logout", auth, cookie, kind, s), x[1].http = 200
    PROVE  cookie \in Cookie /\ x[1].cookie = None /\ x[2][cookie] # "live"
<1>1. x \notin Stay(Trouble, s)
    BY DEF Stay, Trouble, Page
<1>2. x \in LogoutService(cookie, s)
    BY <1>1 DEF Answers
<1>3. cookie \in Cookie /\ s[cookie] = "live"
    BY <1>2 DEF LogoutService, Stay, Page
<1>4. x = <<Page(200, "none"), [s EXCEPT ![cookie] = "over"]>>
    BY <1>2, <1>3 DEF LogoutService
<1>5. [s EXCEPT ![cookie] = "over"][cookie] = "over"
    BY <1>3 DEF Sessions
<1>. QED  BY <1>3, <1>4, <1>5 DEF Page

-----------------------------------------------------------------------------
(***************************************************************************)
(* Parts of the state that steps leave alone.                              *)
(***************************************************************************)

LEMMA DiscardKeeps ==
    ASSUME NEW c \in Context, NEW b \in BOOLEAN
    PROVE  /\ Discard(c, b).otp = c.otp /\ Discard(c, b).otpCred = c.otpCred
           /\ Discard(c, b).mep = c.mep /\ Discard(c, b).mepCred = c.mepCred
BY DEF Discard, Context

LEMMA StoreKeeps ==
    ASSUME NEW c \in Context, NEW user \in BOOLEAN, NEW pass \in BOOLEAN,
           NEW pki \in BOOLEAN, NEW saved \in BOOLEAN
    PROVE  /\ Store(c, user, pass, pki, saved).otp = c.otp
           /\ Store(c, user, pass, pki, saved).otpCred = c.otpCred
           /\ Store(c, user, pass, pki, saved).mep = c.mep
           /\ Store(c, user, pass, pki, saved).mepCred = c.mepCred
BY DEF Store, Context

LEMMA SetOptionsKeep ==
    ASSUME TypeOK
    PROVE  /\ SetOptions.open = curl.open /\ SetOptions.jar = curl.jar
           /\ SetOptions.engine = (curl.engine \/ CookieSession)
BY DEF TypeOK, SetOptions, Handle, CookieSession

LEMMA ReceiveKeeps ==
    ASSUME NEW h \in Handle, NEW r
    PROVE  /\ Receive(h, r).open = h.open /\ Receive(h, r).engine = h.engine
           /\ Receive(h, r).jar = IF h.engine /\ r.cookie # None THEN r.cookie ELSE h.jar
BY DEF Receive, Handle

LEMMA SoapSteps ==
    ASSUME TypeOK
    PROVE  /\ \A err : Finish(err) => /\ call'.pc = "done" /\ call'.err = err
                                      /\ call'.op = call.op /\ call'.to = call.to
           /\ \A url : Redirect(url) => call'.pc = "http" /\ call'.op = call.op /\ call'.to = url
           /\ ReadBody => call'.pc = "body" /\ call'.op = call.op /\ call'.to = call.to
BY DEF TypeOK, Call, Finish, Redirect, ReadBody

\* A handle that is kept, closed or opened anew.
LEMMA HandleSteps ==
    ASSUME Connected, Marked, curl' \in {curl, Closed, Opened},
           curl' \notin {Closed, Opened} => call.pc # "freed" /\ (CookieSession => CookieSession'),
           call'.pc \in {"http", "code", "body"} => curl'.open
    PROVE  Connected' /\ Marked'
<1>1. \A h \in {Closed, Opened} : h.engine = FALSE /\ h.jar = None
    BY DEF Closed, Opened
<1>2. CASE curl' = curl /\ curl' \notin {Closed, Opened}
    BY <1>2 DEF Connected, Marked
<1>3. CASE curl' \in {Closed, Opened}
    BY <1>1, <1>3 DEF Connected, Marked
<1>. QED  BY <1>2, <1>3

LoginsOnly == LoggingOut /\ OtpLoggingIn /\ MepLoggingIn /\ LoginGranted

\* A step that returns anything but a successful log in.
LEMMA ReturnLogs ==
    ASSUME NEW op, NEW err, Return(op, err), ~(op \in {"login", "loginMep"} /\ err = "SUCCESS")
    PROVE  LoginsOnly' /\ call'.pc = "idle"
BY DEF Return, At, LoginsOnly, LoggingOut, OtpLoggingIn, MepLoggingIn, LoginGranted,
   Returned, Idle, Running

\* A step that starts the exchanges of another call than a log in or out.
LEMMA SendLogs ==
    ASSUME NEW op, NEW url, NEW saved, Send(op, url, saved),
           op \notin {"login", "loginMep", "logout", "free"}
    PROVE  LoginsOnly' /\ call'.pc = "http"
BY DEF Send, At, LoginsOnly, LoggingOut, OtpLoggingIn, MepLoggingIn, LoginGranted,
   Returned, Idle, Running

-----------------------------------------------------------------------------
(***************************************************************************)
(* The exchange of a call.                                                 *)
(***************************************************************************)

\* What a log in knows of its cookie once an answer has come.
LEMMA LoginAnswered ==
    ASSUME TypeOK, Connected, HttpAnswered, Target \in LoginPlaces
    PROVE  /\ AnswerKnown'
           /\ Target # "mep" => reply'.to \in OtpPlaces \cup {None}
           /\ Target # "mep" /\ ctx.otp /\ reply'.http = 302 /\ reply'.to = "apps" =>
                Granted(curl.jar)'
           /\ Target = "mep" /\ Acked(curl.jar) /\ reply'.http = 302 => Granted(curl.jar)'
<1>1. PICK x \in Exchanges :
        reply' = x[1] /\ srv' = x[2] /\ curl' = Receive(SetOptions, x[1])
    BY DEF HttpAnswered
<1>2. SetOptions \in Handle /\ SetOptions.jar = curl.jar /\ SetOptions.open = curl.open
    BY SetOptionsType, SetOptionsKeep
<1>3. curl.jar \in Cookie \cup {None} /\ srv \in Sessions
    BY DEF TypeOK, Handle, Sessions
<1>4. x \in Answers(Target, SetOptions.auth, curl.jar, ctx.mep, srv)
    BY <1>2 DEF Exchanges
<1>5. curl'.jar = IF SetOptions.engine /\ x[1].cookie # None THEN x[1].cookie ELSE curl.jar
    BY <1>1, <1>2, ReceiveKeeps
<1>6. call'.pc = "code"
    BY DEF HttpAnswered, TypeOK, Call
<1>7. x[1].body \in {"soap", "refused"} => Granted(curl.jar)'
    BY <1>1, <1>3, <1>4, <1>5, LoginAnswers DEF Granted
<1>8. x[1].body \in {"2", "ACK"} => Acked(curl.jar)'
    BY <1>1, <1>3, <1>4, <1>5, LoginAnswers DEF Acked
<1>9. x[1].to \in LoginPlaces \cup {None}
    BY <1>3, <1>4, LoginAnswers
<1>10. AnswerKnown'
    BY <1>1, <1>6, <1>7, <1>8, <1>9 DEF AnswerKnown
<1>11. Target # "mep" => reply'.to \in OtpPlaces \cup {None}
    BY <1>1, <1>3, <1>4, LoginAnswers
<1>12. ASSUME Target # "mep", ctx.otp, reply'.http = 302, reply'.to = "apps"
       PROVE  Granted(curl.jar)'
  <2>1. x[1].cookie \in Cookie /\ x[2][x[1].cookie] = "live"
      BY <1>1, <1>3, <1>4, <1>12, LoginAnswers
  <2>2. SetOptions.engine
      BY <1>12, SetOptionsKeep DEF CookieSession
  <2>. QED  BY <1>1, <1>5, <2>1, <2>2, CookieAssumption DEF Granted
<1>13. ASSUME Target = "mep", Acked(curl.jar), reply'.http = 302 PROVE Granted(curl.jar)'
    BY <1>1, <1>3, <1>4, <1>5, <1>13, LoginAnswers DEF Granted, Acked
<1>. QED  BY <1>10, <1>11, <1>12, <1>13

LEMMA ExchangeLogs == ASSUME TypeOK, Logins, Exchange PROVE Logins'
<1>. USE DEF Logins
<1>1. call.pc = "http" /\ UNCHANGED <<ctx, appOtp, appMep>> /\ curl.open
    BY DEF Exchange, HttpAnswered, HttpFailed, HttpAborted, Connected
<1>2. /\ call'.op = call.op /\ call'.to = call.to
      /\ HttpAnswered => call'.pc = "code"
      /\ ~HttpAnswered => call'.pc = "done" /\ call'.err \in {"NETWORK", "ABORTED"}
    BY DEF Exchange, HttpAnswered, HttpFailed, HttpAborted, TypeOK, Call
<1>3. SetOptions \in Handle
    BY SetOptionsType
<1>4. \/ curl' = Closed /\ call'.pc = "done"
      \/ /\ curl'.open
         /\ curl'.engine => curl.engine \/ CookieSession
         /\ curl'.jar # None => curl.jar # None \/ curl'.engine
  <2>1. \A r : /\ Receive(SetOptions, r).open
               /\ Receive(SetOptions, r).engine = (curl.engine \/ CookieSession)
               /\ Receive(SetOptions, r).jar # None =>
                    curl.jar # None \/ Receive(SetOptions, r).engine
      BY <1>1, <1>3, ReceiveKeeps, SetOptionsKeep
  <2>2. CASE HttpAnswered
      BY <2>1, <2>2 DEF HttpAnswered
  <2>3. CASE HttpFailed
      BY <2>3 DEF HttpFailed, TypeOK, Call
  <2>4. CASE HttpAborted
      BY <1>1, <2>1, <2>4, SetOptionsKeep DEF HttpAborted
  <2>. QED  BY <2>2, <2>3, <2>4 DEF Exchange
<1>5. Connected' /\ Marked'
  <2>1. CookieSession' = CookieSession
      BY <1>1 DEF CookieSession
  <2>2. CASE curl' = Closed /\ call'.pc = "done"
      BY <2>2 DEF Connected, Marked, Closed
  <2>. QED  BY <1>1, <1>4, <2>1, <2>2 DEF Connected, Marked
<1>6. LoginGranted'
    BY <1>2 DEF LoginGranted, Returned, Idle
<1>7. CASE ~HttpAnswered
  <2>1. LoggingOut'
      BY <1>1, <1>2, <1>7 DEF LoggingOut, Running
  <2>2. call'.pc = "done" /\ call'.err # "SUCCESS" /\ AnswerKnown'
      BY <1>2, <1>7 DEF AnswerKnown
  <2>3. OtpLoggingIn'
      BY <1>1, <1>2, <2>2 DEF OtpLoggingIn, Running
  <2>4. MepLoggingIn'
      BY <1>1, <1>2, <2>2 DEF MepLoggingIn, Running
  <2>. QED  BY <1>5, <1>6, <2>1, <2>3, <2>4
<1>8. CASE HttpAnswered
  <2>1. call'.pc = "code" /\ call.pc \in Running
      BY <1>1, <1>2, <1>8 DEF Running
  <2>2. LoggingOut'
    <3>1. SUFFICES ASSUME call'.op \in {"logout", "free"}
                   PROVE  /\ call'.to = "logout"
                          /\ reply'.http = 200 /\ curl'.jar \in Cookie =>
                               srv'[curl'.jar] # "live"
        BY <2>1 DEF LoggingOut
    <3>2. Target = "logout" /\ call'.to = "logout"
        BY <1>2, <2>1, <3>1 DEF LoggingOut, Target, Soap
    <3>3. PICK x \in Exchanges :
            reply' = x[1] /\ srv' = x[2] /\ curl' = Receive(SetOptions, x[1])
        BY <1>8 DEF HttpAnswered
    <3>4. x \in Answers("logout", SetOptions.auth, curl.jar, ctx.mep, srv)
        BY <3>2, SetOptionsKeep DEF Exchanges
    <3>5. curl.jar \in Cookie \cup {None} /\ srv \in Sessions
        BY DEF TypeOK, Handle, Sessions
    <3>6. curl'.jar = IF SetOptions.engine /\ x[1].cookie # None THEN x[1].cookie ELSE curl.jar
        BY <1>3, <3>3, ReceiveKeeps, SetOptionsKeep
    <3>. QED  BY <3>2, <3>3, <3>4, <3>5, <3>6, LogoutAnswers
  <2>3. OtpLoggingIn'
    <3>1. SUFFICES ASSUME call'.op = "login"
                   PROVE  IF ctx.otp
                          THEN /\ ctx.otpCred
                               /\ call'.to \in OtpPlaces
                               /\ reply'.to \in OtpPlaces \cup {None}
                               /\ reply'.http = 302 /\ reply'.to = "apps" => Granted(curl.jar)'
                               /\ AnswerKnown'
                          ELSE ~ctx.otpCred /\ call'.to = "base"
        BY <1>1, <2>1 DEF OtpLoggingIn
    <3>2. CASE ctx.otp
      <4>1. ctx.otpCred /\ call.to \in OtpPlaces
          BY <1>2, <2>1, <3>1, <3>2 DEF OtpLoggingIn
      <4>2. Target \in LoginPlaces /\ Target # "mep"
          BY <4>1 DEF Target, LoginPlaces, OtpPlaces
      <4>. QED  BY <1>2, <1>8, <3>2, <4>1, <4>2, LoginAnswered
    <3>3. CASE ~ctx.otp
        BY <1>2, <2>1, <3>1, <3>3 DEF OtpLoggingIn
    <3>. QED  BY <3>2, <3>3
  <2>4. MepLoggingIn'
    <3>1. SUFFICES ASSUME call'.op = "loginMep"
                   PROVE  /\ ctx.mepCred
                          /\ call'.to \in LoginPlaces
                          /\ AnswerKnown'
                          /\ ~ctx.otpCred =>
                               /\ call'.to = "mep"
                               /\ appMep.res = "ACK" /\ reply'.http = 302 => Granted(curl.jar)'
        BY <1>1, <2>1 DEF MepLoggingIn
    <3>2. ctx.mepCred /\ call.to \in LoginPlaces
        BY <1>2, <2>1, <3>1 DEF MepLoggingIn
    <3>3. Target \in LoginPlaces
        BY <3>2 DEF Target, LoginPlaces
    <3>4. ASSUME ~ctx.otpCred
          PROVE  /\ call'.to = "mep"
                 /\ appMep.res = "ACK" /\ reply'.http = 302 => Granted(curl.jar)'
      <4>1. call.to = "mep" /\ (appMep.res = "ACK" => ~appMep.uri /\ Acked(curl.jar))
          BY <1>1, <1>2, <2>1, <3>1, <3>4 DEF MepLoggingIn
      <4>2. appMep.res = "ACK" => Target = "mep"
          BY <4>1 DEF Target, Polling
      <4>. QED  BY <1>2, <1>8, <3>3, <4>1, <4>2, LoginAnswered
    <3>. QED  BY <1>2, <1>8, <3>2, <3>3, <3>4, LoginAnswered
  <2>. QED  BY <1>5, <1>6, <2>2, <2>3, <2>4
<1>. QED  BY <1>7, <1>8

\* What the branches of _isds_soap() have in common.
LEMMA AnswerKeeps ==
    ASSUME TypeOK, Answer
    PROVE  /\ call.pc \in {"code", "body"} /\ call.pc \in Running
           /\ call.pc = "code" => call.op \notin {"logout", "free"}
           /\ call'.op = call.op /\ call'.pc \in {"http", "body", "done"}
           /\ UNCHANGED <<reply, srv>>
           /\ curl'.open = curl.open /\ curl'.jar = curl.jar /\ curl'.engine = curl.engine
           /\ ctx'.otp = ctx.otp /\ ctx'.otpCred = ctx.otpCred
           /\ ctx'.mep = ctx.mep /\ ctx'.mepCred = ctx.mepCred
<1>1. /\ call.pc \in {"code", "body"} /\ call.pc \in Running
      /\ call.pc = "code" => call.op \notin {"logout", "free"}
      /\ UNCHANGED <<reply, srv>>
    BY DEF Answer, AnswerOk, MepWait, MepAcknowledged, MepFailed, OtpRedirect,
       OtpCodeNeeded, MepRequested, MepLoggedIn, MepStrayRedirect, AnswerRefused,
       AnswerOther, BodyRead, Coded, Soap, Running
<1>2. call'.op = call.op /\ call'.pc \in {"http", "body", "done"}
    BY SoapSteps DEF Answer, AnswerOk, MepWait, MepAcknowledged, MepFailed, OtpRedirect,
       OtpCodeNeeded, MepRequested, MepLoggedIn, MepStrayRedirect, AnswerRefused,
       AnswerOther, BodyRead
<1>3. /\ UNCHANGED ctx \/ ctx' = Discard(ctx, FALSE)
      /\ UNCHANGED curl \/ curl' = UnsetAuthorization(curl)
    BY DEF Answer, AnswerOk, MepWait, MepAcknowledged, MepFailed, OtpRedirect,
       OtpCodeNeeded, MepRequested, MepLoggedIn, MepStrayRedirect, AnswerRefused,
       AnswerOther, BodyRead
<1>4. LET h == UnsetAuthorization(curl) IN
      h.open = curl.open /\ h.jar = curl.jar /\ h.engine = curl.engine
    BY DEF UnsetAuthorization, TypeOK, Handle
<1>5. /\ ctx'.otp = ctx.otp /\ ctx'.otpCred = ctx.otpCred
      /\ ctx'.mep = ctx.mep /\ ctx'.mepCred = ctx.mepCred
    BY <1>3, DiscardKeeps DEF TypeOK
<1>. QED  BY <1>1, <1>2, <1>3, <1>4, <1>5

\* How the branches go on.
LEMMA AnswerGoes ==
    ASSUME TypeOK, Answer
    PROVE  \/ MepLoggedIn \/ BodyRead
           \/ (MepAcknowledged \/ MepRequested \/ OtpRedirect) /\ call'.pc = "http"
           \/ call.pc = "code" /\ call'.pc = "body"
           \/ call'.pc = "done" /\ call'.err # "SUCCESS"
<1>1. CASE AnswerOk \/ MepStrayRedirect \/ AnswerOther
    BY <1>1, SoapSteps DEF AnswerOk, MepStrayRedirect, AnswerOther, Coded
<1>2. CASE MepWait \/ MepFailed \/ OtpCodeNeeded
    BY <1>2, SoapSteps DEF MepWait, MepFailed, OtpCodeNeeded
<1>3. CASE AnswerRefused
  <2>1. CodeError # "SUCCESS"
      BY DEF CodeError
  <2>. QED  BY <1>3, <2>1, SoapSteps DEF AnswerRefused
<1>4. CASE MepAcknowledged \/ MepRequested \/ OtpRedirect
    BY <1>4, SoapSteps DEF MepAcknowledged, MepRequested, OtpRedirect
<1>. QED  BY <1>1, <1>2, <1>3, <1>4 DEF Answer

\* The branch that finishes a log in by itself has to know of a session; the
\* others read it from the answer.
LEMMA AnswerKeepsKnown ==
    ASSUME TypeOK, Connected, Answer, AnswerKnown, MepLoggedIn => Granted(curl.jar)
    PROVE  AnswerKnown'
<1>1. \/ MepLoggedIn
      \/ BodyRead
      \/ call'.pc = "http"
      \/ call'.pc = "body" /\ call.pc = "code"
      \/ call'.pc = "done" /\ call'.err # "SUCCESS"
    BY AnswerGoes
<1>2. UNCHANGED reply /\ Granted(curl.jar)' = Granted(curl.jar) /\ curl'.open = curl.open
    BY AnswerKeeps DEF Granted
<1>3. curl.open
    BY AnswerKeeps DEF Connected
<1>4. CASE MepLoggedIn
    BY <1>2, <1>3, <1>4, SoapSteps DEF MepLoggedIn, AnswerKnown
<1>5. CASE BodyRead
  <2>1. call.pc = "body" /\ call'.pc = "done" /\ call'.err = BodyResult
      BY <1>5, SoapSteps DEF BodyRead
  <2>2. BodyResult = "SUCCESS" => reply.body \in {"soap", "refused"}
      BY DEF BodyResult
  <2>. QED  BY <1>2, <1>3, <2>1, <2>2 DEF AnswerKnown
<1>6. CASE call'.pc = "http"
    BY <1>6 DEF AnswerKnown
<1>7. CASE call'.pc = "body" /\ call.pc = "code"
    BY <1>2, <1>7 DEF AnswerKnown
<1>8. CASE call'.pc = "done" /\ call'.err # "SUCCESS"
    BY <1>8 DEF AnswerKnown
<1>. QED  BY <1>1, <1>4, <1>5, <1>6, <1>7, <1>8

LEMMA AnswerLogs == ASSUME TypeOK, Logins, Answer PROVE Logins'
<1>. USE DEF Logins
<1>1. Connected' /\ Marked'
    BY AnswerKeeps DEF Connected, Marked, CookieSession
<1>2. LoggingOut'
    BY AnswerKeeps DEF LoggingOut
<1>3. LoginGranted'
    BY AnswerKeeps DEF LoginGranted, Returned, Idle
<1>4. Granted(curl.jar)' = Granted(curl.jar) /\ Acked(curl.jar)' = Acked(curl.jar)
    BY AnswerKeeps DEF Granted, Acked
<1>5. OtpLoggingIn'
  <2>1. SUFFICES ASSUME call.op = "login"
                 PROVE  IF ctx.otp
                        THEN /\ ctx.otpCred
                             /\ call'.to \in OtpPlaces
                             /\ call'.pc = "http" /\ call'.to = "apps" => Granted(curl.jar)
                             /\ AnswerKnown'
                        ELSE ~ctx.otpCred /\ call'.to = "base"
      BY <1>4, AnswerKeeps DEF OtpLoggingIn
  <2>2. CASE ctx.otp
    <3>1. /\ ctx.otpCred /\ call.to \in OtpPlaces /\ AnswerKnown
          /\ call.pc = "code" => reply.to \in OtpPlaces \cup {None}
          /\ call.pc = "code" /\ reply.http = 302 /\ reply.to = "apps" => Granted(curl.jar)
        BY <2>1, <2>2, AnswerKeeps DEF OtpLoggingIn
    <3>2. \/ AnswerOk \/ OtpRedirect \/ OtpCodeNeeded \/ AnswerRefused \/ AnswerOther
          \/ BodyRead
        BY <3>1 DEF Answer, MepWait, MepAcknowledged, MepFailed, MepRequested, MepLoggedIn,
           MepStrayRedirect, Mep, Otp
    <3>3. CASE OtpRedirect
      <4>1. call'.to = reply.to /\ reply.to # None /\ call.pc = "code" /\ reply.http = 302
          BY <3>3, SoapSteps DEF OtpRedirect, Coded
      <4>. QED
          BY <2>2, <3>1, <3>3, <4>1, AnswerKeepsKnown DEF MepLoggedIn, Mep, Otp
    <3>4. CASE ~OtpRedirect
      <4>1. call'.pc # "http" /\ call'.to = call.to
          BY <3>2, <3>4, SoapSteps DEF AnswerOk, OtpCodeNeeded, AnswerRefused, AnswerOther,
             BodyRead
      <4>. QED
          BY <2>2, <3>1, <4>1, AnswerKeepsKnown DEF MepLoggedIn, Mep, Otp
    <3>. QED  BY <3>3, <3>4
  <2>3. CASE ~ctx.otp
    <3>1. ~ctx.otpCred /\ call.to = "base"
        BY <2>1, <2>3, AnswerKeeps DEF OtpLoggingIn
    <3>2. call'.to = call.to
        BY <3>1, SoapSteps DEF Answer, AnswerOk, MepWait, MepAcknowledged, MepFailed, OtpRedirect,
       OtpCodeNeeded, MepRequested, MepLoggedIn, MepStrayRedirect, AnswerRefused,
       AnswerOther, BodyRead, Otp
    <3>. QED  BY <2>3, <3>1, <3>2
  <2>. QED  BY <2>2, <2>3
<1>6. MepLoggingIn'
  <2>1. SUFFICES ASSUME call.op = "loginMep"
                 PROVE  /\ ctx.mepCred
                        /\ call'.to \in LoginPlaces
                        /\ AnswerKnown'
                        /\ ~ctx.otpCred =>
                             /\ call'.to = "mep"
                             /\ call'.pc = "http" /\ appMep'.res = "ACK" =>
                                  ~appMep'.uri /\ Acked(curl.jar)
      BY <1>4, AnswerKeeps DEF MepLoggingIn
  <2>2. ctx.mepCred /\ call.to \in LoginPlaces /\ AnswerKnown
      BY <2>1, AnswerKeeps DEF MepLoggingIn
  <2>3. ASSUME ~ctx.otpCred
        PROVE  /\ call.to = "mep"
               /\ call.pc = "code" /\ appMep.res = "ACK" /\ reply.http = 302 => Granted(curl.jar)
      BY <2>1, <2>3, AnswerKeeps DEF MepLoggingIn
  <2>4. AnswerKnown'
      BY <2>2, <2>3, AnswerKeepsKnown DEF MepLoggedIn, Mep, Otp, Coded
  <2>5. call'.to \in LoginPlaces
    <3>1. CASE OtpRedirect
        BY <2>2, <3>1, SoapSteps DEF OtpRedirect, Coded, AnswerKnown
    <3>2. CASE ~OtpRedirect
      <4>1. call'.to = call.to
          BY <3>2, SoapSteps DEF Answer, AnswerOk, MepWait, MepAcknowledged, MepFailed, OtpRedirect,
       OtpCodeNeeded, MepRequested, MepLoggedIn, MepStrayRedirect, AnswerRefused,
       AnswerOther, BodyRead
      <4>. QED  BY <2>2, <4>1
    <3>. QED  BY <3>1, <3>2
  <2>6. ASSUME ~ctx.otpCred
        PROVE  /\ call'.to = "mep"
               /\ call'.pc = "http" /\ appMep'.res = "ACK" => ~appMep'.uri /\ Acked(curl.jar)
    <3>1. call'.to = "mep"
        BY <2>3, <2>6, SoapSteps DEF Answer, AnswerOk, MepWait, MepAcknowledged, MepFailed, OtpRedirect,
       OtpCodeNeeded, MepRequested, MepLoggedIn, MepStrayRedirect, AnswerRefused,
       AnswerOther, BodyRead, Otp
    <3>2. CASE MepAcknowledged
      <4>1. reply.body \in {"2", "ACK"}
          BY <3>2 DEF MepAcknowledged, MepStatusResolution, MepStatusValue
      <4>2. ~appMep'.uri
          BY <3>2 DEF MepAcknowledged, TypeOK, MepArgument
      <4>. QED  BY <2>2, <3>1, <3>2, <4>1, <4>2 DEF MepAcknowledged, Coded, AnswerKnown
    <3>3. CASE MepRequested
      <4>1. appMep'.res = "ACK_REQUESTED"
          BY <3>3 DEF MepRequested, TypeOK, MepArgument
      <4>. QED  BY <3>1, <4>1
    <3>4. CASE ~(MepAcknowledged \/ MepRequested)
      <4>1. ~OtpRedirect
          BY <2>6 DEF OtpRedirect, Otp
      <4>2. MepLoggedIn \/ BodyRead => call'.pc # "http"
          BY SoapSteps DEF MepLoggedIn, BodyRead
      <4>3. call'.pc # "http"
          BY <3>4, <4>1, <4>2, AnswerGoes
      <4>. QED  BY <3>1, <4>3
    <3>. QED  BY <3>2, <3>3, <3>4
  <2>. QED  BY <2>2, <2>4, <2>5, <2>6
<1>. QED  BY <1>1, <1>2, <1>3, <1>5, <1>6

-----------------------------------------------------------------------------
(***************************************************************************)
(* The calls.                                                              *)
(***************************************************************************)

LEMMA ResetKeeps ==
    ASSUME TypeOK
    PROVE  /\ Reset \in Context /\ Reset.otp = ctx.otp /\ Reset.otpCred = ctx.otpCred
           /\ Reset.mep = ctx.mep
BY DEF Reset, TypeOK, Context, Url

LEMMA LoginLogs == ASSUME TypeOK, Logins, Login \/ LoginDone PROVE Logins'
<1>. USE DEF Logins, LoginsOnly
<1>1. \A op, err : Return(op, err) => call'.pc = "idle"
    BY DEF Return, At
<1>2. CASE LoginMissingPassword \/ LoginUnknownMethod \/ LoginOutOfMemory
  <2>1. \E err \in {"INVAL", "ENUM", "NOMEM", "ERROR"} : Return("login", err)
      BY <1>2 DEF LoginMissingPassword, LoginUnknownMethod, LoginOutOfMemory
  <2>2. curl' \in {Closed, Opened}
      BY <1>2 DEF LoginMissingPassword, LoginUnknownMethod, LoginOutOfMemory
  <2>3. LoginsOnly' /\ call'.pc = "idle"
      BY <2>1, ReturnLogs
  <2>4. Connected' /\ Marked'
      BY <2>2, <2>3, HandleSteps
  <2>. QED  BY <2>3, <2>4
<1>3. CASE LoginSend
  <2>1. PICK a \in LoginArguments :
          /\ ctx' = Store(Discard(LoginConfigured(a.pki, a.otp), TRUE), a.user, a.pass, a.pki, FALSE)
          /\ Send("login", LoginConfigured(a.pki, a.otp).url, None)
      BY <1>3 DEF LoginSend
  <2>2. a.pki \in BOOLEAN /\ a.otp \in BOOLEAN /\ (a.pki => ~a.otp)
      BY DEF LoginArguments
  <2>3. PICK c \in Context :
          /\ c = LoginConfigured(a.pki, a.otp)
          /\ c.otp = a.otp /\ c.otpCred = a.otp
          /\ c.url = LoginUrl(a.pki, a.otp)
      BY <2>2, ConfiguredLogin
  <2>4. ctx'.otp = a.otp /\ ctx'.otpCred = a.otp
    <3>1. PICK d \in Context :
            d = Discard(c, TRUE) /\ d.otp = c.otp /\ d.otpCred = c.otpCred
        BY DiscardType, DiscardKeeps
    <3>2. a.user \in BOOLEAN /\ a.pass \in BOOLEAN
        BY DEF LoginArguments
    <3>3. ctx' = Store(d, a.user, a.pass, a.pki, FALSE)
        BY <2>1, <2>3, <3>1
    <3>4. ctx'.otp = d.otp /\ ctx'.otpCred = d.otpCred
        BY <3>3 DEF Store, Context
    <3>. QED  BY <2>3, <3>1, <3>4
  <2>5. call'.op = "login" /\ call'.pc = "http" /\ call'.to = LoginUrl(a.pki, a.otp)
      BY <2>1, <2>3 DEF Send, At
  <2>6. LoginUrl(a.pki, a.otp) \in IF a.otp THEN {"hotp", "totp", "sendsms"} ELSE {"base"}
      BY <2>2 DEF LoginUrl
  <2>7. OtpLoggingIn'
      BY <2>4, <2>5, <2>6 DEF OtpLoggingIn, AnswerKnown, OtpPlaces
  <2>8. curl' = Opened /\ curl'.open
      BY <1>3 DEF LoginSend, Opened, Closed
  <2>9. Connected' /\ Marked'
      BY <2>8, HandleSteps
  <2>. QED
      BY <2>5, <2>7, <2>9 DEF LoggingOut, MepLoggingIn, LoginGranted, Returned, Idle
<1>4. CASE LoginDone
  <2>1. PICK lost \in BOOLEAN :
          /\ ctx' = Discard(IF ctx.otp
                            THEN [ctx EXCEPT !.url = IF lost THEN None ELSE "apps",
                                             !.vurl = "apps", !.otpCred = FALSE]
                            ELSE ctx, FALSE)
          /\ curl' = IF (IF lost THEN "NOMEM" ELSE call.err) = "SUCCESS" THEN curl ELSE Closed
          /\ Return("login", IF lost THEN "NOMEM" ELSE call.err)
      BY <1>4 DEF LoginDone
  <2>2. /\ [ctx EXCEPT !.url = IF lost THEN None ELSE "apps", !.vurl = "apps",
                       !.otpCred = FALSE] \in Context
        /\ [ctx EXCEPT !.url = IF lost THEN None ELSE "apps", !.vurl = "apps",
                       !.otpCred = FALSE].otp = ctx.otp
        /\ [ctx EXCEPT !.url = IF lost THEN None ELSE "apps", !.vurl = "apps",
                       !.otpCred = FALSE].mep = ctx.mep
      BY DEF TypeOK, Context, Url, Location
  <2>3. ctx'.otp = ctx.otp /\ ctx'.mep = ctx.mep
    <3>1. PICK base \in Context :
            ctx' = Discard(base, FALSE) /\ base.otp = ctx.otp /\ base.mep = ctx.mep
        BY <2>1, <2>2 DEF TypeOK
    <3>. QED  BY <3>1, DiscardKeeps
  <2>4. Connected' /\ Marked' /\ call'.pc = "idle"
      BY <1>1, <1>4, <2>1, <2>3, HandleSteps DEF LoginDone, CookieSession
  <2>5. CASE lost \/ call.err # "SUCCESS"
      BY <2>1, <2>4, <2>5, ReturnLogs
  <2>6. CASE ~lost /\ call.err = "SUCCESS"
    <3>1. ctx.otp => curl.open /\ Granted(curl.jar)
        BY <1>4, <2>6 DEF LoginDone, OtpLoggingIn, AnswerKnown, Running
    <3>2. LoginGranted'
      <4>1. ctx'.otp => curl'.open /\ Granted(curl.jar)'
          BY <1>4, <2>1, <2>3, <2>6, <3>1 DEF LoginDone, Granted
      <4>2. call'.op = "login"
          BY <2>1 DEF Return, At
      <4>. QED  BY <4>1, <4>2 DEF LoginGranted, Returned
    <3>. QED  BY <2>4, <3>2 DEF LoggingOut, OtpLoggingIn, MepLoggingIn, Running
  <2>. QED  BY <2>5, <2>6
<1>. QED  BY <1>2, <1>3, <1>4 DEF Login

LEMMA LoginMepLogs == ASSUME TypeOK, Logins, LoginMep \/ LoginMepDone PROVE Logins'
<1>. USE DEF Logins, LoginsOnly
<1>1. /\ LoginMepConfigured \in Context /\ LoginMepConfigured.mep # "NONE"
      /\ LoginMepConfigured.mepCred
  <2>1. appMep.kind \in {"BASIC", "EXTENDED"}
      BY KindAssumption DEF TypeOK, MepArgument
  <2>. QED  BY <2>1, ResetKeeps DEF LoginMepConfigured, Context, Url, Location
<1>2. MepHandle \in {curl, Opened} /\ MepHandle.open
    BY DEF MepHandle, Opened, Closed
<1>3. CASE LoginMepBadArgument
  <2>1. LoginsOnly' /\ call'.pc = "idle"
      BY <1>3, ReturnLogs DEF LoginMepBadArgument
  <2>2. Connected' /\ Marked'
      BY <1>3, <2>1, ResetKeeps, HandleSteps DEF LoginMepBadArgument, CookieSession, Idle
  <2>. QED  BY <2>1, <2>2
<1>4. CASE LoginMepOutOfMemory
  <2>1. \E err \in {"NOMEM", "ERROR"} : Return("loginMep", err)
      BY <1>4 DEF LoginMepOutOfMemory
  <2>2. LoginsOnly' /\ call'.pc = "idle"
      BY <2>1, ReturnLogs
  <2>3. CookieSession'
    <3>1. [LoginMepConfigured EXCEPT !.url = None].mep = LoginMepConfigured.mep
        BY <1>1 DEF Context
    <3>2. ctx'.mep # "NONE"
        BY <1>1, <1>4, <3>1, DiscardKeeps DEF LoginMepOutOfMemory
    <3>. QED  BY <3>2 DEF CookieSession
  <2>4. Connected' /\ Marked'
      BY <1>2, <1>4, <2>2, <2>3, HandleSteps DEF LoginMepOutOfMemory, Idle
  <2>. QED  BY <2>2, <2>4
<1>5. CASE LoginMepSend
  <2>1. PICK d \in Context :
          d = Discard(LoginMepConfigured, TRUE) /\ d.mep # "NONE" /\ d.mepCred
      BY <1>1, DiscardType, DiscardKeeps
  <2>2. ctx'.mep # "NONE" /\ ctx'.mepCred
    <3>1. ctx' = Store(d, TRUE, TRUE, FALSE, FALSE)
        BY <1>5, <2>1 DEF LoginMepSend
    <3>. QED  BY <2>1, <3>1, StoreKeeps
  <2>3. call'.op = "loginMep" /\ call'.pc = "http" /\ call'.to = "mep"
      BY <1>5 DEF LoginMepSend, Send, At
  <2>4. appMep'.res = "UNKNOWN"
      BY <1>5 DEF LoginMepSend, TypeOK, MepArgument
  <2>5. MepLoggingIn'
      BY <2>2, <2>3, <2>4 DEF MepLoggingIn, AnswerKnown, LoginPlaces
  <2>6. Connected' /\ Marked'
      BY <1>2, <1>5, <2>2, <2>3, HandleSteps DEF LoginMepSend, Idle, CookieSession
  <2>. QED
      BY <2>3, <2>5, <2>6 DEF LoggingOut, OtpLoggingIn, LoginGranted, Returned, Idle
<1>6. CASE LoginMepDone
  <2>1. PICK lost \in BOOLEAN :
          /\ ctx' = Discard([ctx EXCEPT !.url = IF lost THEN None ELSE "apps",
                                        !.vurl = "apps", !.mepCred = FALSE], FALSE)
          /\ curl' = IF KeepsConnection(IF lost THEN "NOMEM" ELSE call.err) THEN curl ELSE Closed
          /\ Return("loginMep", IF lost THEN "NOMEM" ELSE call.err)
      BY <1>6 DEF LoginMepDone
  <2>2. /\ [ctx EXCEPT !.url = IF lost THEN None ELSE "apps", !.vurl = "apps",
                       !.mepCred = FALSE] \in Context
        /\ [ctx EXCEPT !.url = IF lost THEN None ELSE "apps", !.vurl = "apps",
                       !.mepCred = FALSE].otp = ctx.otp
        /\ [ctx EXCEPT !.url = IF lost THEN None ELSE "apps", !.vurl = "apps",
                       !.mepCred = FALSE].mep = ctx.mep
      BY DEF TypeOK, Context, Url, Location
  <2>3. ctx'.otp = ctx.otp /\ ctx'.mep = ctx.mep
      BY <2>1, <2>2, DiscardKeeps
  <2>4. call'.pc = "idle" /\ call'.op = "loginMep"
      BY <2>1 DEF Return, At
  <2>5. Connected' /\ Marked'
      BY <1>6, <2>1, <2>3, <2>4, HandleSteps DEF LoginMepDone, CookieSession
  <2>6. CASE lost \/ call.err # "SUCCESS"
      BY <2>1, <2>5, <2>6, ReturnLogs
  <2>7. CASE ~lost /\ call.err = "SUCCESS"
    <3>1. curl.open /\ Granted(curl.jar)
        BY <1>6, <2>7 DEF LoginMepDone, MepLoggingIn, AnswerKnown, Running
    <3>2. LoginGranted'
        BY <1>6, <2>1, <2>7, <3>1 DEF LoginMepDone, KeepsConnection, LoginGranted, Granted
    <3>. QED  BY <2>4, <2>5, <3>2 DEF LoggingOut, OtpLoggingIn, MepLoggingIn, Running
  <2>. QED  BY <2>6, <2>7
<1>. QED  BY <1>3, <1>4, <1>5, <1>6 DEF LoginMep

LEMMA ServiceLogs ==
    ASSUME TypeOK, Logins, Service \/ ServiceDone \/ ConversionDone PROVE Logins'
<1>. USE DEF Logins, LoginsOnly
<1>1. CASE ServiceClosed \/ ServiceDone \/ ConversionDone
  <2>1. PICK op \in {"service", "vodz", "CZP", "TESTING"} : \E err : Return(op, err)
      BY <1>1 DEF ServiceClosed, ServiceDone, ConversionDone
  <2>2. LoginsOnly' /\ call'.pc = "idle"
      BY <2>1, ReturnLogs
  <2>3. curl' \in {curl, Closed} /\ UNCHANGED ctx /\ call.pc # "freed"
      BY <1>1 DEF ServiceClosed, ServiceDone, ConversionDone, Idle
  <2>4. Connected' /\ Marked'
      BY <2>2, <2>3, HandleSteps DEF CookieSession
  <2>. QED  BY <2>2, <2>4
<1>2. CASE ServiceSend
  <2>1. LoginsOnly' /\ call'.pc \in {"idle", "http"}
      BY <1>2, ReturnLogs, SendLogs DEF ServiceSend
  <2>2. Connected' /\ Marked'
      BY <1>2, <2>1, HandleSteps DEF ServiceSend, CookieSession, Idle
  <2>. QED  BY <2>1, <2>2
<1>3. CASE AnonymousSend
  <2>1. PICK t \in {"CZP", "TESTING"} :
          ctx' = [ctx EXCEPT !.type = t, !.url = "deposit"] /\ Send(t, "deposit", None)
      BY <1>3 DEF AnonymousSend
  <2>2. ctx'.otp = ctx.otp /\ ctx'.mep = ctx.mep
      BY <2>1 DEF TypeOK, Context
  <2>3. LoginsOnly' /\ call'.pc = "http"
      BY <2>1, SendLogs
  <2>4. curl' \in {curl, Opened} /\ curl'.open
      BY <1>3 DEF AnonymousSend, Opened, Closed
  <2>5. Connected' /\ Marked'
      BY <1>3, <2>2, <2>3, <2>4, HandleSteps DEF AnonymousSend, CookieSession, Idle
  <2>. QED  BY <2>3, <2>5
<1>. QED  BY <1>1, <1>2, <1>3 DEF Service

LEMMA ChangePasswordLogs ==
    ASSUME TypeOK, Logins, ChangePassword \/ ChangePasswordDone \/ TotpRequestDone
    PROVE  Logins'
<1>. USE DEF Logins, LoginsOnly
<1>1. \/ \E err : Return("changePassword", err)
      \/ \E op \in {"service", "requestTotp", "changePassword"} : \E url, saved :
            Send(op, url, saved) /\ curl.open
  <2>1. CASE ChangePassword
      BY <2>1 DEF ChangePassword, ChangePasswordRefused, ChangePasswordPlain,
         ChangePasswordOtpRefused, ChangePasswordSend, ChangePasswordOutOfMemory
  <2>2. CASE ChangePasswordDone \/ TotpRequestDone
      BY <2>2 DEF ChangePasswordDone, TotpRequestDone
  <2>. QED  BY <2>1, <2>2
<1>2. LoginsOnly' /\ (call'.pc = "idle" \/ (call'.pc = "http" /\ curl.open))
  <2>1. CASE \E err : Return("changePassword", err)
      BY <2>1, ReturnLogs
  <2>2. CASE ~\E err : Return("changePassword", err)
    <3>1. PICK op \in {"service", "requestTotp", "changePassword"} :
            \E url, saved : Send(op, url, saved) /\ curl.open
        BY <1>1, <2>2
    <3>. QED  BY <3>1, SendLogs
  <2>. QED  BY <2>1, <2>2
<1>3. UNCHANGED curl /\ call.pc # "freed"
    BY DEF ChangePassword, ChangePasswordRefused, ChangePasswordPlain,
       ChangePasswordOtpRefused, ChangePasswordSend, ChangePasswordOutOfMemory,
       ChangePasswordDone, TotpRequestDone, Idle
<1>4. ctx'.otp = ctx.otp /\ ctx'.mep = ctx.mep
  <2>1. PICK c \in Context : c = ChangeContext /\ c.otp = ctx.otp /\ c.mep = ctx.mep
    <3>1. /\ [ctx EXCEPT !.url = "asws", !.otpCred = TRUE] \in Context
          /\ [ctx EXCEPT !.url = "asws", !.otpCred = TRUE].otp = ctx.otp
          /\ [ctx EXCEPT !.url = "asws", !.otpCred = TRUE].mep = ctx.mep
        BY DEF TypeOK, Context, Url, Location
    <3>2. ChangeContext \in Context
        BY <3>1, DiscardType DEF ChangeContext
    <3>3. ChangeContext.otp = ctx.otp /\ ChangeContext.mep = ctx.mep
        BY <3>1, DiscardKeeps DEF ChangeContext
    <3>. QED  BY <3>2, <3>3
  <2>2. ChangeRestored.otp = ctx.otp /\ ChangeRestored.mep = ctx.mep
    <3>1. /\ [ctx EXCEPT !.url = call.savedUrl, !.otpCred = FALSE] \in Context
          /\ [ctx EXCEPT !.url = call.savedUrl, !.otpCred = FALSE].otp = ctx.otp
          /\ [ctx EXCEPT !.url = call.savedUrl, !.otpCred = FALSE].mep = ctx.mep
        BY DEF TypeOK, Context, Call
    <3>. QED  BY <3>1, DiscardKeeps DEF ChangeRestored
  <2>3. CASE ChangePasswordSend
    <3>1. ctx' = Store(c, ctx.savedUser, TRUE, FALSE, TRUE)
        BY <2>1, <2>3 DEF ChangePasswordSend
    <3>. QED  BY <2>1, <3>1 DEF Store, Context
  <2>4. CASE ChangePasswordOutOfMemory
    <3>1. ctx' = ctx \/ ctx' = [c EXCEPT !.url = ctx.url]
        BY <2>1, <2>4 DEF ChangePasswordOutOfMemory
    <3>. QED  BY <2>1, <3>1 DEF Context
  <2>5. CASE ChangePasswordDone \/ TotpRequestDone
      BY <2>2, <2>5 DEF ChangePasswordDone, TotpRequestDone
  <2>6. CASE ChangePasswordRefused \/ ChangePasswordPlain \/ ChangePasswordOtpRefused
      BY <2>6 DEF ChangePasswordRefused, ChangePasswordPlain, ChangePasswordOtpRefused
  <2>. QED  BY <2>3, <2>4, <2>5, <2>6 DEF ChangePassword
<1>5. Connected' /\ Marked'
    BY <1>2, <1>3, <1>4, HandleSteps DEF CookieSession
<1>. QED  BY <1>2, <1>5

LEMMA LoggedOutKeeps ==
    ASSUME TypeOK
    PROVE  /\ LoggedOut.otp = ctx.otp /\ LoggedOut.mep = ctx.mep
           /\ LoggedOut.url = None /\ LoggedOut.vurl = None /\ LoggedOut.savedUser = FALSE
<1>. DEFINE base == [ctx EXCEPT !.url = None, !.vurl = None]
<1>1. /\ base \in Context
      /\ base.otp = ctx.otp /\ base.mep = ctx.mep
      /\ base.url = None /\ base.vurl = None
    BY DEF TypeOK, Context, Url
<1>2. LoggedOut = Discard(base, TRUE)
    BY DEF LoggedOut
<1>. HIDE DEF base
<1>3. LoggedOut.otp = ctx.otp /\ LoggedOut.mep = ctx.mep
    BY <1>1, <1>2, DiscardKeeps
<1>4. LoggedOut.url = base.url /\ LoggedOut.vurl = base.vurl /\ LoggedOut.savedUser = FALSE
    BY <1>1, <1>2 DEF Discard, Context
<1>. QED  BY <1>1, <1>3, <1>4

LEMMA LogoutLogs ==
    ASSUME TypeOK, Logins, Logout \/ LogoutAnswered \/ LogoutFailed \/ CtxCreate
    PROVE  Logins'
<1>. USE DEF Logins, LoginsOnly
<1>1. ASSUME NEW op \in {"logout", "free"}, NEW err, EndLogout(op, err),
             curl' \in {curl, Closed}, call.pc # "freed"
      PROVE  Logins'
  <2>1. LoginsOnly'
      BY <1>1 DEF EndLogout, At, LoggingOut, OtpLoggingIn, MepLoggingIn, LoginGranted,
         Returned, Idle, Running
  <2>2. CASE op = "free"
      BY <1>1, <2>1, <2>2 DEF EndLogout, At, Connected, Marked, Closed
  <2>3. CASE op = "logout"
    <3>1. ctx'.otp = ctx.otp /\ ctx'.mep = ctx.mep /\ call'.pc = "idle"
        BY <1>1, <2>3, LoggedOutKeeps DEF EndLogout, At
    <3>. QED  BY <1>1, <2>1, <3>1, HandleSteps DEF CookieSession
  <2>. QED  BY <2>2, <2>3
<1>2. CASE LogoutLocal
    BY <1>1, <1>2 DEF LogoutLocal, Idle
<1>3. CASE LogoutWithoutUrl
    BY <1>1, <1>3 DEF LogoutWithoutUrl, Idle
<1>4. CASE LogoutAnswered
    BY <1>1, <1>4 DEF LogoutAnswered
<1>5. CASE LogoutFailed
    BY <1>1, <1>5 DEF LogoutFailed
<1>6. CASE LogoutSend
  <2>1. PICK op \in {"logout", "free"} : Send(op, "logout", None)
      BY <1>6 DEF LogoutSend
  <2>2. call'.op = op /\ call'.pc = "http" /\ call'.to = "logout"
      BY <2>1 DEF Send, At
  <2>3. Connected' /\ Marked'
      BY <1>6, <2>2, HandleSteps DEF LogoutSend, CookieSession, Idle
  <2>. QED
      BY <2>2, <2>3 DEF LoggingOut, OtpLoggingIn, MepLoggingIn, LoginGranted, Returned, Idle
<1>7. CASE CtxCreate
  <2>1. call'.op = "none" /\ call'.pc = "idle"
      BY <1>7 DEF CtxCreate, At
  <2>2. Connected' /\ Marked'
      BY <1>7, <2>1 DEF CtxCreate, Closed, Connected, Marked
  <2>. QED
      BY <2>1, <2>2 DEF LoggingOut, OtpLoggingIn, MepLoggingIn, LoginGranted, Returned,
         Idle, Running
<1>. QED  BY <1>2, <1>3, <1>4, <1>5, <1>6, <1>7 DEF Logout

\* The server grants no session by itself, nor takes a grant back.
LEMMA EnvironmentKeeps ==
    ASSUME TypeOK, Environment, NEW c
    PROVE  /\ Granted(c) => c \in Cookie /\ srv'[c] \in {"live", "over"}
           /\ Acked(c) => c \in Cookie /\ srv'[c] = "mepAcked"
           /\ c \in Cookie /\ srv[c] # "live" => srv'[c] # "live"
<1>1. PICK d \in Cookie, to \in {"mepAcked", "mepGone", "over"} :
        /\ srv[d] = IF to = "over" THEN "live" ELSE "mepWaiting"
        /\ srv' = [srv EXCEPT ![d] = to]
    BY DEF Environment, UserAcknowledges, RequestExpires, SessionExpires, SessionMoves
<1>2. c \in Cookie => srv'[c] = IF c = d THEN to ELSE srv[c]
    BY <1>1 DEF TypeOK
<1>. QED  BY <1>1, <1>2 DEF Granted, Acked

LEMMA SurroundingsLog ==
    ASSUME TypeOK, Logins, CodeEntered \/ MepAbandoned \/ Environment PROVE Logins'
<1>. USE DEF Logins
<1>1. CASE CodeEntered \/ MepAbandoned
  <2>1. call'.op = "none" /\ call'.pc = "idle" /\ UNCHANGED <<ctx, curl>> /\ call.pc # "freed"
    <3>1. CASE CodeEntered
        BY <3>1 DEF CodeEntered, ResultForgotten, At, Idle
    <3>2. CASE MepAbandoned
        BY <3>2 DEF MepAbandoned, ResultForgotten, At, Idle
    <3>. QED  BY <1>1, <3>1, <3>2
  <2>2. Connected' /\ Marked'
      BY <2>1 DEF Connected, Marked, CookieSession
  <2>. QED
      BY <2>1, <2>2 DEF LoggingOut, OtpLoggingIn, MepLoggingIn, LoginGranted, Returned,
         Idle, Running
<1>2. CASE Environment
  <2>1. UNCHANGED <<ctx, curl, appOtp, appMep, call, reply>>
      BY <1>2 DEF Environment, UserAcknowledges, RequestExpires, SessionExpires, SessionMoves
  <2>2. /\ Granted(curl.jar) => Granted(curl.jar)'
        /\ Acked(curl.jar) => Acked(curl.jar)'
        /\ curl.jar \in Cookie /\ srv[curl.jar] # "live" => srv'[curl.jar] # "live"
      BY <1>2, <2>1, EnvironmentKeeps DEF Granted, Acked
  <2>3. Connected' /\ Marked'
      BY <2>1 DEF Connected, Marked, CookieSession
  <2>4. LoggingOut'
      BY <2>1, <2>2 DEF LoggingOut
  <2>5. AnswerKnown => AnswerKnown'
      BY <2>1, <2>2 DEF AnswerKnown
  <2>6. OtpLoggingIn'
      BY <2>1, <2>2, <2>5 DEF OtpLoggingIn
  <2>7. MepLoggingIn'
      BY <2>1, <2>2, <2>5 DEF MepLoggingIn
  <2>8. LoginGranted'
      BY <2>1, <2>2 DEF LoginGranted, Returned, Idle
  <2>. QED  BY <2>3, <2>4, <2>6, <2>7, <2>8
<1>. QED  BY <1>1, <1>2

LEMMA LoginsStep == ASSUME TypeOK, Logins, [Next]_vars PROVE Logins'
<1>1. CASE UNCHANGED vars
    BY <1>1 DEF vars, Logins, Connected, Marked, CookieSession, LoggingOut, OtpLoggingIn,
       MepLoggingIn, LoginGranted, AnswerKnown, Granted, Acked, Returned, Idle
<1>. QED
    BY <1>1, ExchangeLogs, AnswerLogs, LoginLogs, LoginMepLogs, ServiceLogs,
       ChangePasswordLogs, LogoutLogs, SurroundingsLog
    DEF Next, Library, Application

LEMMA LoginsInit == ASSUME Init PROVE Logins
BY DEF Init, At, Closed, Logins, Connected, Marked, LoggingOut, OtpLoggingIn,
   MepLoggingIn, LoginGranted, Returned, Idle, Running

-----------------------------------------------------------------------------
(***************************************************************************)
(* The theorems.                                                           *)
(***************************************************************************)

\* A successful log in by one-time password or mobile key holds the cookie of
\* a session the server has granted, whatever redirects, polls, aborted and
\* failed attempts came before it.
THEOREM SuccessHoldsSession == Spec => []LoginGranted
<1>1. Logins => LoginGranted
    BY DEF Logins
<1>2. Init => TypeOK /\ Logins
    BY TypeInit, LoginsInit
<1>3. TypeOK /\ Logins /\ [Next]_vars => (TypeOK /\ Logins)'
    BY TypeStep, LoginsStep
<1>. QED  BY <1>1, <1>2, <1>3, PTL DEF Spec

\* The last request of an OTP log in, to the web services, carries no password
\* any more: the cookie of the new session alone authorises it.
THEOREM CookieAuthorises == Spec => []FinalRequestByCookie
<1>1. TypeOK /\ Secrets /\ Logins => FinalRequestByCookie
  <2>1. SUFFICES ASSUME TypeOK, Secrets, Logins,
                        call.pc = "http", call.op = "login", call.to = "apps"
                 PROVE  Cleared /\ Granted(curl.jar)
      BY DEF FinalRequestByCookie, Cleared
  <2>2. ctx.otp /\ Granted(curl.jar)
      BY <2>1 DEF Logins, OtpLoggingIn, Running
  <2>3. Cleared
      BY <2>1, <2>2 DEF Secrets, OtpLogin, Undecided, Running
  <2>. QED  BY <2>2, <2>3
<1>2. Init => TypeOK /\ Secrets /\ Logins
    BY TypeInit, SecretsInit, LoginsInit
<1>3. TypeOK /\ Secrets /\ Logins /\ [Next]_vars => (TypeOK /\ Secrets /\ Logins)'
    BY TypeStep, SecretsStep, LoginsStep
<1>. QED  BY <1>1, <1>2, <1>3, PTL DEF Spec

\* The steps that end a log out with success.
LEMMA LogoutEnds ==
    ASSUME TypeOK, Next, call'.pc = "idle", call'.op = "logout", call'.err = "SUCCESS",
           call' # call
    PROVE  LogoutLocal \/ LogoutAnswered \/ LogoutFailed
<1>1. \A op, err : Return(op, err) => call'.op = op
    BY DEF Return, At
<1>2. \A op, url, saved : Send(op, url, saved) => call'.pc = "http"
    BY DEF Send, At
<1>3. ~Exchange
    BY DEF Exchange, HttpAnswered, HttpFailed, HttpAborted, TypeOK, Call
<1>4. ~Answer
    BY SoapSteps, AnswerGoes DEF MepLoggedIn, BodyRead
<1>5. ~(Login \/ LoginDone)
    BY <1>1, <1>2 DEF Login, LoginMissingPassword, LoginUnknownMethod, LoginOutOfMemory,
       LoginSend, LoginDone
<1>6. ~(LoginMep \/ LoginMepDone)
    BY <1>1, <1>2 DEF LoginMep, LoginMepBadArgument, LoginMepOutOfMemory, LoginMepSend,
       LoginMepDone
<1>7. ~(Service \/ ServiceDone \/ ConversionDone)
    BY <1>1, <1>2 DEF Service, ServiceClosed, ServiceSend, AnonymousSend, ServiceDone,
       ConversionDone
<1>8. ~(ChangePassword \/ ChangePasswordDone \/ TotpRequestDone)
    BY <1>1, <1>2 DEF ChangePassword, ChangePasswordRefused, ChangePasswordPlain,
       ChangePasswordOtpRefused, ChangePasswordSend, ChangePasswordOutOfMemory,
       ChangePasswordDone, TotpRequestDone
<1>9. ~(LogoutWithoutUrl \/ LogoutSend \/ CtxCreate)
    BY <1>2 DEF LogoutWithoutUrl, LogoutSend, CtxCreate, EndLogout, At
<1>10. ~(CodeEntered \/ MepAbandoned)
  <2>1. ResultForgotten => call'.op = "none"
      BY DEF ResultForgotten, At
  <2>. QED  BY <2>1 DEF CodeEntered, MepAbandoned
<1>11. ~Environment
    BY DEF Environment, UserAcknowledges, RequestExpires, SessionExpires, SessionMoves
<1>. QED
    BY <1>3, <1>4, <1>5, <1>6, <1>7, <1>8, <1>9, <1>10, <1>11
    DEF Next, Library, Application, Logout

\* A log out that reports success leaves no connection, no URL, no saved user
\* name, and no live session for the cookie it held.
THEOREM LogoutLeavesNothing == Spec => LogoutComplete
<1>. DEFINE LoggedOutNow ==
              call' # call /\ call'.pc = "idle" /\ call'.op = "logout" /\ call'.err = "SUCCESS" =>
                /\ ~curl'.open /\ ctx'.url = None /\ ctx'.vurl = None /\ ~ctx'.savedUser
                /\ curl.jar \in Cookie => srv'[curl.jar] # "live"
<1>1. TypeOK /\ Logins /\ [Next]_vars => LoggedOutNow
  <2>1. SUFFICES ASSUME TypeOK, Logins, Next, call' # call,
                        call'.pc = "idle", call'.op = "logout", call'.err = "SUCCESS"
                 PROVE  /\ ~curl'.open /\ ctx' = LoggedOut
                        /\ curl.jar \in Cookie => srv'[curl.jar] # "live"
    <3>1. call' # call /\ [Next]_vars => Next
        BY DEF vars
    <3>. QED  BY <3>1, LoggedOutKeeps
  <2>2. LogoutLocal \/ LogoutAnswered \/ LogoutFailed
      BY <2>1, LogoutEnds
  <2>3. CASE LogoutLocal
    <3>1. ctx' = LoggedOut
        BY <2>1, <2>3 DEF LogoutLocal, EndLogout, At
    <3>2. ~curl'.open
        BY <2>3 DEF LogoutLocal, Closed
    <3>3. curl.jar = None
        BY <2>1, <2>3 DEF LogoutLocal, Logins, Connected, Marked, Idle
    <3>. QED  BY <3>1, <3>2, <3>3, CookieAssumption
  <2>4. CASE LogoutAnswered
    <3>1. reply.http = 200 /\ ctx' = LoggedOut
        BY <2>1, <2>4 DEF LogoutAnswered, EndLogout, At
    <3>2. ~curl'.open /\ srv' = srv
        BY <2>4, <3>1 DEF LogoutAnswered, Closed
    <3>3. curl.jar \in Cookie => srv[curl.jar] # "live"
        BY <2>1, <2>4, <3>1 DEF LogoutAnswered, Logins, LoggingOut, Running
    <3>. QED  BY <3>1, <3>2, <3>3
  <2>5. CASE LogoutFailed
    <3>1. call.err # "SUCCESS"
        BY <2>1, <2>5 DEF LogoutFailed, Logins, LoggingOut, Running
    <3>. QED  BY <2>1, <2>5, <3>1 DEF LogoutFailed, EndLogout, At
  <2>. QED  BY <2>2, <2>3, <2>4, <2>5
<1>2. Init => TypeOK /\ Logins
    BY TypeInit, LoginsInit
<1>3. TypeOK /\ Logins /\ [Next]_vars => (TypeOK /\ Logins)'
    BY TypeStep, LoginsStep
<1>4. TypeOK /\ Logins /\ [Next]_vars => [LoggedOutNow]_vars
    BY <1>1
<1>. QED  BY <1>2, <1>3, <1>4, PTL DEF Spec, LogoutComplete

=============================================================================
