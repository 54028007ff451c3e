------------------------- MODULE IsdsContractProofs ----------------------------
(***************************************************************************)
(* Proofs that the result of a call tells the truth about what it leaves:  *)
(* the resolution of an OTP log in agrees with its error (ResolutionTold), *)
(* a pending mobile key log in can be continued (PendingResumable), no     *)
(* service is sent to a URL of the authentication (ServiceUrls), and       *)
(* IsdsSession implements SessionContract (KeepsContract).                 *)
(*                                                                         *)
(* Each rests on an invariant about the call in progress: what the         *)
(* exchanges so far tell of the code, the cookie and the URLs it was       *)
(* started with.                                                           *)
(***************************************************************************)
EXTENDS IsdsSessionProofs

-----------------------------------------------------------------------------
(***************************************************************************)
(* Which steps a call begins, goes on and returns with.                    *)
(***************************************************************************)

Surroundings == CodeEntered \/ MepAbandoned \/ CtxCreate
LoginReturns == LoginMissingPassword \/ LoginUnknownMethod \/ LoginOutOfMemory \/ LoginDone
LoginMepReturns == LoginMepBadArgument \/ LoginMepOutOfMemory \/ LoginMepDone
ServiceReturns == ServiceClosed \/ ServiceSend \/ ServiceDone \/ ConversionDone
ChangePasswordReturns ==
    ChangePasswordRefused \/ ChangePasswordOtpRefused \/ ChangePasswordOutOfMemory
    \/ ChangePasswordDone \/ TotpRequestDone
LogoutReturns == LogoutLocal \/ LogoutWithoutUrl \/ LogoutAnswered \/ LogoutFailed

LEMMA ReturnSteps ==
    ASSUME NEW op, NEW err, Return(op, err)
    PROVE  /\ call'.pc = "idle" /\ call'.op = op /\ call'.err = err
           /\ call'.to = None /\ call'.savedUrl = None
BY DEF Return, At

LEMMA SendSteps ==
    ASSUME NEW op, NEW url, NEW saved, Send(op, url, saved)
    PROVE  /\ call'.pc = "http" /\ call'.op = op /\ call'.to = url
           /\ call'.savedUrl = saved /\ call'.again = FALSE
BY DEF Send, At

LEMMA ExchangeSteps ==
    ASSUME TypeOK, Exchange
    PROVE  /\ call.pc = "http" /\ call.pc \in Running
           /\ call'.op = call.op /\ call'.to = call.to
           /\ call'.again = call.again /\ call'.savedUrl = call.savedUrl
           /\ UNCHANGED <<ctx, appOtp, appMep>>
           /\ \/ HttpAnswered /\ call'.pc = "code"
              \/ ~HttpAnswered /\ call'.pc = "done" /\ call'.err \in {"NETWORK", "ABORTED"}
<1>1. call.pc = "http" /\ call.pc \in Running /\ UNCHANGED <<ctx, appOtp, appMep>>
    BY DEF Exchange, HttpAnswered, HttpFailed, HttpAborted, Running
<1>2. CASE HttpAnswered
    BY <1>1, <1>2 DEF HttpAnswered, TypeOK, Call
<1>3. CASE ~HttpAnswered
    BY <1>1, <1>3 DEF Exchange, HttpFailed, HttpAborted, TypeOK, Call
<1>. QED  BY <1>2, <1>3

\* Of the call in progress an answer only changes how far it is, the URL and
\* the mark of a further request.
LEMMA AnswerSteps ==
    ASSUME TypeOK, Answer
    PROVE  /\ call'.savedUrl = call.savedUrl
           /\ call'.pc # "http" => call'.again = call.again
           /\ OtpRedirect \/ call'.to = call.to
           /\ OtpRedirect => call'.to = reply.to /\ call'.pc = "http" /\ call'.again = TRUE
           /\ UNCHANGED ctx \/ ctx' = Discard(ctx, FALSE)
<1>1. /\ \A err : Finish(err) => /\ call'.savedUrl = call.savedUrl /\ call'.again = call.again
                                 /\ call'.to = call.to
      /\ \A url : Redirect(url) => /\ call'.savedUrl = call.savedUrl /\ call'.again = TRUE
                                   /\ call'.pc = "http" /\ call'.to = url
      /\ ReadBody => /\ call'.savedUrl = call.savedUrl /\ call'.again = call.again
                     /\ call'.to = call.to
    BY DEF TypeOK, Call, Finish, Redirect, ReadBody
<1>2. CASE OtpRedirect
    BY <1>1, <1>2 DEF OtpRedirect
<1>3. CASE MepAcknowledged \/ MepRequested
    BY <1>1, <1>3 DEF MepAcknowledged, MepRequested, OtpRedirect, Mep
<1>4. CASE ~(OtpRedirect \/ MepAcknowledged \/ MepRequested)
    BY <1>1, <1>4 DEF Answer, AnswerOk, MepWait, MepFailed, OtpCodeNeeded, MepLoggedIn,
       MepStrayRedirect, AnswerRefused, AnswerOther, BodyRead
<1>. QED  BY <1>2, <1>3, <1>4

LEMMA EnvironmentSteps ==
    ASSUME Environment
    PROVE  UNCHANGED <<ctx, curl, appOtp, appMep, call, reply>>
BY DEF Environment, UserAcknowledges, RequestExpires, SessionExpires, SessionMoves

LEMMA SurroundingsReturn ==
    ASSUME Surroundings PROVE call'.pc = "idle" /\ call'.op = "none"
<1>1. CASE ResultForgotten
    BY <1>1 DEF ResultForgotten, At
<1>2. CASE CtxCreate
    BY <1>2 DEF CtxCreate, At
<1>. QED  BY <1>1, <1>2 DEF Surroundings, CodeEntered, MepAbandoned

\* A call that runs goes on, or has just been begun.
LEMMA CallRuns ==
    ASSUME TypeOK, Next, call'.pc \in Running
    PROVE  \/ /\ Exchange \/ Answer \/ Environment
              /\ call.pc \in Running /\ call'.op = call.op
           \/ LoginSend /\ call'.op = "login"
           \/ LoginMepSend /\ call'.op = "loginMep"
           \/ (ServiceSend \/ ChangePasswordPlain) /\ call'.op \in {"service", "vodz"}
           \/ AnonymousSend /\ call'.op \in {"CZP", "TESTING"}
           \/ ChangePasswordSend /\ call'.op \in {"changePassword", "requestTotp"}
           \/ LogoutSend /\ call'.op \in {"logout", "free"}
<1>1. \A op, err : ~Return(op, err)
    BY ReturnSteps DEF Running
<1>2. \A op, err : ~EndLogout(op, err)
    BY DEF EndLogout, At, Running
<1>3. ~(LoginReturns \/ LoginMepReturns)
    BY <1>1 DEF LoginReturns, LoginMissingPassword, LoginUnknownMethod, LoginOutOfMemory,
       LoginDone, LoginMepReturns, LoginMepBadArgument, LoginMepOutOfMemory, LoginMepDone
<1>4. ~(ServiceClosed \/ ServiceDone \/ ConversionDone \/ ChangePasswordReturns)
  <2>1. ~ServiceClosed /\ ~ServiceDone /\ ~ConversionDone
      BY <1>1 DEF ServiceClosed, ServiceDone, ConversionDone
  <2>2. ~ChangePasswordReturns
      BY <1>1 DEF ChangePasswordReturns, ChangePasswordRefused, ChangePasswordOtpRefused,
         ChangePasswordOutOfMemory, ChangePasswordDone, TotpRequestDone
  <2>. QED  BY <2>1, <2>2
<1>5. ~LogoutReturns
    BY <1>2 DEF LogoutReturns, LogoutLocal, LogoutWithoutUrl, LogoutAnswered, LogoutFailed
<1>6. ~Surroundings
    BY SurroundingsReturn DEF Running
<1>7. /\ Exchange => call.pc \in Running /\ call'.op = call.op
      /\ Answer => call.pc \in Running /\ call'.op = call.op
      /\ Environment => call.pc \in Running /\ call'.op = call.op
    BY ExchangeSteps, AnswerKeeps, EnvironmentSteps
<1>8. /\ LoginSend => call'.op = "login"
      /\ LoginMepSend => call'.op = "loginMep"
      /\ ServiceSend \/ ChangePasswordPlain => call'.op \in {"service", "vodz"}
      /\ AnonymousSend => call'.op \in {"CZP", "TESTING"}
      /\ ChangePasswordSend => call'.op \in {"changePassword", "requestTotp"}
      /\ LogoutSend => call'.op \in {"logout", "free"}
    BY <1>1, SendSteps DEF LoginSend, LoginMepSend, ServiceSend, ChangePasswordPlain,
       AnonymousSend, ChangePasswordSend, LogoutSend
<1>. QED
    BY <1>3, <1>4, <1>5, <1>6, <1>7, <1>8 DEF Next, Library, Application, Login, LoginMep,
       Service, ChangePassword, Logout, LoginReturns, LoginMepReturns, ChangePasswordReturns,
       LogoutReturns, Surroundings

\* Between two calls one has just returned, or the application, the user or
\* the server does something.
LEMMA CallReturned ==
    ASSUME TypeOK, Next, call'.pc \notin Running
    PROVE  \/ Environment /\ call.pc \notin Running
           \/ Surroundings /\ call'.op = "none"
           \/ LoginReturns /\ call'.op = "login"
           \/ LoginMepReturns /\ call'.op = "loginMep"
           \/ ServiceReturns /\ call'.op \in {"service", "vodz", "CZP", "TESTING"}
           \/ ChangePasswordReturns /\ call'.op = "changePassword"
           \/ LogoutReturns /\ call'.op \in {"logout", "free"}
<1>1. \A op, url, saved : ~Send(op, url, saved)
    BY SendSteps DEF Running
<1>2. /\ ~LoginSend /\ ~LoginMepSend /\ ~AnonymousSend /\ ~ChangePasswordPlain
      /\ ~ChangePasswordSend /\ ~LogoutSend
    BY <1>1 DEF LoginSend, LoginMepSend, AnonymousSend, ChangePasswordPlain,
       ChangePasswordSend, LogoutSend
<1>3. ~Exchange /\ ~Answer
    BY ExchangeSteps, AnswerKeeps DEF Running
<1>4. LoginReturns => call'.op = "login"
    BY ReturnSteps DEF LoginReturns, LoginMissingPassword, LoginUnknownMethod,
       LoginOutOfMemory, LoginDone
<1>5. LoginMepReturns => call'.op = "loginMep"
    BY ReturnSteps DEF LoginMepReturns, LoginMepBadArgument, LoginMepOutOfMemory, LoginMepDone
<1>6. ServiceReturns => call'.op \in {"service", "vodz", "CZP", "TESTING"}
  <2>1. ServiceClosed \/ ServiceSend => \E op \in {"service", "vodz"}, err \in Err : Return(op, err)
      BY <1>1 DEF ServiceClosed, ServiceSend, Err
  <2>2. ServiceDone \/ ConversionDone =>
          \E op \in {"service", "vodz", "CZP", "TESTING"} : \E err : Return(op, err)
      BY DEF ServiceDone, ConversionDone
  <2>. QED  BY <2>1, <2>2, ReturnSteps DEF ServiceReturns
<1>7. ChangePasswordReturns => call'.op = "changePassword"
    BY ReturnSteps DEF ChangePasswordReturns, ChangePasswordRefused, ChangePasswordOtpRefused,
       ChangePasswordOutOfMemory, ChangePasswordDone, TotpRequestDone
<1>8. LogoutReturns => call'.op \in {"logout", "free"}
    BY DEF LogoutReturns, LogoutLocal, LogoutWithoutUrl, LogoutAnswered, LogoutFailed,
       EndLogout, At
<1>9. Surroundings => call'.op = "none"
    BY SurroundingsReturn
<1>10. Environment => call.pc \notin Running
    BY EnvironmentSteps
<1>. QED
    BY <1>2, <1>3, <1>4, <1>5, <1>6, <1>7, <1>8, <1>9, <1>10 DEF Next, Library, Application,
       Login, LoginMep, Service, ChangePassword, Logout, LoginReturns, LoginMepReturns,
       ServiceReturns, ChangePasswordReturns, LogoutReturns, Surroundings

-----------------------------------------------------------------------------
(***************************************************************************)
(* What the calls that borrow the context's URL begin and end with.        *)
(***************************************************************************)

LEMMA DiscardPlaces ==
    ASSUME NEW c \in Context, NEW b \in BOOLEAN
    PROVE  /\ Discard(c, b).type = c.type /\ Discard(c, b).url = c.url
           /\ Discard(c, b).vurl = c.vurl
BY DEF Discard, Context

LEMMA StorePlaces ==
    ASSUME NEW c \in Context, NEW user \in BOOLEAN, NEW pass \in BOOLEAN,
           NEW pki \in BOOLEAN, NEW saved \in BOOLEAN
    PROVE  /\ Store(c, user, pass, pki, saved).type = c.type
           /\ Store(c, user, pass, pki, saved).url = c.url
           /\ Store(c, user, pass, pki, saved).vurl = c.vurl
           /\ Store(c, user, pass, pki, saved).cred.pass = "otp" => appOtp.code
BY DEF Store, Context

LEMMA ConfiguredPlaces ==
    ASSUME TypeOK, NEW pki \in BOOLEAN, NEW otp \in BOOLEAN
    PROVE  /\ LoginConfigured(pki, otp).type = "ISDS" /\ LoginConfigured(pki, otp).vurl = "base"
           /\ LoginConfigured(pki, otp).mep = ctx.mep
           /\ LoginConfigured(pki, otp).mepCred = ctx.mepCred
<1>1. /\ Reset \in Context /\ Reset.type = "ISDS"
      /\ Reset.mep = ctx.mep /\ Reset.mepCred = ctx.mepCred
    BY DEF Reset, TypeOK, Context, Url
<1>. QED  BY <1>1 DEF LoginConfigured, Context

LEMMA LoginBegins ==
    ASSUME TypeOK, LoginSend
    PROVE  /\ curl' = Opened /\ UNCHANGED <<appMep, srv>>
           /\ appOtp'.method = appOtp.method /\ appOtp'.code = appOtp.code
           /\ call'.pc = "http" /\ call'.op = "login" /\ call'.again = FALSE
           /\ call'.savedUrl = None /\ call'.to = ctx'.url
           /\ ctx'.type = "ISDS" /\ ctx'.vurl = "base"
           /\ ctx'.mep = ctx.mep /\ ctx'.mepCred = ctx.mepCred
           /\ ctx'.otp => /\ ctx'.url = LoginUrl(FALSE, TRUE) /\ appOtp.method # "undefined"
                          /\ ctx'.url \in {"hotp", "totp", "sendsms"}
           /\ ~ctx'.otp => ctx'.url = "base"
           /\ ctx'.otpCred = ctx'.otp
           /\ ctx'.cred.pass = "otp" => appOtp.code
<1>1. PICK a \in LoginArguments :
        /\ ctx' = Store(Discard(LoginConfigured(a.pki, a.otp), TRUE), a.user, a.pass, a.pki, FALSE)
        /\ Send("login", LoginConfigured(a.pki, a.otp).url, None)
    BY DEF LoginSend
<1>2. /\ a.pki \in BOOLEAN /\ a.otp \in BOOLEAN /\ a.user \in BOOLEAN /\ a.pass \in BOOLEAN
      /\ (a.pki => ~a.otp) /\ (a.otp => appOtp.method # "undefined")
    BY DEF LoginArguments
<1>. DEFINE c == LoginConfigured(a.pki, a.otp)
            d == Discard(c, TRUE)
<1>3. c \in Context
    BY <1>2, ConfiguredLogin
<1>4. c.otp = a.otp /\ c.otpCred = a.otp
    BY <1>2, ConfiguredLogin
<1>5. /\ c.url = LoginUrl(a.pki, a.otp)
      /\ c.type = "ISDS" /\ c.vurl = "base" /\ c.mep = ctx.mep /\ c.mepCred = ctx.mepCred
    BY <1>2, ConfiguredLogin, ConfiguredPlaces
<1>6. ctx' = Store(d, a.user, a.pass, a.pki, FALSE) /\ Send("login", c.url, None)
    BY <1>1
<1>. HIDE DEF c
<1>7. /\ d \in Context /\ d.otp = c.otp /\ d.otpCred = c.otpCred /\ d.mep = c.mep
      /\ d.mepCred = c.mepCred /\ d.type = c.type /\ d.url = c.url /\ d.vurl = c.vurl
    BY <1>3, DiscardType, DiscardKeeps, DiscardPlaces
<1>. HIDE DEF d
<1>8. ctx'.otp = d.otp /\ ctx'.otpCred = d.otpCred /\ ctx'.mep = d.mep /\ ctx'.mepCred = d.mepCred
    BY <1>6, <1>7 DEF Store, Context
<1>9. /\ ctx'.type = "ISDS" /\ ctx'.vurl = "base" /\ ctx'.url = LoginUrl(a.pki, a.otp)
      /\ ctx'.cred.pass = "otp" => appOtp.code
  <2>1. /\ ctx'.type = d.type /\ ctx'.vurl = d.vurl /\ ctx'.url = d.url
        /\ ctx'.cred.pass = "otp" => appOtp.code
      BY <1>6, <1>7 DEF Store, Context
  <2>. QED  BY <1>5, <1>7, <2>1
<1>10. /\ call'.pc = "http" /\ call'.op = "login" /\ call'.again = FALSE
       /\ call'.savedUrl = None /\ call'.to = ctx'.url
    BY <1>5, <1>6, <1>9, SendSteps
<1>11. appOtp'.method = appOtp.method /\ appOtp'.code = appOtp.code
    BY DEF LoginSend, TypeOK, OtpArgument
<1>12. /\ a.otp => LoginUrl(a.pki, a.otp) = LoginUrl(FALSE, TRUE)
       /\ a.otp => LoginUrl(FALSE, TRUE) \in {"hotp", "totp", "sendsms"}
       /\ ~a.otp => LoginUrl(a.pki, a.otp) = "base"
    BY <1>2 DEF LoginUrl
<1>. QED
    BY <1>2, <1>4, <1>5, <1>7, <1>8, <1>9, <1>10, <1>11, <1>12 DEF LoginSend

LEMMA LoginMepBegins ==
    ASSUME TypeOK, LoginMepSend
    PROVE  /\ curl' = MepHandle /\ UNCHANGED <<appOtp, srv>>
           /\ appMep'.uri = appMep.uri /\ appMep'.res = "UNKNOWN"
           /\ call'.pc = "http" /\ call'.op = "loginMep" /\ call'.to = "mep"
           /\ call'.savedUrl = None
           /\ ctx'.type = "ISDS" /\ ctx'.url = "mep" /\ ctx'.vurl = None
           /\ ctx'.mep # "NONE" /\ ctx'.mepCred
           /\ ctx'.otp = ctx.otp /\ ctx'.otpCred = ctx.otpCred
<1>1. /\ Reset \in Context /\ Reset.type = "ISDS" /\ Reset.vurl = None
      /\ Reset.otp = ctx.otp /\ Reset.otpCred = ctx.otpCred
    BY DEF Reset, TypeOK, Context, Url
<1>2. appMep.kind \in {"BASIC", "EXTENDED"}
    BY KindAssumption DEF TypeOK, MepArgument
<1>. DEFINE c == LoginMepConfigured
            d == Discard(c, TRUE)
<1>3. /\ c \in Context /\ c.type = "ISDS" /\ c.url = "mep" /\ c.vurl = None
      /\ c.mep # "NONE" /\ c.mepCred /\ c.otp = ctx.otp /\ c.otpCred = ctx.otpCred
    BY <1>1, <1>2 DEF LoginMepConfigured, Context, Url, Location
<1>4. ctx' = Store(d, TRUE, TRUE, FALSE, FALSE)
    BY DEF LoginMepSend
<1>. HIDE DEF c
<1>5. /\ d \in Context /\ d.type = c.type /\ d.url = c.url /\ d.vurl = c.vurl
      /\ d.mep = c.mep /\ d.mepCred = c.mepCred /\ d.otp = c.otp /\ d.otpCred = c.otpCred
    BY <1>3, DiscardType, DiscardKeeps, DiscardPlaces
<1>. HIDE DEF d
<1>6. /\ ctx'.type = d.type /\ ctx'.url = d.url /\ ctx'.vurl = d.vurl /\ ctx'.mep = d.mep
      /\ ctx'.mepCred = d.mepCred /\ ctx'.otp = d.otp /\ ctx'.otpCred = d.otpCred
    BY <1>4, <1>5 DEF Store, Context
<1>7. appMep'.uri = appMep.uri /\ appMep'.res = "UNKNOWN"
    BY DEF LoginMepSend, TypeOK, MepArgument
<1>8. /\ call'.pc = "http" /\ call'.op = "loginMep" /\ call'.to = "mep"
      /\ call'.savedUrl = None
    BY SendSteps DEF LoginMepSend
<1>. QED  BY <1>3, <1>5, <1>6, <1>7, <1>8 DEF LoginMepSend

LEMMA LoginEnds ==
    ASSUME TypeOK, LoginDone
    PROVE  /\ call.pc = "done" /\ call.op = "login" /\ UNCHANGED <<appOtp, appMep, srv>>
           /\ call'.pc = "idle" /\ call'.op = "login" /\ call'.savedUrl = None
           /\ ctx'.type = ctx.type /\ ctx'.otp = ctx.otp
           /\ ctx'.mep = ctx.mep /\ ctx'.mepCred = ctx.mepCred
           /\ ctx.otp => ctx'.vurl = "apps" /\ ctx'.otpCred = FALSE
           /\ ~ctx.otp => /\ ctx'.url = ctx.url /\ ctx'.vurl = ctx.vurl
                          /\ ctx'.otpCred = ctx.otpCred
           /\ \/ call'.err = call.err /\ (ctx.otp => ctx'.url = "apps")
              \/ AllocFails = TRUE /\ ctx.otp /\ call'.err = "NOMEM"
           /\ call'.err = "SUCCESS" => curl' = curl
           /\ call'.err # "SUCCESS" => curl' = Closed
<1>1. PICK lost \in BOOLEAN :
        /\ ctx' = Discard(IF ctx.otp
                          THEN [ctx EXCEPT !.url = IF lost THEN None ELSE "apps",
                                           !.vurl = "apps", !.otpCred = FALSE]
                          ELSE ctx, FALSE)
        /\ curl' = IF (IF lost THEN "NOMEM" ELSE call.err) = "SUCCESS" THEN curl ELSE Closed
        /\ Return("login", IF lost THEN "NOMEM" ELSE call.err)
        /\ lost => AllocFails = TRUE /\ ctx.otp
    BY DEF LoginDone
<1>. DEFINE moved == [ctx EXCEPT !.url = IF lost THEN None ELSE "apps",
                                 !.vurl = "apps", !.otpCred = FALSE]
            err == IF lost THEN "NOMEM" ELSE call.err
<1>2. /\ moved \in Context /\ moved.type = ctx.type /\ moved.otp = ctx.otp
      /\ moved.mep = ctx.mep /\ moved.mepCred = ctx.mepCred
      /\ moved.vurl = "apps" /\ moved.otpCred = FALSE
      /\ ~lost => moved.url = "apps"
    BY DEF TypeOK, Context, Url, Location
<1>3. ctx' = IF ctx.otp THEN Discard(moved, FALSE) ELSE Discard(ctx, FALSE)
    BY <1>1
<1>4. ctx \in Context
    BY DEF TypeOK
<1>5. call'.pc = "idle" /\ call'.op = "login" /\ call'.err = err /\ call'.savedUrl = None
    BY <1>1, ReturnSteps
<1>6. curl' = IF err = "SUCCESS" THEN curl ELSE Closed
    BY <1>1
<1>7. lost => AllocFails = TRUE /\ ctx.otp /\ err = "NOMEM"
    BY <1>1
<1>8. ~lost => err = call.err
    OBVIOUS
<1>. HIDE DEF moved, err
<1>9. CASE ctx.otp
  <2>1. /\ ctx'.type = ctx.type /\ ctx'.otp = ctx.otp
        /\ ctx'.mep = ctx.mep /\ ctx'.mepCred = ctx.mepCred
        /\ ctx'.vurl = "apps" /\ ctx'.otpCred = FALSE
        /\ ~lost => ctx'.url = "apps"
      BY <1>2, <1>3, <1>9, DiscardKeeps, DiscardPlaces
  <2>2. \/ call'.err = call.err /\ (ctx.otp => ctx'.url = "apps")
        \/ AllocFails = TRUE /\ ctx.otp /\ call'.err = "NOMEM"
      BY <1>5, <1>7, <1>8, <2>1
  <2>3. /\ call'.err = "SUCCESS" => curl' = curl
        /\ call'.err # "SUCCESS" => curl' = Closed
      BY <1>5, <1>6
  <2>4. call.pc = "done" /\ call.op = "login" /\ UNCHANGED <<appOtp, appMep, srv>>
      BY DEF LoginDone
  <2>. QED  BY <1>5, <1>9, <2>1, <2>2, <2>3, <2>4
<1>10. CASE ~ctx.otp
  <2>1. /\ ctx'.type = ctx.type /\ ctx'.otp = ctx.otp
        /\ ctx'.mep = ctx.mep /\ ctx'.mepCred = ctx.mepCred
        /\ ctx'.vurl = ctx.vurl /\ ctx'.otpCred = ctx.otpCred /\ ctx'.url = ctx.url
      BY <1>3, <1>4, <1>10, DiscardKeeps, DiscardPlaces
  <2>. QED  BY <1>5, <1>6, <1>7, <1>8, <1>10, <2>1 DEF LoginDone
<1>. QED  BY <1>9, <1>10

LEMMA LoginMepEnds ==
    ASSUME TypeOK, LoginMepDone
    PROVE  /\ call.pc = "done" /\ call.op = "loginMep" /\ UNCHANGED <<appOtp, appMep, srv>>
           /\ call'.pc = "idle" /\ call'.op = "loginMep" /\ call'.savedUrl = None
           /\ ctx'.type = ctx.type /\ ctx'.otp = ctx.otp /\ ctx'.otpCred = ctx.otpCred
           /\ ctx'.mep = ctx.mep /\ ctx'.mepCred = FALSE /\ ctx'.vurl = "apps"
           /\ \/ call'.err = call.err /\ ctx'.url = "apps"
              \/ AllocFails = TRUE /\ call'.err = "NOMEM"
           /\ call'.err \in {"SUCCESS", "PARTIAL"} => curl' = curl
           /\ call'.err \notin {"SUCCESS", "PARTIAL"} => curl' = Closed
<1>1. PICK lost \in BOOLEAN :
        /\ ctx' = Discard([ctx EXCEPT !.url = IF lost THEN None ELSE "apps",
                                      !.vurl = "apps", !.mepCred = FALSE], FALSE)
        /\ curl' = IF KeepsConnection(IF lost THEN "NOMEM" ELSE call.err) THEN curl ELSE Closed
        /\ Return("loginMep", IF lost THEN "NOMEM" ELSE call.err)
        /\ lost => AllocFails = TRUE
    BY DEF LoginMepDone
<1>. DEFINE moved == [ctx EXCEPT !.url = IF lost THEN None ELSE "apps",
                                 !.vurl = "apps", !.mepCred = FALSE]
            err == IF lost THEN "NOMEM" ELSE call.err
<1>2. /\ moved \in Context /\ moved.type = ctx.type /\ moved.otp = ctx.otp
      /\ moved.otpCred = ctx.otpCred /\ moved.mep = ctx.mep /\ moved.mepCred = FALSE
      /\ moved.vurl = "apps"
      /\ ~lost => moved.url = "apps"
    BY DEF TypeOK, Context, Url, Location
<1>3. ctx' = Discard(moved, FALSE)
    BY <1>1
<1>4. call'.pc = "idle" /\ call'.op = "loginMep" /\ call'.err = err /\ call'.savedUrl = None
    BY <1>1, ReturnSteps
<1>5. curl' = IF err \in {"SUCCESS", "PARTIAL"} THEN curl ELSE Closed
    BY <1>1 DEF KeepsConnection
<1>6. (lost => AllocFails = TRUE /\ err = "NOMEM") /\ (~lost => err = call.err)
    BY <1>1
<1>. HIDE DEF moved, err
<1>7. /\ ctx'.type = ctx.type /\ ctx'.otp = ctx.otp /\ ctx'.otpCred = ctx.otpCred
      /\ ctx'.mep = ctx.mep /\ ctx'.mepCred = FALSE /\ ctx'.vurl = "apps"
      /\ ~lost => ctx'.url = "apps"
    BY <1>2, <1>3, DiscardKeeps, DiscardPlaces
<1>. QED  BY <1>4, <1>5, <1>6, <1>7 DEF LoginMepDone

LEMMA ChangePasswordBegins ==
    ASSUME TypeOK, ChangePasswordSend
    PROVE  /\ Idle /\ curl.open /\ ctx.type = "ISDS" /\ ctx.url # None
           /\ UNCHANGED <<curl, appMep, srv>>
           /\ call'.pc = "http" /\ call'.op \in {"changePassword", "requestTotp"}
           /\ call'.to = "asws" /\ call'.savedUrl = ctx.url
           /\ ctx'.type = ctx.type /\ ctx'.url = "asws" /\ ctx'.vurl = ctx.vurl
           /\ ctx'.otp = ctx.otp /\ ctx'.mep = ctx.mep /\ ctx'.mepCred = ctx.mepCred
<1>. DEFINE base == [ctx EXCEPT !.url = "asws", !.otpCred = TRUE]
            c == ChangeContext
<1>1. /\ base \in Context /\ base.type = ctx.type /\ base.url = "asws" /\ base.vurl = ctx.vurl
      /\ base.otp = ctx.otp /\ base.mep = ctx.mep /\ base.mepCred = ctx.mepCred
    BY DEF TypeOK, Context, Url, Location
<1>2. c = Discard(base, FALSE)
    BY DEF ChangeContext
<1>. HIDE DEF base
<1>3. /\ c \in Context /\ c.type = ctx.type /\ c.url = "asws" /\ c.vurl = ctx.vurl
      /\ c.otp = ctx.otp /\ c.mep = ctx.mep /\ c.mepCred = ctx.mepCred
    BY <1>1, <1>2, DiscardType, DiscardKeeps, DiscardPlaces
<1>4. ctx' = Store(c, ctx.savedUser, TRUE, FALSE, TRUE)
    BY DEF ChangePasswordSend
<1>. HIDE DEF c
<1>5. /\ ctx'.type = c.type /\ ctx'.url = c.url /\ ctx'.vurl = c.vurl
      /\ ctx'.otp = c.otp /\ ctx'.mep = c.mep /\ ctx'.mepCred = c.mepCred
    BY <1>3, <1>4 DEF Store, Context
<1>6. /\ call'.pc = "http" /\ call'.op \in {"changePassword", "requestTotp"}
      /\ call'.to = "asws" /\ call'.savedUrl = ctx.url
    BY SendSteps DEF ChangePasswordSend
<1>7. ctx.url # None
    BY DEF ChangePasswordSend, ChangePasswordError
<1>. QED  BY <1>3, <1>5, <1>6, <1>7 DEF ChangePasswordSend

LEMMA ChangePasswordEnds ==
    ASSUME TypeOK, ChangePasswordDone \/ TotpRequestDone
    PROVE  /\ call.pc = "done" /\ call.op \in {"changePassword", "requestTotp"}
           /\ UNCHANGED <<curl, appMep, srv>>
           /\ call'.pc = "idle" /\ call'.op = "changePassword" /\ call'.savedUrl = None
           /\ ctx'.type = ctx.type /\ ctx'.url = call.savedUrl /\ ctx'.vurl = ctx.vurl
           /\ ctx'.otp = ctx.otp /\ ctx'.otpCred = FALSE
           /\ ctx'.mep = ctx.mep /\ ctx'.mepCred = ctx.mepCred
<1>. DEFINE base == [ctx EXCEPT !.url = call.savedUrl, !.otpCred = FALSE]
<1>1. /\ base \in Context /\ base.type = ctx.type /\ base.url = call.savedUrl
      /\ base.vurl = ctx.vurl /\ base.otp = ctx.otp /\ base.otpCred = FALSE
      /\ base.mep = ctx.mep /\ base.mepCred = ctx.mepCred
    BY DEF TypeOK, Context, Call
<1>2. ctx' = Discard(base, FALSE)
    BY DEF ChangePasswordDone, TotpRequestDone, ChangeRestored
<1>. HIDE DEF base
<1>3. /\ ctx'.type = base.type /\ ctx'.url = base.url /\ ctx'.vurl = base.vurl
      /\ ctx'.otp = base.otp /\ ctx'.otpCred = base.otpCred
      /\ ctx'.mep = base.mep /\ ctx'.mepCred = base.mepCred
    BY <1>1, <1>2, DiscardKeeps, DiscardPlaces
<1>4. call'.pc = "idle" /\ call'.op = "changePassword" /\ call'.savedUrl = None
    BY ReturnSteps DEF ChangePasswordDone, TotpRequestDone
<1>. QED  BY <1>1, <1>3, <1>4 DEF ChangePasswordDone, TotpRequestDone

-----------------------------------------------------------------------------
(***************************************************************************)
(* The resolution of a log in by one-time password.                        *)
(***************************************************************************)

Told(err) ==
    CASE err = "SUCCESS"       -> appOtp.res = "SUCCESS"
      [] err = "PARTIAL"       -> appOtp.res = "TOTP_SENT" /\ appOtp.method = "TOTP"
      [] err = "NOT_LOGGED_IN" -> appOtp.res \notin {"SUCCESS", "TOTP_SENT"}
      [] OTHER                 -> TRUE

\* A request carries a one-time code only if the application has one, and the
\* library follows a redirect only then.  So the first answer to an
\* application without one is the only redirect that ends a log in, and it
\* tells that a code was sent.
Resolving ==
    call.op = "login" /\ call.pc \in Running /\ ctx.otp =>
        /\ appOtp.method # "undefined"
        /\ curl.auth.pass = "otp" \/ ctx.cred.pass = "otp" => appOtp.code
        /\ call.again => appOtp.code
        /\ ~call.again => call.to = LoginUrl(FALSE, TRUE)
        /\ call.pc = "code" =>
             IF reply.http = 302
             THEN /\ reply.to # None
                  /\ ~appOtp.code => appOtp.method = "TOTP" /\ ~call.again /\ reply.code = "TOTP_SENT"
             ELSE /\ reply.code \in OtpReasons \cup {"UNKNOWN"}
                  /\ reply.http = 200 => reply.code = "UNKNOWN"
                  /\ reply.body \in {"soap", "refused"} => reply.http = 200
        /\ call.pc = "body" /\ reply.body \in {"soap", "refused"} => appOtp.res = "SUCCESS"
        /\ call.pc = "done" => Told(call.err)

\* A poll is never redirected, and an undecided status is of the cookie.
LEMMA PollAnswers ==
    ASSUME NEW auth, NEW cookie, NEW kind, NEW s,
           NEW x \in Answers("mepState", auth, cookie, kind, s)
    PROVE  /\ x[1].http # 302
           /\ x[1].body \in {"1", "WAIT_TO_SEND", "SENT", "NOTIF", "LAUNCHED"} =>
                cookie \in Cookie /\ s[cookie] = "mepWaiting" /\ x[1].cookie = None /\ x[2] = s
<1>1. CASE x \in Stay(Trouble, s)
    BY <1>1 DEF Stay, Trouble, Page
<1>2. CASE x \in Stay(MepState(cookie, s, kind), s)
  <2>1. PICK b \in MepStatus(IF cookie \in Cookie THEN s[cookie] ELSE "unused", kind) :
          x = <<Page(200, b), s>>
      BY <1>2 DEF Stay, MepState
  <2>2. b \in {"1", "WAIT_TO_SEND", "SENT", "NOTIF", "LAUNCHED"} =>
          cookie \in Cookie /\ s[cookie] = "mepWaiting"
      BY <2>1 DEF MepStatus
  <2>. QED  BY <2>1, <2>2 DEF Page
<1>. QED  BY <1>1, <1>2 DEF Answers

\* What the answers to an OTP log in say of the code.
LEMMA OtpAnswers ==
    ASSUME NEW to \in LoginPlaces, to # "mep", NEW auth, NEW cookie, NEW kind, NEW s,
           NEW x \in Answers(to, auth, cookie, kind, s)
    PROVE  /\ x[1].http = 302 => x[1].to # None
           /\ x[1].http # 302 => x[1].code \in OtpReasons \cup {"UNKNOWN"}
           /\ x[1].http = 200 => x[1].code = "UNKNOWN"
           /\ x[1].body \in {"soap", "refused"} => x[1].http = 200
           /\ x[1].http = 302 /\ to \in {"hotp", "totp"} => auth.pass = "otp"
           /\ x[1].http = 302 /\ to = "sendsms" => x[1].code = "TOTP_SENT"
<1>. DEFINE Refusing(p) ==
              /\ p.http \notin {200, 302} /\ p.code \in OtpReasons \cup {"UNKNOWN"}
              /\ p.body \notin {"soap", "refused"}
<1>1. \A p \in Trouble \cup OtpDenied : Refusing(p)
    BY DEF Trouble, OtpDenied, Page
<1>2. \A code, c : \A place \in Location :
            /\ Moved(code, place, c).to # None /\ Moved(code, place, c).http = 302
            /\ Moved(code, place, c).code = code /\ Moved(code, place, c).body = "none"
    BY LocationAssumption DEF Moved
<1>3. \A p \in Served \cup {Page(200, "html")} : p.http = 200 /\ p.code = "UNKNOWN"
    BY DEF Served, Page
<1>4. CASE x \in Stay(Trouble, s)
    BY <1>1, <1>4 DEF Stay
<1>5. CASE to = "apps" /\ x \in Stay(CookieService(cookie, s), s)
  <2>1. \/ x[1] \in Served \/ x[1] = Page(403, "none")
        \/ x[1] = Moved("UNKNOWN", "webLogin", None)
      BY <1>5 DEF Stay, CookieService
  <2>2. "webLogin" \in Location
      BY DEF Location
  <2>3. CASE x[1] = Page(403, "none")
      BY <1>5, <2>3 DEF Page
  <2>4. CASE x[1] = Moved("UNKNOWN", "webLogin", None)
      BY <1>2, <1>5, <2>2, <2>4
  <2>. QED  BY <1>3, <1>5, <2>1, <2>3, <2>4
<1>6. CASE to = "sendsms" /\ x \in Stay(SendSms(auth), s)
  <2>1. x[1] \in OtpDenied \/ x[1] = Moved("TOTP_SENT", "totp", None)
      BY <1>6 DEF Stay, SendSms
  <2>2. "totp" \in Location
      BY DEF Location
  <2>3. CASE x[1] = Moved("TOTP_SENT", "totp", None)
      BY <1>2, <1>6, <2>2, <2>3
  <2>. QED  BY <1>1, <1>6, <2>1, <2>3
<1>7. CASE to \in {"hotp", "totp"} /\ x \in PhaseTwo(auth, s)
  <2>1. CASE x \in Stay(OtpDenied, s)
      BY <1>1, <1>7, <2>1 DEF Stay
  <2>2. CASE x \notin Stay(OtpDenied, s)
    <3>1. auth.pass = "otp" /\ \E c \in Cookie :
            x = <<Moved("UNKNOWN", "apps", c), [s EXCEPT ![c] = "live"]>>
        BY <1>7, <2>2 DEF PhaseTwo, Unissued
    <3>2. "apps" \in Location
        BY DEF Location
    <3>. QED  BY <1>2, <1>7, <3>1, <3>2
  <2>. QED  BY <2>1, <2>2
<1>8. CASE to = "webLogin" /\ x \in Stay({Page(200, "html")}, s)
    BY <1>8 DEF Stay, Page
<1>9. CASE to = "mepState" /\ x \in Stay(MepState(cookie, s, kind), s)
  <2>1. \A session : MepStatus(session, kind) \cap {"soap", "refused"} = {}
      BY DEF MepStatus
  <2>. QED  BY <1>9, <2>1 DEF Stay, MepState, Page
<1>. QED  BY <1>4, <1>5, <1>6, <1>7, <1>8, <1>9 DEF Answers, LoginPlaces, OtpPlaces

LEMMA ExchangeResolves ==
    ASSUME TypeOK, Logins, Resolving, Exchange PROVE Resolving'
<1>1. /\ call.pc = "http" /\ call.pc \in Running /\ UNCHANGED <<ctx, appOtp>>
      /\ call'.op = call.op /\ call'.to = call.to /\ call'.again = call.again
      /\ \/ HttpAnswered /\ call'.pc = "code"
         \/ ~HttpAnswered /\ call'.pc = "done" /\ call'.err \in {"NETWORK", "ABORTED"}
    BY ExchangeSteps
<1>2. SUFFICES ASSUME call.op = "login", ctx.otp PROVE Resolving'
    BY <1>1 DEF Resolving
<1>3. /\ appOtp.method # "undefined"
      /\ curl.auth.pass = "otp" \/ ctx.cred.pass = "otp" => appOtp.code
      /\ call.again => appOtp.code
      /\ ~call.again => call.to = LoginUrl(FALSE, TRUE)
    BY <1>1, <1>2 DEF Resolving
<1>4. SetOptions.auth.pass = "otp" => appOtp.code
    BY <1>3 DEF SetOptions, TypeOK, Handle, Context, Credentials
<1>5. curl'.auth.pass = "otp" => appOtp.code
  <2>1. \A r : Receive(SetOptions, r).auth = SetOptions.auth
      BY SetOptionsType DEF Receive, Handle
  <2>2. Closed.auth.pass = "none"
      BY DEF Closed, NoCredentials
  <2>. QED  BY <1>4, <2>1, <2>2 DEF Exchange, HttpAnswered, HttpFailed, HttpAborted
<1>6. LoginUrl(FALSE, TRUE)' = LoginUrl(FALSE, TRUE)
    BY <1>1 DEF LoginUrl
<1>7. CASE ~HttpAnswered
  <2>1. call'.pc = "done" /\ Told(call.err)'
      BY <1>1, <1>7 DEF Told
  <2>. QED  BY <1>1, <1>3, <1>5, <1>6, <2>1 DEF Resolving
<1>8. CASE HttpAnswered
  <2>1. call.to \in OtpPlaces /\ Target \in {call.to, "mepState"}
    <3>1. call.to \in OtpPlaces
        BY <1>1, <1>2 DEF Logins, OtpLoggingIn
    <3>. QED  BY <3>1 DEF Target
  <2>2. PICK x \in Exchanges : reply' = x[1]
      BY <1>8 DEF HttpAnswered
  <2>3. Target \in LoginPlaces /\ Target # "mep"
      BY <2>1 DEF LoginPlaces, OtpPlaces
  <2>4. PICK auth, jar : /\ auth = SetOptions.auth
                         /\ x \in Answers(Target, auth, jar, ctx.mep, srv)
      BY <2>2 DEF Exchanges
  <2>5. /\ reply'.http # 302 => reply'.code \in OtpReasons \cup {"UNKNOWN"}
        /\ reply'.http = 200 => reply'.code = "UNKNOWN"
        /\ reply'.body \in {"soap", "refused"} => reply'.http = 200
        /\ reply'.http = 302 => reply'.to # None
      BY <2>2, <2>3, <2>4, OtpAnswers
  <2>11. Target = "mepState" => reply'.http # 302
      BY <2>2, <2>4, PollAnswers
  <2>9. reply'.http = 302 /\ Target \in {"hotp", "totp"} => auth.pass = "otp"
      BY <2>2, <2>3, <2>4, OtpAnswers
  <2>10. reply'.http = 302 /\ Target = "sendsms" => reply'.code = "TOTP_SENT"
      BY <2>2, <2>3, <2>4, OtpAnswers
  <2>6. ASSUME reply'.http = 302, ~appOtp.code
        PROVE  appOtp.method = "TOTP" /\ ~call.again /\ reply'.code = "TOTP_SENT"
    <3>1. auth.pass # "otp"
        BY <1>4, <2>4, <2>6
    <3>2. Target \notin {"hotp", "totp", "mepState"}
        BY <2>9, <2>11, <2>6, <3>1
    <3>3. ~call.again /\ call.to = LoginUrl(FALSE, TRUE)
        BY <1>3, <2>6
    <3>4. Target = "sendsms" /\ appOtp.method # "HOTP"
        BY <2>1, <2>6, <3>2, <3>3 DEF LoginUrl
    <3>5. appOtp.method = "TOTP"
        BY <1>3, <3>4, MethodAssumption DEF TypeOK, OtpArgument
    <3>. QED  BY <2>10, <2>6, <3>3, <3>4, <3>5
  <2>7. call'.pc = "code" /\ appOtp' = appOtp /\ call'.again = call.again
      BY <1>1, <1>8
  <2>8. IF reply'.http = 302
        THEN /\ reply'.to # None
             /\ ~appOtp'.code =>
                  appOtp'.method = "TOTP" /\ ~call'.again /\ reply'.code = "TOTP_SENT"
        ELSE /\ reply'.code \in OtpReasons \cup {"UNKNOWN"}
             /\ reply'.http = 200 => reply'.code = "UNKNOWN"
             /\ reply'.body \in {"soap", "refused"} => reply'.http = 200
      BY <2>5, <2>6, <2>7
  <2>. QED
      BY <1>1, <1>3, <1>5, <1>6, <2>7, <2>8 DEF Resolving
<1>. QED  BY <1>1, <1>7, <1>8

LEMMA AnswerResolves ==
    ASSUME TypeOK, Logins, Resolving, Answer PROVE Resolving'
<1>1. /\ call.pc \in {"code", "body"} /\ call.pc \in Running
      /\ call'.op = call.op /\ call'.pc \in {"http", "body", "done"}
      /\ UNCHANGED reply /\ ctx'.otp = ctx.otp
    BY AnswerKeeps
<1>2. SUFFICES ASSUME call.op = "login", ctx.otp PROVE Resolving'
    BY <1>1 DEF Resolving
<1>3. /\ appOtp.method # "undefined"
      /\ curl.auth.pass = "otp" \/ ctx.cred.pass = "otp" => appOtp.code
      /\ call.again => appOtp.code
      /\ ~call.again => call.to = LoginUrl(FALSE, TRUE)
      /\ call.pc = "code" =>
             IF reply.http = 302
             THEN /\ reply.to # None
                  /\ ~appOtp.code => appOtp.method = "TOTP" /\ ~call.again /\ reply.code = "TOTP_SENT"
             ELSE /\ reply.code \in OtpReasons \cup {"UNKNOWN"}
                  /\ reply.http = 200 => reply.code = "UNKNOWN"
                  /\ reply.body \in {"soap", "refused"} => reply.http = 200
      /\ call.pc = "body" /\ reply.body \in {"soap", "refused"} => appOtp.res = "SUCCESS"
    BY <1>1, <1>2 DEF Resolving
<1>4. ctx.otpCred /\ Otp /\ ~Mep
    BY <1>1, <1>2 DEF Logins, OtpLoggingIn, Otp, Mep
<1>5. \A res : Resolve(res) => /\ appOtp'.method = appOtp.method
                               /\ appOtp'.code = appOtp.code /\ appOtp'.res = res
    BY <1>4 DEF Resolve, TypeOK, OtpArgument
<1>6. appOtp'.method = appOtp.method /\ appOtp'.code = appOtp.code
    BY <1>4, <1>5 DEF Answer, AnswerOk, MepWait, MepAcknowledged, MepFailed, OtpRedirect,
       OtpCodeNeeded, MepRequested, MepLoggedIn, MepStrayRedirect, AnswerRefused,
       AnswerOther, BodyRead
<1>7. LoginUrl(FALSE, TRUE)' = LoginUrl(FALSE, TRUE)
    BY <1>6 DEF LoginUrl
<1>8. curl'.auth.pass = "otp" \/ ctx'.cred.pass = "otp" => appOtp'.code
  <2>1. ctx'.cred.pass = "otp" => ctx.cred.pass = "otp"
    <3>1. Discard(ctx, FALSE).cred.pass = "none"
        BY DEF Discard, TypeOK, Context, NoCredentials
    <3>. QED  BY <3>1, AnswerSteps
  <2>2. curl'.auth.pass = "otp" => curl.auth.pass = "otp"
    <3>1. UnsetAuthorization(curl).auth.pass = "none"
        BY DEF UnsetAuthorization, TypeOK, Handle, Credentials
    <3>. QED
        BY <3>1 DEF Answer, AnswerOk, MepWait, MepAcknowledged, MepFailed, OtpRedirect,
           OtpCodeNeeded, MepRequested, MepLoggedIn, MepStrayRedirect, AnswerRefused,
           AnswerOther, BodyRead
  <2>. QED  BY <1>3, <1>6, <2>1, <2>2
<1>9. CASE OtpRedirect
  <2>1. call'.pc = "http" /\ call'.again = TRUE /\ appOtp.code
      BY <1>9, AnswerSteps DEF OtpRedirect
  <2>. QED  BY <1>1, <1>3, <1>6, <1>8, <2>1 DEF Resolving
<1>10. CASE ~OtpRedirect
  <2>1. \/ AnswerOk \/ OtpCodeNeeded \/ AnswerRefused \/ AnswerOther \/ BodyRead
      BY <1>4, <1>10 DEF Answer, MepWait, MepAcknowledged, MepFailed, MepRequested,
         MepLoggedIn, MepStrayRedirect
  <2>2. call'.pc # "http" /\ call'.pc # "code"
      BY <2>1, SoapSteps DEF AnswerOk, OtpCodeNeeded, AnswerRefused, AnswerOther, BodyRead
  <2>3. /\ call'.again => appOtp'.code
        /\ ~call'.again => call'.to = LoginUrl(FALSE, TRUE)'
      BY <1>3, <1>6, <1>7, <1>10, <2>2, AnswerSteps
  <2>4. /\ call'.pc = "body" /\ reply.body \in {"soap", "refused"} => appOtp'.res = "SUCCESS"
        /\ call'.pc = "done" => Told(call.err)'
    <3>1. CASE AnswerOk
      <4>1. OtpSucceeded = "SUCCESS"
          BY <1>3, <3>1 DEF AnswerOk, Coded, OtpSucceeded, HeaderResolution
      <4>. QED  BY <1>5, <3>1, <4>1, SoapSteps DEF AnswerOk
    <3>2. CASE OtpCodeNeeded
      <4>1. call.pc = "code" /\ reply.http = 302 /\ ~(appOtp.code /\ reply.to # None)
          BY <3>2 DEF OtpCodeNeeded, Coded
      <4>2. appOtp.method = "TOTP" /\ OtpSucceeded = "TOTP_SENT"
          BY <1>3, <4>1 DEF OtpSucceeded, HeaderResolution
      <4>3. appOtp'.res = "TOTP_SENT" /\ call'.pc = "done" /\ call'.err = "PARTIAL"
          BY <1>5, <3>2, <4>2, SoapSteps DEF OtpCodeNeeded
      <4>. QED  BY <1>6, <4>2, <4>3 DEF Told
    <3>3. CASE AnswerRefused
      <4>1. call.pc = "code" /\ reply.http # 302
          BY <1>4, <3>3 DEF AnswerRefused, Coded
      <4>2. HeaderResolution \notin {"SUCCESS", "TOTP_SENT"}
          BY <1>3, <4>1, ReasonAssumption DEF HeaderResolution
      <4>3. /\ appOtp'.res = HeaderResolution
            /\ call'.pc = "done" /\ call'.err \notin {"SUCCESS", "PARTIAL"}
          BY <1>5, <3>3, SoapSteps DEF AnswerRefused, CodeError
      <4>. QED  BY <4>2, <4>3 DEF Told
    <3>4. CASE AnswerOther
      <4>1. call.pc = "code" /\ reply.http \in {400, 500} /\ call'.pc = "body"
          BY <3>4, SoapSteps DEF AnswerOther, Coded
      <4>. QED  BY <1>3, <4>1
    <3>5. CASE BodyRead
      <4>1. /\ call.pc = "body" /\ appOtp' = appOtp
            /\ call'.pc = "done" /\ call'.err = BodyResult
          BY <3>5, SoapSteps DEF BodyRead
      <4>2. /\ BodyResult \in {"SUCCESS", "XML", "SOAP"}
            /\ BodyResult = "SUCCESS" => reply.body \in {"soap", "refused"}
          BY DEF BodyResult
      <4>. QED  BY <1>3, <4>1, <4>2 DEF Told
    <3>. QED  BY <2>1, <3>1, <3>2, <3>3, <3>4, <3>5
  <2>. QED  BY <1>1, <1>3, <1>6, <1>8, <2>2, <2>3, <2>4 DEF Resolving
<1>. QED  BY <1>9, <1>10

LEMMA ResolvingStep == ASSUME TypeOK, Logins, Resolving, [Next]_vars PROVE Resolving'
<1>1. CASE UNCHANGED vars
    BY <1>1 DEF vars, Resolving, LoginUrl, Told
<1>2. CASE Next /\ (call'.op # "login" \/ call'.pc \notin Running)
    BY <1>2 DEF Resolving
<1>3. CASE Next /\ call'.op = "login" /\ call'.pc \in Running
  <2>1. LoginSend \/ Exchange \/ Answer \/ Environment
      BY <1>3, CallRuns
  <2>2. CASE Environment
      BY <2>2, EnvironmentSteps DEF Resolving, LoginUrl, Told
  <2>3. CASE LoginSend
    <3>1. SUFFICES ASSUME ctx'.otp PROVE Resolving'
        BY DEF Resolving
    <3>2. LoginUrl(FALSE, TRUE)' = LoginUrl(FALSE, TRUE)
        BY <2>3, LoginBegins DEF LoginUrl
    <3>3. curl'.auth.pass = "none"
        BY <2>3 DEF LoginSend, Opened, Closed, NoCredentials
    <3>4. /\ appOtp'.method # "undefined"
          /\ curl'.auth.pass = "otp" \/ ctx'.cred.pass = "otp" => appOtp'.code
          /\ call'.to = LoginUrl(FALSE, TRUE)' /\ call'.again = FALSE /\ call'.pc = "http"
        BY <2>3, <3>1, <3>2, <3>3, LoginBegins
    <3>. QED  BY <3>4 DEF Resolving
  <2>. QED  BY <2>1, <2>2, <2>3, ExchangeResolves, AnswerResolves
<1>. QED  BY <1>1, <1>2, <1>3

\* The log in tells at its end what it knows of the resolution.
LEMMA ResolutionStep ==
    ASSUME TypeOK, Logins, Resolving, ResolutionTold, [Next]_vars PROVE ResolutionTold'
<1>1. CASE UNCHANGED vars
    BY <1>1 DEF vars, ResolutionTold, Idle
<1>2. CASE Next /\ (call'.op # "login" \/ call'.pc # "idle")
    BY <1>2 DEF ResolutionTold, Idle
<1>3. CASE Next /\ call'.op = "login" /\ call'.pc = "idle"
  <2>1. Environment \/ LoginReturns
      BY <1>3, CallReturned DEF Running
  <2>2. CASE Environment
      BY <2>2, EnvironmentSteps DEF ResolutionTold, Idle
  <2>3. CASE LoginMissingPassword \/ LoginUnknownMethod \/ LoginOutOfMemory
    <3>1. call'.err \in {"INVAL", "ENUM", "NOMEM", "ERROR"}
        BY <2>3, ReturnSteps DEF LoginMissingPassword, LoginUnknownMethod, LoginOutOfMemory
    <3>. QED  BY <3>1 DEF ResolutionTold
  <2>4. CASE LoginDone
    <3>1. SUFFICES ASSUME ctx.otp, call'.err = call.err
                   PROVE  /\ Told(call.err)
                          /\ curl'.open = (call.err = "SUCCESS")
        BY <2>4, LoginEnds DEF ResolutionTold, Told
    <3>2. Told(call.err)
        BY <2>4, <3>1, LoginEnds DEF Resolving, Running
    <3>3. call.err = "SUCCESS" => curl.open /\ curl' = curl
        BY <2>4, <3>1, LoginEnds DEF Logins, OtpLoggingIn, AnswerKnown, Running
    <3>4. call.err # "SUCCESS" => curl'.open = FALSE
        BY <2>4, <3>1, LoginEnds DEF Closed
    <3>5. curl.open \in BOOLEAN
        BY DEF TypeOK, Handle
    <3>. QED  BY <3>2, <3>3, <3>4, <3>5
  <2>. QED  BY <2>1, <2>2, <2>3, <2>4 DEF LoginReturns
<1>. QED  BY <1>1, <1>2, <1>3

\* What isds_login() writes into otp->resolution agrees with what it returns,
\* whatever the server answers, the exchange meets and memory allows.
THEOREM ResolutionAgrees == Spec => []ResolutionTold
<1>1. Init => TypeOK /\ Logins /\ Resolving /\ ResolutionTold
  <2>1. Init => call.op = "none"
      BY DEF Init, At
  <2>. QED  BY <2>1, TypeInit, LoginsInit DEF Resolving, ResolutionTold
<1>2. TypeOK /\ Logins /\ Resolving /\ ResolutionTold /\ [Next]_vars
        => (TypeOK /\ Logins /\ Resolving /\ ResolutionTold)'
    BY TypeStep, LoginsStep, ResolvingStep, ResolutionStep
<1>. QED  BY <1>1, <1>2, PTL DEF Spec

-----------------------------------------------------------------------------
(***************************************************************************)
(* A mobile key log in that is pending.                                    *)
(***************************************************************************)

PendingStatus == {"1", "WAIT_TO_SEND", "SENT", "NOTIF", "LAUNCHED"}

\* The cookie of a mobile key log in the server has not finished.
Negotiated(c) == c \in Cookie /\ srv[c] \in {"mepWaiting", "mepAcked", "mepGone"}

\* An isds_login() that was refused for its arguments may leave one-time
\* credentials behind; they take precedence in _isds_soap(), which then does
\* not look at the state of the mobile key log in.
Resumable == ~ctx.otpCred => appMep.uri /\ appMep.res = "ACK_REQUESTED"

\* A request for a new log in goes out without a cookie, unless it finishes an
\* acknowledged one.  So a redirect starts a negotiation and brings its
\* cookie, and only the negotiation of the handle's cookie is ever undecided.
Negotiating ==
    call.op = "loginMep" /\ call.pc \in Running =>
        /\ ctx.mep # "NONE"
        /\ call.pc = "http" /\ call.to = "mep" /\ ~appMep.uri =>
             curl.jar = None \/ (~ctx.otpCred /\ appMep.res = "ACK")
        /\ ~ctx.otpCred /\ call.pc = "code" /\ reply.body \in PendingStatus =>
             appMep.uri /\ Negotiated(curl.jar)
        /\ ctx.otpCred =>
             /\ call.to \in {"mep", "mepState"}
             /\ call.pc = "code" /\ reply.http = 302 =>
                  reply.to = "mepState" /\ Negotiated(curl.jar)
        /\ call.pc = "done" /\ call.err = "PARTIAL" => Negotiated(curl.jar) /\ Resumable

PartialKept ==
    Returned("loginMep", "PARTIAL") => curl.open /\ Negotiated(curl.jar) /\ Resumable

\* A log in at the mobile key service, without an acknowledged cookie.
LEMMA MepAnswers ==
    ASSUME NEW auth, NEW cookie, NEW kind, NEW s \in Sessions,
           NEW x \in Answers("mep", auth, cookie, kind, s)
    PROVE  /\ x[1].body \notin PendingStatus
           /\ x[1].http = 302 /\ ~(cookie \in Cookie /\ s[cookie] = "mepAcked") =>
                /\ x[1].to = "mepState" /\ x[1].cookie \in Cookie
                /\ x[2][x[1].cookie] = "mepWaiting"
<1>1. \A p \in Trouble \cup Denied : p.http # 302 /\ p.body \notin PendingStatus
    BY DEF Trouble, Denied, Page, PendingStatus
<1>2. \A place, c : /\ Moved("UNKNOWN", place, c).to = place
                    /\ Moved("UNKNOWN", place, c).cookie = c
                    /\ Moved("UNKNOWN", place, c).body \notin PendingStatus
    BY DEF Moved, PendingStatus
<1>3. CASE x \in Stay(Trouble, s)
    BY <1>1, <1>3 DEF Stay
<1>4. CASE x \in MepLogin(auth, cookie, s)
  <2>1. CASE cookie \in Cookie /\ s[cookie] = "mepAcked"
      BY <1>2, <1>4, <2>1 DEF MepLogin
  <2>2. CASE ~(cookie \in Cookie /\ s[cookie] = "mepAcked")
    <3>1. CASE x \in Stay(Denied, s)
        BY <1>1, <3>1 DEF Stay
    <3>2. CASE x \notin Stay(Denied, s)
      <4>1. PICK c \in Cookie :
              x = <<Moved("UNKNOWN", "mepState", c), [s EXCEPT ![c] = "mepWaiting"]>>
          BY <1>4, <2>2, <3>2 DEF MepLogin, Unissued
      <4>2. [s EXCEPT ![c] = "mepWaiting"][c] = "mepWaiting"
          BY DEF Sessions
      <4>. QED  BY <1>2, <4>1, <4>2
    <3>. QED  BY <3>1, <3>2
  <2>. QED  BY <2>1, <2>2
<1>. QED  BY <1>3, <1>4 DEF Answers

\* A mobile key negotiation that is not finished stays one.
LEMMA EnvironmentNegotiates ==
    ASSUME TypeOK, Environment, NEW c, Negotiated(c)
    PROVE  c \in Cookie /\ srv'[c] \in {"mepWaiting", "mepAcked", "mepGone"}
<1>1. PICK d \in Cookie, to \in {"mepAcked", "mepGone", "over"} :
        /\ srv[d] = IF to = "over" THEN "live" ELSE "mepWaiting"
        /\ srv' = [srv EXCEPT ![d] = to]
    BY DEF Environment, UserAcknowledges, RequestExpires, SessionExpires, SessionMoves
<1>2. c \in Cookie => srv'[c] = IF c = d THEN to ELSE srv[c]
    BY <1>1 DEF TypeOK
<1>. QED  BY <1>1, <1>2 DEF Negotiated

LEMMA ExchangeNegotiates ==
    ASSUME TypeOK, Logins, Negotiating, Exchange PROVE Negotiating'
<1>1. /\ call.pc = "http" /\ call.pc \in Running /\ UNCHANGED <<ctx, appMep>>
      /\ call'.op = call.op /\ call'.to = call.to
      /\ \/ HttpAnswered /\ call'.pc = "code"
         \/ ~HttpAnswered /\ call'.pc = "done" /\ call'.err \in {"NETWORK", "ABORTED"}
    BY ExchangeSteps
<1>2. SUFFICES ASSUME call.op = "loginMep" PROVE Negotiating'
    BY <1>1 DEF Negotiating
<1>3. /\ ctx.mep # "NONE" /\ ctx.mepCred
      /\ call.to = "mep" /\ ~appMep.uri =>
           curl.jar = None \/ (~ctx.otpCred /\ appMep.res = "ACK")
      /\ ctx.otpCred => call.to \in {"mep", "mepState"}
      /\ ~ctx.otpCred => call.to = "mep"
    BY <1>1, <1>2 DEF Negotiating, Logins, MepLoggingIn
<1>4. CASE ~HttpAnswered
  <2>1. call'.pc = "done" /\ call'.err # "PARTIAL"
      BY <1>1, <1>4
  <2>. QED  BY <1>1, <1>3, <2>1 DEF Negotiating
<1>5. CASE HttpAnswered
  <2>1. PICK x \in Exchanges :
          reply' = x[1] /\ srv' = x[2] /\ curl' = Receive(SetOptions, x[1])
      BY <1>5 DEF HttpAnswered
  <2>2. PICK auth : x \in Answers(Target, auth, curl.jar, ctx.mep, srv)
      BY <2>1, SetOptionsKeep DEF Exchanges
  <2>3. curl.jar \in Cookie \cup {None} /\ srv \in Sessions
      BY DEF TypeOK, Handle, Sessions
  <2>4. SetOptions.engine /\ SetOptions \in Handle
      BY <1>3, SetOptionsType, SetOptionsKeep DEF CookieSession
  <2>5. curl'.jar = IF x[1].cookie # None THEN x[1].cookie ELSE curl.jar
      BY <2>1, <2>4, ReceiveKeeps, SetOptionsKeep
  <2>6. CASE appMep.uri
    <3>1. Target = "mepState"
        BY <1>2, <1>3, <2>6 DEF Target, Polling, Soap
    <3>2. /\ reply'.http # 302
          /\ reply'.body \in PendingStatus => Negotiated(curl.jar)'
        BY <2>1, <2>2, <2>5, <3>1, PollAnswers DEF PendingStatus, Negotiated
    <3>. QED  BY <1>1, <1>3, <1>5, <2>6, <3>2 DEF Negotiating
  <2>7. CASE ~appMep.uri
    <3>1. Target = call.to
        BY <2>7 DEF Target, Polling
    <3>2. ASSUME call.to = "mep"
          PROVE  /\ reply'.body \notin PendingStatus
                 /\ reply'.http = 302 /\ ctx.otpCred =>
                      reply'.to = "mepState" /\ Negotiated(curl.jar)'
      <4>1. reply'.body \notin PendingStatus
          BY <2>1, <2>2, <2>3, <3>1, <3>2, MepAnswers
      <4>2. ASSUME reply'.http = 302, ctx.otpCred
            PROVE  reply'.to = "mepState" /\ Negotiated(curl.jar)'
        <5>1. curl.jar \notin Cookie
            BY <1>3, <2>7, <3>2, <4>2, CookieAssumption
        <5>2. /\ x[1].to = "mepState" /\ x[1].cookie \in Cookie
              /\ x[2][x[1].cookie] = "mepWaiting"
            BY <2>1, <2>2, <2>3, <3>1, <3>2, <4>2, <5>1, MepAnswers
        <5>. QED  BY <2>1, <2>5, <5>2, CookieAssumption DEF Negotiated
      <4>. QED  BY <4>1, <4>2
    <3>3. ASSUME call.to = "mepState" PROVE reply'.http # 302
        BY <2>1, <2>2, <3>1, <3>3, PollAnswers
    <3>. QED  BY <1>1, <1>3, <1>5, <2>7, <3>2, <3>3 DEF Negotiating
  <2>. QED  BY <2>6, <2>7
<1>. QED  BY <1>1, <1>4, <1>5

LEMMA AnswerNegotiates ==
    ASSUME TypeOK, Logins, Negotiating, Answer PROVE Negotiating'
<1>1. /\ call.pc \in {"code", "body"} /\ call.pc \in Running
      /\ call'.op = call.op /\ call'.pc \in {"http", "body", "done"}
      /\ UNCHANGED <<reply, srv>> /\ curl'.jar = curl.jar
      /\ ctx'.otpCred = ctx.otpCred /\ ctx'.mep = ctx.mep
    BY AnswerKeeps
<1>2. SUFFICES ASSUME call.op = "loginMep" PROVE Negotiating'
    BY <1>1 DEF Negotiating
<1>3. /\ ctx.mep # "NONE"
      /\ ~ctx.otpCred /\ call.pc = "code" /\ reply.body \in PendingStatus =>
           appMep.uri /\ Negotiated(curl.jar)
      /\ ctx.otpCred =>
             /\ call.to \in {"mep", "mepState"}
             /\ call.pc = "code" /\ reply.http = 302 =>
                  reply.to = "mepState" /\ Negotiated(curl.jar)
    BY <1>1, <1>2 DEF Negotiating
<1>4. Negotiated(curl.jar)' = Negotiated(curl.jar)
    BY <1>1 DEF Negotiated
<1>5. call'.pc = "http" /\ ~appMep'.uri => OtpRedirect \/ (~ctx.otpCred /\ appMep'.res = "ACK")
  <2>1. MepRequested => appMep'.uri
      BY DEF MepRequested, TypeOK, MepArgument
  <2>2. MepAcknowledged => ~ctx.otpCred /\ appMep'.res = "ACK"
      BY DEF MepAcknowledged, Mep, Otp, TypeOK, MepArgument
  <2>3. MepLoggedIn \/ BodyRead => call'.pc = "done"
      BY SoapSteps DEF MepLoggedIn, BodyRead
  <2>. QED  BY <2>1, <2>2, <2>3, AnswerGoes
<1>6. ctx.otpCred => /\ call'.to \in {"mep", "mepState"}
                     /\ OtpRedirect => call'.to = "mepState"
  <2>1. OtpRedirect => call'.to = reply.to /\ call.pc = "code" /\ reply.http = 302
      BY AnswerSteps DEF OtpRedirect, Coded
  <2>. QED  BY <1>3, <2>1, AnswerSteps
<1>7. OtpRedirect => ctx.otpCred
    BY DEF OtpRedirect, Otp
<1>8. call'.pc = "done" /\ call'.err = "PARTIAL" => Negotiated(curl.jar)' /\ Resumable'
  <2>1. SUFFICES ASSUME call'.pc = "done", call'.err = "PARTIAL"
                 PROVE  Negotiated(curl.jar) /\ Resumable'
      BY <1>4
  <2>2. MepWait \/ OtpCodeNeeded
    <3>1. ~(MepAcknowledged \/ MepRequested \/ OtpRedirect \/ AnswerOk \/ MepStrayRedirect
            \/ AnswerOther)
        BY <2>1, SoapSteps DEF MepAcknowledged, MepRequested, OtpRedirect, AnswerOk,
           MepStrayRedirect, AnswerOther
    <3>2. ~(MepFailed \/ MepLoggedIn \/ AnswerRefused \/ BodyRead)
        BY <2>1, SoapSteps DEF MepFailed, MepLoggedIn, AnswerRefused, CodeError, BodyRead,
           BodyResult
    <3>. QED  BY <3>1, <3>2 DEF Answer
  <2>3. CASE MepWait
    <3>1. ~ctx.otpCred /\ call.pc = "code" /\ MepPending(MepStatusValue)
        BY <2>3 DEF MepWait, Mep, Otp, Coded
    <3>2. reply.body \in PendingStatus /\ MepStatusResolution(MepStatusValue) = "ACK_REQUESTED"
        BY <3>1 DEF MepPending, MepStatusValue, MepStatusResolution, PendingStatus
    <3>3. appMep'.res = "ACK_REQUESTED" /\ appMep'.uri = appMep.uri
        BY <2>3, <3>2 DEF MepWait, TypeOK, MepArgument
    <3>. QED  BY <1>3, <3>1, <3>2, <3>3 DEF Resumable
  <2>4. CASE OtpCodeNeeded
      BY <1>1, <1>3, <2>4 DEF OtpCodeNeeded, Otp, Coded, Resumable
  <2>. QED  BY <2>2, <2>3, <2>4
<1>. QED  BY <1>1, <1>3, <1>5, <1>6, <1>7, <1>8 DEF Negotiating

LEMMA NegotiatingStep ==
    ASSUME TypeOK, Logins, Negotiating, [Next]_vars PROVE Negotiating'
<1>1. CASE UNCHANGED vars
    BY <1>1 DEF vars, Negotiating, Negotiated, Resumable
<1>2. CASE Next /\ (call'.op # "loginMep" \/ call'.pc \notin Running)
    BY <1>2 DEF Negotiating
<1>3. CASE Next /\ call'.op = "loginMep" /\ call'.pc \in Running
  <2>1. LoginMepSend \/ Exchange \/ Answer \/ Environment
      BY <1>3, CallRuns
  <2>2. CASE Environment
    <3>1. UNCHANGED <<ctx, curl, appMep, call, reply>>
        BY <2>2, EnvironmentSteps
    <3>2. Negotiated(curl.jar) => Negotiated(curl.jar)'
        BY <2>2, <3>1, EnvironmentNegotiates DEF Negotiated
    <3>. QED  BY <3>1, <3>2 DEF Negotiating, Resumable
  <2>3. CASE LoginMepSend
    <3>1. /\ call'.pc = "http" /\ call'.to = "mep" /\ ctx'.mep # "NONE"
          /\ ~appMep'.uri => ~appMep.uri
        BY <2>3, LoginMepBegins
    <3>2. ~appMep.uri => curl'.jar = None
        BY <2>3, LoginMepBegins DEF MepHandle, Opened, Closed
    <3>. QED  BY <3>1, <3>2 DEF Negotiating
  <2>. QED  BY <2>1, <2>2, <2>3, ExchangeNegotiates, AnswerNegotiates
<1>. QED  BY <1>1, <1>2, <1>3

LEMMA PartialKeptStep ==
    ASSUME TypeOK, Logins, Negotiating, PartialKept, [Next]_vars PROVE PartialKept'
<1>1. CASE UNCHANGED vars
    BY <1>1 DEF vars, PartialKept, Negotiated, Resumable, Returned, Idle
<1>2. CASE Next /\ ~Returned("loginMep", "PARTIAL")'
    BY <1>2 DEF PartialKept
<1>3. CASE Next /\ Returned("loginMep", "PARTIAL")'
  <2>1. call'.op = "loginMep" /\ call'.pc = "idle" /\ call'.err = "PARTIAL"
      BY <1>3 DEF Returned, Idle
  <2>2. Environment \/ LoginMepReturns
      BY <1>3, <2>1, CallReturned DEF Running
  <2>3. ~(LoginMepBadArgument \/ LoginMepOutOfMemory)
    <3>1. LoginMepBadArgument \/ LoginMepOutOfMemory =>
            \E err \in {"INVAL", "NOMEM", "ERROR"} : Return("loginMep", err)
        BY DEF LoginMepBadArgument, LoginMepOutOfMemory
    <3>. QED  BY <2>1, <3>1, ReturnSteps
  <2>4. CASE Environment
    <3>1. UNCHANGED <<ctx, curl, appMep, call, reply>>
        BY <2>4, EnvironmentSteps
    <3>2. Negotiated(curl.jar) => Negotiated(curl.jar)'
        BY <2>4, <3>1, EnvironmentNegotiates DEF Negotiated
    <3>. QED  BY <3>1, <3>2 DEF PartialKept, Resumable, Returned, Idle
  <2>5. CASE LoginMepDone
    <3>1. call.err = "PARTIAL"
        BY <2>1, <2>5, LoginMepEnds
    <3>2. Negotiated(curl.jar) /\ Resumable
        BY <2>5, <3>1, LoginMepEnds DEF Negotiating, Running
    <3>3. curl.open
        BY <3>2, CookieAssumption DEF Negotiated, Logins, Connected
    <3>. QED
        BY <2>1, <2>5, <3>2, <3>3, LoginMepEnds DEF PartialKept, Negotiated, Resumable
  <2>. QED  BY <2>2, <2>3, <2>4, <2>5 DEF LoginMepReturns
<1>. QED  BY <1>1, <1>2, <1>3

LEMMA PendingInit == ASSUME Init PROVE Negotiating /\ PartialKept
<1>1. call.op = "none"
    BY DEF Init, At
<1>. QED  BY <1>1 DEF Negotiating, PartialKept, Returned

\* A partial success of isds_login_mep() can be continued by repeating the
\* call, unless an isds_login() before it has left one-time credentials.
THEOREM PendingContinues == Spec => [](~ctx.otpCred => PendingResumable)
<1>1. PartialKept => (~ctx.otpCred => PendingResumable)
    BY DEF PartialKept, PendingResumable, Negotiated, Resumable
<1>2. Init => TypeOK /\ Logins /\ Negotiating /\ PartialKept
    BY TypeInit, LoginsInit, PendingInit
<1>3. TypeOK /\ Logins /\ Negotiating /\ PartialKept /\ [Next]_vars
        => (TypeOK /\ Logins /\ Negotiating /\ PartialKept)'
    BY TypeStep, LoginsStep, NegotiatingStep, PartialKeptStep
<1>. QED  BY <1>1, <1>2, <1>3, PTL DEF Spec

-----------------------------------------------------------------------------
(***************************************************************************)
(* One-time credentials in the context.                                    *)
(***************************************************************************)

\* isds_login() sets the credentials before it looks at the method and before
\* its allocations, and leaves them where these fail.  Otherwise they are in
\* the context only while a call uses them.
CredentialsTaken ==
    ctx.otpCred => call.pc \in Running /\ call.op \in {"login", "changePassword", "requestTotp"}

LEMMA CredentialsTakenStep ==
    ASSUME TypeOK, Logins, CredentialsTaken, [Next]_vars,
           AllocFails = FALSE, "undefined" \notin OtpMethods
    PROVE  CredentialsTaken'
<1>1. CASE UNCHANGED vars
    BY <1>1 DEF vars, CredentialsTaken
<1>2. CASE Next /\ call'.pc \in Running
  <2>1. CASE (Exchange \/ Answer \/ Environment) /\ call.pc \in Running /\ call'.op = call.op
    <3>1. ctx'.otpCred = ctx.otpCred
        BY <2>1, ExchangeSteps, AnswerKeeps, EnvironmentSteps
    <3>. QED  BY <1>2, <2>1, <3>1 DEF CredentialsTaken
  <2>2. CASE call'.op \in {"login", "changePassword", "requestTotp"}
      BY <1>2, <2>2 DEF CredentialsTaken
  <2>3. CASE LoginMepSend
    <3>1. ~ctx.otpCred
        BY <2>3 DEF LoginMepSend, Idle, Running, CredentialsTaken
    <3>. QED  BY <2>3, <3>1, LoginMepBegins DEF CredentialsTaken
  <2>4. CASE ServiceSend \/ ChangePasswordPlain \/ LogoutSend
      BY <2>4 DEF ServiceSend, ChangePasswordPlain, LogoutSend, Idle, Running, CredentialsTaken
  <2>5. CASE AnonymousSend
    <3>1. ~ctx.otpCred
        BY <2>5 DEF AnonymousSend, Idle, Running, CredentialsTaken
    <3>2. ctx'.otpCred = ctx.otpCred
        BY <2>5 DEF AnonymousSend, TypeOK, Context
    <3>. QED  BY <3>1, <3>2 DEF CredentialsTaken
  <2>. QED  BY <1>2, <2>1, <2>2, <2>3, <2>4, <2>5, CallRuns
<1>3. CASE Next /\ call'.pc \notin Running
  <2>1. call.pc \notin Running => ctx.otpCred = FALSE
      BY DEF CredentialsTaken, TypeOK, Context
  <2>2. SUFFICES ctx'.otpCred = FALSE
      BY DEF CredentialsTaken
  <2>3. CASE Environment /\ call.pc \notin Running
      BY <2>1, <2>3, EnvironmentSteps
  <2>4. CASE Surroundings
    <3>1. call.pc \notin Running
        BY <2>4 DEF Surroundings, CodeEntered, MepAbandoned, CtxCreate, Idle, Running
    <3>2. UNCHANGED ctx
        BY <2>4 DEF Surroundings, CodeEntered, MepAbandoned, CtxCreate
    <3>. QED  BY <2>1, <3>1, <3>2
  <2>5. CASE LoginReturns
    <3>1. CASE LoginMissingPassword
        BY <2>1, <3>1, ResetKeeps DEF LoginMissingPassword, Idle, Running
    <3>2. CASE LoginDone
      <4>1. ~ctx.otp => ~ctx.otpCred
          BY <3>2, LoginEnds DEF Logins, OtpLoggingIn, Running
      <4>2. ctx.otpCred \in BOOLEAN
          BY DEF TypeOK, Context
      <4>. QED  BY <3>2, <4>1, <4>2, LoginEnds
    <3>3. ~LoginUnknownMethod /\ ~LoginOutOfMemory
        BY DEF LoginUnknownMethod, LoginOutOfMemory, TypeOK, OtpArgument
    <3>. QED  BY <2>5, <3>1, <3>2, <3>3 DEF LoginReturns
  <2>6. CASE LoginMepReturns
    <3>1. CASE LoginMepBadArgument
        BY <2>1, <3>1, ResetKeeps DEF LoginMepBadArgument, Idle, Running
    <3>2. CASE LoginMepDone
      <4>1. ~ctx.otpCred
          BY <3>2, LoginMepEnds DEF CredentialsTaken
      <4>2. ctx.otpCred \in BOOLEAN
          BY DEF TypeOK, Context
      <4>. QED  BY <3>2, <4>1, <4>2, LoginMepEnds
    <3>. QED  BY <2>6, <3>1, <3>2 DEF LoginMepReturns, LoginMepOutOfMemory
  <2>7. CASE ServiceReturns
    <3>1. UNCHANGED ctx
        BY <2>7 DEF ServiceReturns, ServiceClosed, ServiceSend, ServiceDone, ConversionDone
    <3>2. CASE ServiceClosed \/ ServiceSend
        BY <2>1, <3>1, <3>2 DEF ServiceClosed, ServiceSend, Idle, Running
    <3>3. CASE ServiceDone \/ ConversionDone
      <4>1. call.op \notin {"login", "changePassword", "requestTotp"}
          BY <3>3 DEF ServiceDone, ConversionDone
      <4>2. ctx.otpCred = FALSE
          BY <4>1 DEF CredentialsTaken, TypeOK, Context
      <4>. QED  BY <3>1, <4>2
    <3>. QED  BY <2>7, <3>2, <3>3 DEF ServiceReturns
  <2>8. CASE ChangePasswordReturns
    <3>1. CASE ChangePasswordDone \/ TotpRequestDone
        BY <3>1, ChangePasswordEnds
    <3>2. CASE ChangePasswordRefused \/ ChangePasswordOtpRefused
        BY <2>1, <3>2 DEF ChangePasswordRefused, ChangePasswordOtpRefused, Idle, Running
    <3>. QED  BY <2>8, <3>1, <3>2 DEF ChangePasswordReturns, ChangePasswordOutOfMemory
  <2>9. CASE LogoutReturns
    <3>1. ctx.otpCred = FALSE
        BY <2>9 DEF LogoutReturns, LogoutLocal, LogoutWithoutUrl, LogoutAnswered, LogoutFailed,
           CredentialsTaken, Idle, Running, TypeOK, Context
    <3>2. ctx' \in {ctx, LoggedOut, NewContext}
        BY <2>9 DEF LogoutReturns, LogoutLocal, LogoutWithoutUrl, LogoutAnswered, LogoutFailed,
           EndLogout
    <3>3. LoggedOut.otpCred = ctx.otpCred
      <4>. DEFINE base == [ctx EXCEPT !.url = None, !.vurl = None]
      <4>1. base \in Context /\ base.otpCred = ctx.otpCred /\ LoggedOut = Discard(base, TRUE)
          BY DEF TypeOK, Context, Url, LoggedOut
      <4>. HIDE DEF base
      <4>. QED  BY <4>1, DiscardKeeps
    <3>. QED  BY <3>1, <3>2, <3>3 DEF NewContext
  <2>. QED
      BY <1>3, <2>3, <2>4, <2>5, <2>6, <2>7, <2>8, <2>9, CallReturned
<1>. QED  BY <1>1, <1>2, <1>3

\* As long as memory suffices and the application knows its method, every
\* partial success of isds_login_mep() can be continued by repeating the call.
THEOREM PendingAlwaysContinues ==
    ASSUME AllocFails = FALSE, "undefined" \notin OtpMethods
    PROVE  Spec => []PendingResumable
<1>1. CredentialsTaken /\ PartialKept => PendingResumable
    BY DEF CredentialsTaken, PartialKept, PendingResumable, Negotiated, Resumable, Returned,
       Idle, Running
<1>2. Init => TypeOK /\ Logins /\ Negotiating /\ PartialKept /\ CredentialsTaken
  <2>1. NewContext.otpCred = FALSE
      BY DEF NewContext
  <2>. QED  BY <2>1, TypeInit, LoginsInit, PendingInit DEF Init, CredentialsTaken
<1>3. TypeOK /\ Logins /\ Negotiating /\ PartialKept /\ CredentialsTaken /\ [Next]_vars
        => (TypeOK /\ Logins /\ Negotiating /\ PartialKept /\ CredentialsTaken)'
    BY TypeStep, LoginsStep, NegotiatingStep, PartialKeptStep, CredentialsTakenStep
<1>. QED  BY <1>1, <1>2, <1>3, PTL DEF Spec

-----------------------------------------------------------------------------
(***************************************************************************)
(* The URLs of the context and of the requests.                            *)
(***************************************************************************)

\* Between two calls the context has the URL of the web services it may use,
\* the same for both kinds of services.
Resting ==
    /\ ctx.type # "ISDS" => ctx.url \in {"deposit", None} /\ ~CookieSession
    /\ ctx.mepCred => call.op = "loginMep" /\ call.pc \in Running
    /\ ~(call.op \in {"changePassword", "requestTotp"} /\ call.pc \in Running) =>
         call.savedUrl = None
    /\ Idle /\ curl.open /\ ctx.type = "ISDS" =>
         ctx.url \in {"base", "apps", None} /\ ctx.vurl = ctx.url

Authenticating == {"hotp", "totp", "sendsms"}

\* The URL that authenticates is only used until the handle has a cookie.
LoginUrls ==
    call.op = "login" /\ call.pc \in Running =>
        /\ ctx.type = "ISDS"
        /\ ctx.otp => ctx.url \in Authenticating
        /\ ~ctx.otp => ctx.url = "base" /\ ctx.vurl = "base"
        /\ call.pc = "http" /\ call.to \in Authenticating => curl.jar = None
        /\ call.pc = "code" /\ reply.to \in Authenticating => curl.jar = None

LoginMepUrls ==
    call.op = "loginMep" /\ call.pc \in Running => ctx.type = "ISDS" /\ ctx.url = "mep"

\* A service answers only a request that is authenticated for itself, or by
\* the cookie of a session.
Entitled == ctx.url # None /\ (ctx.url = "base" \/ Granted(curl.jar))

ServiceCallUrls ==
    call.op \in {"service", "vodz"} /\ call.pc \in Running =>
        /\ ctx.type = "ISDS" /\ ctx.url \in {"base", "apps", None} /\ ctx.vurl = ctx.url
        /\ call.to \in {ctx.url, "webLogin"}
        /\ call.pc = "code" => reply.to \in {"webLogin", None}
        /\ call.pc \in {"code", "body"} /\ reply.body \in {"soap", "refused"} => Entitled
        /\ call.pc = "done" /\ call.err = "SUCCESS" => Entitled

ChangeUrls ==
    call.op \in {"changePassword", "requestTotp"} /\ call.pc \in Running =>
        /\ ctx.type = "ISDS" /\ ctx.url = "asws" /\ call.to = "asws"
        /\ call.savedUrl \in {"base", "apps"} /\ ctx.vurl = call.savedUrl
        /\ call.pc = "code" => reply.to = None

AnonymousUrls ==
    call.op \in {"CZP", "TESTING"} /\ call.pc \in Running =>
        /\ ctx.type = call.op /\ ctx.url = "deposit" /\ call.to = "deposit"
        /\ call.pc = "code" => reply.to = None

LogoutUrls ==
    call.op \in {"logout", "free"} /\ call.pc \in Running =>
        ctx.type = "ISDS" /\ ctx.url \in {"base", "apps"} /\ ctx.vurl = ctx.url

Places ==
    /\ Resting
    /\ LoginUrls /\ LoginMepUrls /\ ServiceCallUrls /\ ChangeUrls /\ AnonymousUrls /\ LogoutUrls
    /\ call.pc \in Running => call.op # "none"
    /\ call.pc = "done" /\ call.err = "SUCCESS" => curl.open

\* Only the second phase of an OTP log in and a mobile key log in bring a
\* cookie or authenticate a session.
LEMMA PlainAnswers ==
    ASSUME NEW to \in Location \ {"hotp", "totp", "mep"}, NEW auth,
           NEW cookie \in Cookie \cup {None}, NEW kind, NEW s \in Sessions,
           NEW x \in Answers(to, auth, cookie, kind, s)
    PROVE  /\ x[1].cookie = None
           /\ \A c \in Cookie : x[2][c] \in {"live", "over"} <=> s[c] \in {"live", "over"}
           /\ to \notin {"sendsms", "apps"} => x[1].to = None
           /\ to = "sendsms" => x[1].to \in {"totp", None}
           /\ to = "apps" => x[1].to \in {"webLogin", None}
<1>. DEFINE Plain(p) == p.cookie = None /\ p.to = None
<1>1. \A http, body : Plain(Page(http, body))
    BY DEF Page
<1>2. \A code, place : /\ Moved(code, place, None).cookie = None
                       /\ Moved(code, place, None).to = place
    BY DEF Moved
<1>3. \A p \in Trouble \cup Served \cup Denied \cup {Page(200, "html")} : Plain(p)
    BY <1>1 DEF Trouble, Served, Denied
<1>4. \A p \in OtpDenied : Plain(p)
    BY <1>1 DEF OtpDenied
<1>5. CASE x \in Stay(Trouble, s)
    BY <1>3, <1>5 DEF Stay
<1>6. CASE to = "base" /\ x \in Stay(BasicService(auth), s)
    BY <1>3, <1>6 DEF Stay, BasicService
<1>7. CASE to = "apps" /\ x \in Stay(CookieService(cookie, s), s)
    BY <1>1, <1>2, <1>3, <1>7 DEF Stay, CookieService
<1>8. CASE to = "sendsms" /\ x \in Stay(SendSms(auth), s)
    BY <1>2, <1>4, <1>8 DEF Stay, SendSms
<1>9. CASE to = "asws" /\ x \in Stay(Asws(auth), s)
    BY <1>3, <1>4, <1>9 DEF Stay, Asws
<1>10. CASE to = "mepState" /\ x \in Stay(MepState(cookie, s, kind), s)
    BY <1>1, <1>10 DEF Stay, MepState
<1>11. CASE to = "logout" /\ x \in LogoutService(cookie, s)
  <2>1. CASE cookie \in Cookie /\ s[cookie] = "live"
    <3>1. x = <<Page(200, "none"), [s EXCEPT ![cookie] = "over"]>>
        BY <1>11, <2>1 DEF LogoutService
    <3>2. \A c \in Cookie : [s EXCEPT ![cookie] = "over"][c] = IF c = cookie THEN "over" ELSE s[c]
        BY DEF Sessions
    <3>. QED  BY <1>1, <1>11, <2>1, <3>1, <3>2
  <2>2. CASE ~(cookie \in Cookie /\ s[cookie] = "live")
      BY <1>1, <1>11, <2>2 DEF LogoutService, Stay
  <2>. QED  BY <2>1, <2>2
<1>12. CASE to \in {"webLogin", "deposit"} /\ x \in Stay(Served \cup {Page(200, "html")}, s)
    BY <1>3, <1>12 DEF Stay
<1>. QED
    BY <1>5, <1>6, <1>7, <1>8, <1>9, <1>10, <1>11, <1>12 DEF Answers, Location, Stay

\* A service authorised by a cookie answers its session only.
LEMMA ServiceAnswers ==
    ASSUME NEW auth, NEW cookie, NEW kind, NEW s,
           NEW to \in {"apps", "webLogin"}, NEW x \in Answers(to, auth, cookie, kind, s),
           x[1].body \in {"soap", "refused"}
    PROVE  to = "apps" /\ cookie \in Cookie /\ s[cookie] = "live"
<1>1. x \notin Stay(Trouble, s)
    BY DEF Stay, Trouble, Page
<1>2. CASE to = "apps"
  <2>1. x[1] \in CookieService(cookie, s)
      BY <1>1, <1>2 DEF Answers, Stay
  <2>2. Page(403, "none").body = "none" /\ Moved("UNKNOWN", "webLogin", None).body = "none"
      BY DEF Page, Moved
  <2>. QED  BY <1>2, <2>1, <2>2 DEF CookieService
<1>3. CASE to = "webLogin"
    BY <1>1, <1>3 DEF Answers, Stay, Page
<1>. QED  BY <1>2, <1>3

\* The second phase of an OTP log in is not redirected to another one.
LEMMA PhaseTwoAnswers ==
    ASSUME NEW auth, NEW cookie, NEW kind, NEW s,
           NEW to \in {"hotp", "totp"}, NEW x \in Answers(to, auth, cookie, kind, s)
    PROVE  x[1].to \in {"apps", None}
<1>1. \A p \in Trouble \cup OtpDenied : p.to = None
    BY DEF Trouble, OtpDenied, Page
<1>2. x \in Stay(Trouble \cup OtpDenied, s)
      \/ \E c \in Cookie : x = <<Moved("UNKNOWN", "apps", c), [s EXCEPT ![c] = "live"]>>
    BY DEF Answers, Stay, PhaseTwo, Unissued
<1>. QED  BY <1>1, <1>2 DEF Stay, Moved

LEMMA ExchangePlaces == ASSUME TypeOK, Logins, Places, Exchange PROVE Places'
<1>1. /\ call.pc = "http" /\ call.pc \in Running /\ UNCHANGED <<ctx, appMep>>
      /\ call'.op = call.op /\ call'.to = call.to /\ call'.savedUrl = call.savedUrl
      /\ \/ HttpAnswered /\ call'.pc = "code"
         \/ ~HttpAnswered /\ call'.pc = "done" /\ call'.err \in {"NETWORK", "ABORTED"}
    BY ExchangeSteps
<1>2. call'.pc \in Running /\ ~Idle'
    BY <1>1 DEF Running, Idle
<1>3. Resting'
    BY <1>1, <1>2 DEF Places, Resting, CookieSession
<1>4. LoginMepUrls' /\ LogoutUrls'
    BY <1>1, <1>2 DEF Places, LoginMepUrls, LogoutUrls
<1>5. CASE ~HttpAnswered
  <2>1. call'.pc = "done" /\ call'.err # "SUCCESS"
      BY <1>1, <1>5
  <2>2. LoginUrls'
      BY <1>1, <2>1 DEF Places, LoginUrls
  <2>3. ServiceCallUrls'
      BY <1>1, <2>1 DEF Places, ServiceCallUrls
  <2>4. ChangeUrls' /\ AnonymousUrls'
      BY <1>1, <2>1 DEF Places, ChangeUrls, AnonymousUrls
  <2>. QED  BY <1>1, <1>3, <1>4, <2>1, <2>2, <2>3, <2>4 DEF Places
<1>6. CASE HttpAnswered
  <2>1. PICK x \in Exchanges :
          reply' = x[1] /\ srv' = x[2] /\ curl' = Receive(SetOptions, x[1])
      BY <1>6 DEF HttpAnswered
  <2>2. PICK auth : x \in Answers(Target, auth, curl.jar, ctx.mep, srv) /\ Target # None
      BY <2>1, SetOptionsKeep DEF Exchanges
  <2>3. curl.jar \in Cookie \cup {None} /\ srv \in Sessions
      BY DEF TypeOK, Handle, Sessions
  <2>4. call.op # "loginMep" => Target = call.to
      BY DEF Places, Resting, Target, Polling
  <2>5. x[1].cookie = None => curl'.jar = curl.jar
      BY <2>1, ReceiveKeeps, SetOptionsKeep, SetOptionsType
  <2>6. call'.pc = "code"
      BY <1>1, <1>6
  <2>7. LoginUrls'
    <3>1. SUFFICES ASSUME call.op = "login", reply'.to \in Authenticating PROVE curl'.jar = None
        BY <1>1, <2>6 DEF Places, LoginUrls
    <3>2. Target = call.to /\ None \notin Authenticating
        BY <2>4, <3>1, LocationAssumption DEF Location, Authenticating
    <3>3. call.to \in OtpPlaces \cup {"base"}
        BY <1>1, <3>1 DEF Logins, OtpLoggingIn
    <3>4. call.to \notin {"hotp", "totp"}
        BY <2>1, <2>2, <3>1, <3>2, PhaseTwoAnswers DEF Authenticating
    <3>5. call.to \in Location \ {"hotp", "totp", "mep"}
        BY <3>3, <3>4 DEF Location, OtpPlaces
    <3>6. /\ x[1].cookie = None
          /\ call.to \notin {"sendsms", "apps"} => x[1].to = None
          /\ call.to = "apps" => x[1].to \in {"webLogin", None}
        BY <2>2, <2>3, <3>2, <3>5, PlainAnswers
    <3>7. call.to = "sendsms"
        BY <2>1, <3>1, <3>2, <3>6 DEF Authenticating
    <3>8. curl.jar = None
        BY <1>1, <3>1, <3>7 DEF Places, LoginUrls, Authenticating
    <3>. QED  BY <2>5, <3>6, <3>8
  <2>8. ServiceCallUrls'
    <3>1. SUFFICES ASSUME call.op \in {"service", "vodz"}
                   PROVE  /\ reply'.to \in {"webLogin", None}
                          /\ reply'.body \in {"soap", "refused"} =>
                               ctx.url # None /\ (ctx.url = "base" \/ Granted(curl.jar)')
        BY <1>1, <2>6 DEF Places, ServiceCallUrls, Entitled
    <3>2. /\ Target = call.to /\ call.to \in {"base", "apps", "webLogin"}
          /\ call.to # "webLogin" => call.to = ctx.url
        BY <1>1, <2>2, <2>4, <3>1 DEF Places, ServiceCallUrls
    <3>3. call.to \in Location \ {"hotp", "totp", "mep"} /\ call.to # "sendsms"
        BY <3>2 DEF Location
    <3>4. /\ x[1].cookie = None
          /\ \A c \in Cookie : x[2][c] \in {"live", "over"} <=> srv[c] \in {"live", "over"}
          /\ x[1].to \in {"webLogin", None}
        BY <2>2, <2>3, <3>2, <3>3, PlainAnswers
    <3>5. ASSUME reply'.body \in {"soap", "refused"}, ctx.url # "base"
          PROVE  ctx.url # None /\ Granted(curl.jar)'
      <4>1. call.to = "apps" /\ curl.jar \in Cookie /\ srv[curl.jar] = "live"
          BY <2>1, <2>2, <3>2, <3>5, ServiceAnswers
      <4>2. ctx.url # None
          BY <3>2, <4>1, LocationAssumption DEF Location
      <4>. QED  BY <2>1, <2>5, <3>4, <4>1, <4>2 DEF Granted
    <3>6. ctx.url = "base" => ctx.url # None
        BY LocationAssumption DEF Location
    <3>. QED  BY <2>1, <3>4, <3>5, <3>6
  <2>9. ChangeUrls' /\ AnonymousUrls'
    <3>1. SUFFICES ASSUME call.op \in {"changePassword", "requestTotp", "CZP", "TESTING"}
                   PROVE  reply'.to = None
        BY <1>1, <2>6 DEF Places, ChangeUrls, AnonymousUrls
    <3>2. Target = call.to /\ call.to \in {"asws", "deposit"}
        BY <1>1, <2>4, <3>1 DEF Places, ChangeUrls, AnonymousUrls
    <3>3. call.to \in Location \ {"hotp", "totp", "mep"} /\ call.to \notin {"sendsms", "apps"}
        BY <3>2 DEF Location
    <3>. QED  BY <2>1, <2>2, <2>3, <3>2, <3>3, PlainAnswers
  <2>. QED  BY <1>1, <1>3, <1>4, <2>6, <2>7, <2>8, <2>9 DEF Places
<1>. QED  BY <1>5, <1>6

LEMMA AnswerPlaces == ASSUME TypeOK, Logins, Places, Answer PROVE Places'
<1>1. /\ call.pc \in {"code", "body"} /\ call.pc \in Running
      /\ call'.op = call.op /\ call'.pc \in {"http", "body", "done"}
      /\ UNCHANGED <<reply, srv>>
      /\ curl'.open = curl.open /\ curl'.jar = curl.jar
      /\ ctx'.otp = ctx.otp /\ ctx'.mep = ctx.mep /\ ctx'.mepCred = ctx.mepCred
    BY AnswerKeeps
<1>2. /\ ctx'.type = ctx.type /\ ctx'.url = ctx.url /\ ctx'.vurl = ctx.vurl
      /\ call'.savedUrl = call.savedUrl
    BY AnswerSteps, DiscardPlaces DEF TypeOK
<1>3. \/ ~OtpRedirect /\ call'.to = call.to
      \/ /\ OtpRedirect /\ call'.pc = "http" /\ call'.to = reply.to
         /\ call.pc = "code" /\ reply.to # None
    BY AnswerSteps DEF OtpRedirect, Coded
<1>4. call'.pc \in Running /\ ~Idle'
    BY <1>1 DEF Running, Idle
<1>5. call'.pc = "body" => call.pc = "code"
    BY SoapSteps DEF Answer, AnswerOk, MepWait, MepAcknowledged, MepFailed, OtpRedirect,
       OtpCodeNeeded, MepRequested, MepLoggedIn, MepStrayRedirect, AnswerRefused,
       AnswerOther, BodyRead, Coded
<1>6. call'.pc = "done" /\ call'.err = "SUCCESS" =>
        ctx.mepCred \/ (call.pc = "body" /\ reply.body \in {"soap", "refused"})
  <2>1. BodyRead => call.pc = "body" /\ call'.err = BodyResult
      BY SoapSteps DEF BodyRead
  <2>2. BodyResult = "SUCCESS" => reply.body \in {"soap", "refused"}
      BY DEF BodyResult
  <2>3. MepLoggedIn => ctx.mepCred
      BY DEF MepLoggedIn, Mep
  <2>. QED  BY <2>1, <2>2, <2>3, AnswerGoes
<1>7. call.op # "loginMep" => ~ctx.mepCred
    BY DEF Places, Resting
<1>8. Resting'
    BY <1>1, <1>2, <1>4 DEF Places, Resting, CookieSession
<1>9. LoginMepUrls' /\ LogoutUrls'
    BY <1>1, <1>2 DEF Places, LoginMepUrls, LogoutUrls
<1>10. LoginUrls'
  <2>1. SUFFICES ASSUME call.op = "login" PROVE LoginUrls'
      BY <1>1 DEF LoginUrls
  <2>2. call'.pc = "http" => OtpRedirect
    <3>1. ~MepRequested /\ ~MepAcknowledged
        BY <1>7, <2>1 DEF MepRequested, MepAcknowledged, Mep
    <3>2. MepLoggedIn \/ BodyRead => call'.pc = "done"
        BY SoapSteps DEF MepLoggedIn, BodyRead
    <3>. QED  BY <3>1, <3>2, AnswerGoes
  <2>. QED  BY <1>1, <1>2, <1>3, <2>1, <2>2 DEF Places, LoginUrls
<1>11. ServiceCallUrls'
  <2>1. Entitled' <=> Entitled
      BY <1>1, <1>2 DEF Granted, Entitled
  <2>. QED  BY <1>1, <1>2, <1>3, <1>5, <1>6, <1>7, <2>1 DEF Places, ServiceCallUrls
<1>12. ChangeUrls' /\ AnonymousUrls'
    BY <1>1, <1>2, <1>3 DEF Places, ChangeUrls, AnonymousUrls
<1>13. call'.pc = "done" => curl'.open
    BY <1>1 DEF Logins, Connected
<1>. QED  BY <1>1, <1>8, <1>9, <1>10, <1>11, <1>12, <1>13 DEF Places

\* Neither the user nor a time-out authenticates a session, or undoes it.
LEMMA EnvironmentGrants ==
    ASSUME TypeOK, Environment, NEW c \in Cookie
    PROVE  srv'[c] \in {"live", "over"} <=> srv[c] \in {"live", "over"}
<1>1. PICK d \in Cookie, to \in {"mepAcked", "mepGone", "over"} :
        /\ srv[d] = IF to = "over" THEN "live" ELSE "mepWaiting"
        /\ srv' = [srv EXCEPT ![d] = to]
    BY DEF Environment, UserAcknowledges, RequestExpires, SessionExpires, SessionMoves
<1>2. srv'[c] = IF c = d THEN to ELSE srv[c]
    BY <1>1 DEF TypeOK
<1>. QED  BY <1>1, <1>2

LEMMA EnvironmentPlaces == ASSUME TypeOK, Places, Environment PROVE Places'
<1>1. UNCHANGED <<ctx, curl, appOtp, appMep, call, reply>>
    BY EnvironmentSteps
<1>2. Entitled' <=> Entitled
    BY <1>1, EnvironmentGrants DEF Entitled, Granted
<1>3. Resting' /\ LoginUrls' /\ LoginMepUrls'
    BY <1>1 DEF Places, Resting, CookieSession, Idle, LoginUrls, LoginMepUrls
<1>4. ServiceCallUrls'
    BY <1>1, <1>2 DEF Places, ServiceCallUrls
<1>5. ChangeUrls' /\ AnonymousUrls' /\ LogoutUrls'
    BY <1>1 DEF Places, ChangeUrls, AnonymousUrls, LogoutUrls
<1>. QED  BY <1>1, <1>3, <1>4, <1>5 DEF Places

\* How the URLs are when a call begins.
LEMMA BeginPlaces ==
    ASSUME TypeOK, Logins, Places,
           LoginSend \/ LoginMepSend \/ ServiceSend \/ ChangePasswordPlain \/ AnonymousSend
             \/ ChangePasswordSend \/ LogoutSend,
           call'.pc \in Running
    PROVE  Places'
<1>1. Idle /\ ~ctx.mepCred /\ call.savedUrl = None
  <2>1. Idle
      BY DEF LoginSend, LoginMepSend, ServiceSend, ChangePasswordPlain, AnonymousSend,
         ChangePasswordSend, LogoutSend
  <2>. QED  BY <2>1 DEF Places, Resting, Idle, Running
<1>2. CASE LoginSend
  <2>1. curl'.jar = None
      BY <1>2, LoginBegins DEF Opened, Closed
  <2>2. Resting'
      BY <1>1, <1>2, LoginBegins DEF Resting, Idle
  <2>3. LoginUrls'
      BY <1>2, <2>1, LoginBegins DEF LoginUrls, Authenticating
  <2>. QED
      BY <1>2, <2>2, <2>3, LoginBegins DEF Places, LoginMepUrls, ServiceCallUrls, ChangeUrls,
         AnonymousUrls, LogoutUrls
<1>3. CASE LoginMepSend
  <2>1. Resting'
      BY <1>1, <1>3, LoginMepBegins DEF Resting, Idle, Running
  <2>2. LoginMepUrls'
      BY <1>3, LoginMepBegins DEF LoginMepUrls
  <2>. QED
      BY <1>3, <2>1, <2>2, LoginMepBegins DEF Places, LoginUrls, ServiceCallUrls, ChangeUrls,
         AnonymousUrls, LogoutUrls
<1>4. CASE ServiceSend \/ ChangePasswordPlain
  <2>1. UNCHANGED <<ctx, curl>> /\ curl.open /\ ctx.type = "ISDS"
      BY <1>4 DEF ServiceSend, ChangePasswordPlain
  <2>2. ctx.url \in {"base", "apps", None} /\ ctx.vurl = ctx.url
      BY <1>1, <2>1 DEF Places, Resting
  <2>3. /\ call'.pc = "http" /\ call'.op \in {"service", "vodz"}
        /\ call'.to = ctx.url /\ call'.savedUrl = None
    <3>1. \A op, err : ~Return(op, err)
        BY ReturnSteps DEF Running
    <3>. QED  BY <1>4, <2>2, <3>1, SendSteps DEF ServiceSend, ChangePasswordPlain
  <2>4. Resting'
      BY <1>1, <2>1, <2>3 DEF Places, Resting, Idle, CookieSession
  <2>5. ServiceCallUrls'
      BY <2>1, <2>2, <2>3 DEF ServiceCallUrls
  <2>. QED
      BY <2>3, <2>4, <2>5 DEF Places, LoginUrls, LoginMepUrls, ChangeUrls, AnonymousUrls,
         LogoutUrls
<1>5. CASE AnonymousSend
  <2>1. PICK t \in {"CZP", "TESTING"} :
          /\ ctx.type \in {"NONE", t}
          /\ ctx' = [ctx EXCEPT !.type = t, !.url = "deposit"]
          /\ Send(t, "deposit", None)
      BY <1>5 DEF AnonymousSend
  <2>2. /\ ctx'.type = t /\ ctx'.url = "deposit" /\ ctx'.otp = ctx.otp
        /\ ctx'.mep = ctx.mep /\ ctx'.mepCred = ctx.mepCred
      BY <2>1 DEF TypeOK, Context
  <2>3. /\ call'.pc = "http" /\ call'.op = t /\ call'.to = "deposit"
        /\ call'.savedUrl = None
      BY <2>1, SendSteps
  <2>4. ~CookieSession
      BY <2>1 DEF Places, Resting
  <2>5. Resting'
      BY <1>1, <2>1, <2>2, <2>3, <2>4 DEF Resting, Idle, CookieSession
  <2>6. AnonymousUrls'
      BY <2>1, <2>2, <2>3 DEF AnonymousUrls
  <2>. QED
      BY <2>1, <2>3, <2>5, <2>6 DEF Places, LoginUrls, LoginMepUrls, ServiceCallUrls,
         ChangeUrls, LogoutUrls
<1>6. CASE ChangePasswordSend
  <2>1. ctx.url \in {"base", "apps"} /\ ctx.vurl = ctx.url
      BY <1>1, <1>6, ChangePasswordBegins DEF Places, Resting
  <2>2. Resting'
      BY <1>1, <1>6, ChangePasswordBegins DEF Places, Resting, Idle, Running
  <2>3. ChangeUrls'
      BY <1>6, <2>1, ChangePasswordBegins DEF ChangeUrls
  <2>. QED
      BY <1>6, <2>2, <2>3, ChangePasswordBegins DEF Places, LoginUrls, LoginMepUrls,
         ServiceCallUrls, AnonymousUrls, LogoutUrls
<1>7. CASE LogoutSend
  <2>1. UNCHANGED <<ctx, curl>> /\ curl.open /\ CookieSession /\ ctx.url # None
      BY <1>7 DEF LogoutSend
  <2>2. ctx.type = "ISDS" /\ ctx.url \in {"base", "apps"} /\ ctx.vurl = ctx.url
      BY <1>1, <2>1 DEF Places, Resting
  <2>3. /\ call'.pc = "http" /\ call'.op \in {"logout", "free"} /\ call'.savedUrl = None
      BY <1>7, SendSteps DEF LogoutSend
  <2>4. Resting'
      BY <1>1, <2>1, <2>2, <2>3 DEF Resting, Idle
  <2>5. LogoutUrls'
      BY <2>1, <2>2 DEF LogoutUrls
  <2>. QED
      BY <2>3, <2>4, <2>5 DEF Places, LoginUrls, LoginMepUrls, ServiceCallUrls,
         ChangeUrls, AnonymousUrls
<1>. QED  BY <1>2, <1>3, <1>4, <1>5, <1>6, <1>7

LEMMA LoggedOutPlaces ==
    ASSUME TypeOK PROVE LoggedOut.type = ctx.type /\ LoggedOut.mepCred = ctx.mepCred
<1>. DEFINE base == [ctx EXCEPT !.url = None, !.vurl = None]
<1>1. base \in Context /\ base.type = ctx.type /\ base.mepCred = ctx.mepCred
    BY DEF TypeOK, Context, Url
<1>2. LoggedOut = Discard(base, TRUE)
    BY DEF LoggedOut
<1>. HIDE DEF base
<1>. QED  BY <1>1, <1>2, DiscardKeeps, DiscardPlaces

\* And when it returns.
LEMMA EndPlaces ==
    ASSUME TypeOK, Logins, Places, AllocFails = FALSE,
           LoginReturns \/ LoginMepReturns \/ ServiceReturns \/ ChangePasswordReturns
             \/ LogoutReturns \/ Surroundings,
           call'.pc \notin Running
    PROVE  Places'
<1>1. Places' <=> Resting'
    BY DEF Places, LoginUrls, LoginMepUrls, ServiceCallUrls, ChangeUrls, AnonymousUrls,
       LogoutUrls, Running
<1>2. SUFFICES Resting'
    BY <1>1
<1>3. /\ ctx.type # "ISDS" => ctx.url \in {"deposit", None} /\ ~CookieSession
      /\ call.op # "loginMep" \/ call.pc \notin Running => ~ctx.mepCred
      /\ Idle /\ curl.open /\ ctx.type = "ISDS" =>
           ctx.url \in {"base", "apps", None} /\ ctx.vurl = ctx.url
    BY DEF Places, Resting
\* A context that stays the same on a connection that does, or is closed.
<1>4. ASSUME UNCHANGED ctx, call.op # "loginMep" \/ call.pc \notin Running,
             call'.savedUrl = None,
             curl'.open /\ ctx.type = "ISDS" =>
               ctx.url \in {"base", "apps", None} /\ ctx.vurl = ctx.url
      PROVE  Resting'
    BY <1>3, <1>4 DEF Resting, CookieSession
<1>5. Closed.open = FALSE
    BY DEF Closed
<1>6. CASE Surroundings
  <2>1. /\ UNCHANGED ctx /\ call'.savedUrl = None /\ call.pc \notin Running
        /\ (Idle /\ UNCHANGED curl) \/ curl' = Closed
    <3>1. CASE CodeEntered \/ MepAbandoned
      <4>1. ResultForgotten /\ Idle /\ ctx' = ctx /\ curl' = curl
        <5>1. CASE CodeEntered
            BY <5>1 DEF CodeEntered
        <5>2. CASE MepAbandoned
            BY <5>2 DEF MepAbandoned
        <5>. QED  BY <3>1, <5>1, <5>2
      <4>. QED  BY <4>1 DEF ResultForgotten, At, Idle, Running
    <3>2. CASE CtxCreate
        BY <3>2 DEF CtxCreate, At, Running
    <3>. QED  BY <1>6, <3>1, <3>2 DEF Surroundings
  <2>. QED  BY <1>3, <1>4, <1>5, <2>1
<1>7. CASE LoginReturns
  <2>1. CASE LoginMissingPassword \/ LoginUnknownMethod
    <3>1. Idle /\ curl' = Closed /\ call'.savedUrl = None
        BY <2>1, ReturnSteps DEF LoginMissingPassword, LoginUnknownMethod
    <3>2. ctx'.type = "ISDS" /\ ctx'.mepCred = ctx.mepCred
      <4>1. Reset \in Context /\ Reset.type = "ISDS" /\ Reset.mepCred = ctx.mepCred
          BY DEF Reset, TypeOK, Context, Url
      <4>. QED  BY <2>1, <4>1 DEF LoginMissingPassword, LoginUnknownMethod, Context
    <3>. QED  BY <1>3, <1>5, <3>1, <3>2 DEF Resting, Idle, Running
  <2>2. CASE LoginDone
    <3>1. /\ call.op = "login" /\ call.pc \in Running /\ call'.savedUrl = None
          /\ ctx'.type = ctx.type /\ ctx'.mepCred = ctx.mepCred
          /\ ctx.otp => ctx'.vurl = "apps" /\ ctx'.url = "apps"
          /\ ~ctx.otp => ctx'.url = ctx.url /\ ctx'.vurl = ctx.vurl
        BY <2>2, LoginEnds DEF Running
    <3>2. ctx.type = "ISDS" /\ (~ctx.otp => ctx.url = "base" /\ ctx.vurl = "base")
        BY <3>1 DEF Places, LoginUrls
    <3>. QED  BY <1>3, <3>1, <3>2 DEF Resting
  <2>. QED  BY <1>7, <2>1, <2>2 DEF LoginReturns, LoginOutOfMemory
<1>8. CASE LoginMepReturns
  <2>1. CASE LoginMepBadArgument
    <3>1. Idle /\ call'.savedUrl = None /\ ctx' = Reset
        BY <2>1, ReturnSteps DEF LoginMepBadArgument
    <3>2. ctx'.type = "ISDS" /\ ctx'.mepCred = ctx.mepCred /\ ctx'.url = None /\ ctx'.vurl = None
        BY <3>1 DEF Reset, TypeOK, Context
    <3>. QED  BY <1>3, <3>1, <3>2 DEF Resting, Idle, Running
  <2>2. CASE LoginMepDone
    <3>1. /\ call.op = "loginMep" /\ call.pc \in Running /\ call'.savedUrl = None
          /\ ctx'.type = ctx.type /\ ctx'.mepCred = FALSE
          /\ ctx'.vurl = "apps" /\ ctx'.url = "apps"
        BY <2>2, LoginMepEnds DEF Running
    <3>2. ctx.type = "ISDS"
        BY <3>1 DEF Places, LoginMepUrls
    <3>. QED  BY <3>1, <3>2 DEF Resting
  <2>. QED  BY <1>8, <2>1, <2>2 DEF LoginMepReturns, LoginMepOutOfMemory
<1>9. CASE ServiceReturns
  <2>1. UNCHANGED ctx /\ call'.savedUrl = None
    <3>1. \A op, url, saved : ~Send(op, url, saved)
        BY SendSteps DEF Running
    <3>. QED
        BY <1>9, <3>1, ReturnSteps DEF ServiceReturns, ServiceClosed, ServiceSend, ServiceDone,
           ConversionDone
  <2>2. CASE ServiceClosed \/ ServiceSend
    <3>1. Idle /\ UNCHANGED curl
        BY <2>2 DEF ServiceClosed, ServiceSend
    <3>. QED  BY <1>3, <1>4, <2>1, <3>1 DEF Idle, Running
  <2>3. CASE ServiceDone \/ ConversionDone
    <3>1. /\ call.pc \in Running /\ call.op \in {"service", "vodz", "CZP", "TESTING"}
        BY <2>3 DEF ServiceDone, ConversionDone, Running
    <3>2. ctx.type = "ISDS" => ctx.url \in {"base", "apps", None} /\ ctx.vurl = ctx.url
        BY <3>1 DEF Places, ServiceCallUrls, AnonymousUrls
    <3>. QED  BY <1>4, <2>1, <3>1, <3>2
  <2>. QED  BY <1>9, <2>2, <2>3 DEF ServiceReturns
<1>10. CASE ChangePasswordReturns
  <2>1. CASE ChangePasswordRefused \/ ChangePasswordOtpRefused
    <3>1. Idle /\ UNCHANGED <<ctx, curl>> /\ call'.savedUrl = None
        BY <2>1, ReturnSteps DEF ChangePasswordRefused, ChangePasswordOtpRefused
    <3>. QED  BY <1>3, <1>4, <3>1 DEF Idle, Running
  <2>2. CASE ChangePasswordDone \/ TotpRequestDone
    <3>1. /\ call.op \in {"changePassword", "requestTotp"} /\ call.pc \in Running
          /\ call'.savedUrl = None
          /\ ctx'.type = ctx.type /\ ctx'.url = call.savedUrl /\ ctx'.vurl = ctx.vurl
          /\ ctx'.mepCred = ctx.mepCred
        BY <2>2, ChangePasswordEnds DEF Running
    <3>2. ctx.type = "ISDS" /\ call.savedUrl \in {"base", "apps"} /\ ctx.vurl = call.savedUrl
        BY <3>1 DEF Places, ChangeUrls
    <3>. QED  BY <1>3, <3>1, <3>2 DEF Resting
  <2>. QED
      BY <1>10, <2>1, <2>2 DEF ChangePasswordReturns, ChangePasswordOutOfMemory
<1>11. CASE LogoutReturns
  <2>1. PICK op \in {"logout", "free"}, err \in Err \cup {call.err} : EndLogout(op, err)
      BY <1>11 DEF LogoutReturns, LogoutLocal, LogoutWithoutUrl, LogoutAnswered, LogoutFailed, Err
  <2>2. call'.savedUrl = None
      BY <2>1 DEF EndLogout, At
  <2>3. ~ctx.mepCred /\ curl' \in {curl, Closed} /\ (call.op # "loginMep" \/ call.pc \notin Running)
      BY <1>3, <1>11 DEF LogoutReturns, LogoutLocal, LogoutWithoutUrl, LogoutAnswered,
         LogoutFailed, Idle, Running
  <2>4. curl.open /\ ctx.type = "ISDS" =>
          ctx.url \in {"base", "apps", None} /\ ctx.vurl = ctx.url
    <3>1. Idle \/ (call.op \in {"logout", "free"} /\ call.pc \in Running)
        BY <1>11 DEF LogoutReturns, LogoutLocal, LogoutWithoutUrl, LogoutAnswered,
           LogoutFailed, Running
    <3>. QED  BY <1>3, <3>1 DEF Places, LogoutUrls
  <2>5. CASE UNCHANGED ctx
      BY <1>4, <1>5, <2>2, <2>3, <2>4, <2>5
  <2>6. CASE ctx' = NewContext
    <3>1. /\ NewContext.type = "NONE" /\ NewContext.url = None /\ NewContext.mepCred = FALSE
          /\ NewContext.otp = FALSE /\ NewContext.mep = "NONE"
        BY DEF NewContext
    <3>. QED  BY <2>2, <2>6, <3>1 DEF Resting, CookieSession
  <2>7. CASE ctx' = LoggedOut
    <3>1. /\ ctx'.type = ctx.type /\ ctx'.otp = ctx.otp /\ ctx'.mep = ctx.mep
          /\ ctx'.url = None /\ ctx'.vurl = None /\ ctx'.mepCred = ctx.mepCred
        BY <2>7, LoggedOutKeeps, LoggedOutPlaces
    <3>. QED  BY <1>3, <2>2, <2>3, <3>1 DEF Resting, CookieSession
  <2>. QED  BY <2>1, <2>5, <2>6, <2>7 DEF EndLogout
<1>. QED  BY <1>6, <1>7, <1>8, <1>9, <1>10, <1>11

LEMMA PlacesStep ==
    ASSUME TypeOK, Logins, Places, [Next]_vars, AllocFails = FALSE PROVE Places'
<1>1. CASE UNCHANGED vars
  <2>1. Resting' /\ LoginUrls' /\ LoginMepUrls'
      BY <1>1 DEF vars, Places, Resting, CookieSession, Idle, LoginUrls, LoginMepUrls
  <2>2. ServiceCallUrls' /\ ChangeUrls' /\ AnonymousUrls' /\ LogoutUrls'
      BY <1>1 DEF vars, Places, ServiceCallUrls, Entitled, Granted, ChangeUrls,
         AnonymousUrls, LogoutUrls
  <2>. QED  BY <1>1, <2>1, <2>2 DEF vars, Places
<1>2. CASE Next /\ call'.pc \in Running
    BY <1>2, CallRuns, ExchangePlaces, AnswerPlaces, EnvironmentPlaces, BeginPlaces
<1>3. CASE Next /\ call'.pc \notin Running
    BY <1>3, CallReturned, EnvironmentPlaces, EndPlaces
<1>. QED  BY <1>1, <1>2, <1>3

LEMMA PlacesInit == ASSUME Init PROVE Places
<1>1. /\ call.op = "none" /\ call.pc = "idle" /\ call.savedUrl = None
      /\ curl.open = FALSE
    BY DEF Init, At, Closed
<1>2. ctx.type = "NONE" /\ ctx.url = None /\ ctx.otp = FALSE /\ ctx.mep = "NONE"
      /\ ctx.mepCred = FALSE
    BY DEF Init, NewContext
<1>. QED
    BY <1>1, <1>2 DEF Places, Resting, CookieSession, LoginUrls, LoginMepUrls,
       ServiceCallUrls, ChangeUrls, AnonymousUrls, LogoutUrls, Running

\* As long as memory suffices and the application knows its method, no web
\* service is ever sent to a URL of the authentication or password services.
THEOREM ServicesStayHome ==
    ASSUME AllocFails = FALSE, "undefined" \notin OtpMethods
    PROVE  Spec => []ServiceUrls
<1>. DEFINE NoDetour == call.op \in {"service", "vodz"} => call.to \in {"base", "apps", None}
<1>1. Places /\ NoDetour => ServiceUrls
    BY DEF Places, Resting, ServiceUrls
<1>2. Init => TypeOK /\ Logins /\ CredentialsTaken /\ Places /\ NoDetour
  <2>1. Init => call.op = "none" /\ ctx.otpCred = FALSE
      BY DEF Init, At, NewContext
  <2>. QED  BY <2>1, TypeInit, LoginsInit, PlacesInit DEF CredentialsTaken
<1>3. ASSUME TypeOK, Logins, CredentialsTaken, Places, NoDetour, [Next]_vars
      PROVE  NoDetour'
  <2>1. CASE UNCHANGED vars
      BY <1>3, <2>1 DEF vars
  <2>2. CASE Next /\ call'.pc \in Running /\ call'.op \in {"service", "vodz"}
    <3>1. \/ (Exchange \/ Answer \/ Environment) /\ call.pc \in Running /\ call'.op = call.op
          \/ ServiceSend \/ ChangePasswordPlain
        BY <1>3, <2>2, CallRuns
    <3>2. CASE Answer /\ call.pc \in Running /\ call'.op = call.op
      <4>1. ~OtpRedirect
          BY <1>3, <2>2, <3>2 DEF OtpRedirect, Otp, CredentialsTaken
      <4>. QED  BY <1>3, <3>2, <4>1, AnswerSteps
    <3>3. CASE (Exchange \/ Environment) /\ call'.op = call.op
        BY <1>3, <3>3, ExchangeSteps, EnvironmentSteps
    <3>4. CASE ServiceSend \/ ChangePasswordPlain
      <4>1. UNCHANGED ctx
          BY <3>4 DEF ServiceSend, ChangePasswordPlain
      <4>2. Places'
          BY <1>3, PlacesStep
      <4>3. \A op, err : ~Return(op, err)
          BY <2>2, ReturnSteps DEF Running
      <4>4. call'.to \in {ctx.url, ctx.vurl}
          BY <3>4, <4>3, SendSteps DEF ServiceSend, ChangePasswordPlain
      <4>. QED  BY <2>2, <4>1, <4>2, <4>4 DEF Places, ServiceCallUrls
    <3>. QED  BY <3>1, <3>2, <3>3, <3>4
  <2>3. CASE Next /\ call'.pc \notin Running /\ call'.op \in {"service", "vodz"}
    <3>1. CASE Environment
        BY <1>3, <3>1, EnvironmentSteps
    <3>2. CASE ServiceReturns
      <4>1. \A op, url, saved : ~Send(op, url, saved)
          BY <2>3, SendSteps DEF Running
      <4>2. call'.to = None
          BY <3>2, <4>1, ReturnSteps DEF ServiceReturns, ServiceClosed, ServiceSend,
             ServiceDone, ConversionDone
      <4>. QED  BY <4>2
    <3>. QED  BY <1>3, <2>3, <3>1, <3>2, CallReturned
  <2>. QED  BY <1>3, <2>1, <2>2, <2>3
<1>4. TypeOK /\ Logins /\ CredentialsTaken /\ Places /\ NoDetour /\ [Next]_vars
        => (TypeOK /\ Logins /\ CredentialsTaken /\ Places /\ NoDetour)'
    BY <1>3, TypeStep, LoginsStep, CredentialsTakenStep, PlacesStep
<1>. QED  BY <1>1, <1>2, <1>4, PTL DEF Spec

-----------------------------------------------------------------------------
(***************************************************************************)
(* IsdsSession implements SessionContract.                                 *)
(***************************************************************************)

\* A step on a connection that keeps its URL.
LEMMA SameConnection ==
    ASSUME curl'.open = curl.open, LastingUrl' = LastingUrl,
           Granted(curl.jar)' <=> Granted(curl.jar)
    PROVE  Connection' = Connection
BY DEF Connection

\* A request that may authenticate the connection is sent on one that is not
\* authenticated yet.
LEMMA Authenticates ==
    ASSUME TypeOK, Logins, Negotiating, Places, call.pc = "http",
           Target \in {"hotp", "totp", "mep"}
    PROVE  Connection = "negotiating" /\ LastingUrl \in {"hotp", "totp", "sendsms", "mep"}
<1>1. call.pc \in Running /\ curl.open
    BY DEF Running, Logins, Connected
<1>2. call.op \in {"login", "loginMep"}
  <2>1. SUFFICES ASSUME call.op \notin {"login", "loginMep"} PROVE FALSE
      OBVIOUS
  <2>2. Target = call.to
      BY <2>1 DEF Places, Resting, Target, Polling
  <2>3. CASE call.op \in {"service", "vodz"}
    <3>1. call.to \in {"base", "apps", None, "webLogin"}
        BY <1>1, <2>3 DEF Places, ServiceCallUrls
    <3>. QED  BY <2>2, <3>1, LocationAssumption DEF Location
  <2>4. CASE call.op \in {"changePassword", "requestTotp", "CZP", "TESTING"}
      BY <1>1, <2>2, <2>4 DEF Places, ChangeUrls, AnonymousUrls
  <2>5. CASE call.op \in {"logout", "free"}
      BY <1>1, <2>2, <2>5 DEF Logins, LoggingOut
  <2>6. call.op # "none"
      BY <1>1 DEF Places
  <2>. QED  BY <2>1, <2>3, <2>4, <2>5, <2>6 DEF TypeOK, Call, Op
<1>3. call.savedUrl = None
    BY <1>2 DEF Places, Resting
<1>4. CASE call.op = "login"
  <2>1. Target = call.to
      BY <1>4 DEF Places, Resting, Target, Polling
  <2>2. ctx.otp /\ call.to \in {"hotp", "totp"}
      BY <1>1, <1>4, <2>1 DEF Logins, OtpLoggingIn, OtpPlaces
  <2>3. ctx.url \in {"hotp", "totp", "sendsms"} /\ curl.jar = None
      BY <1>1, <1>4, <2>2 DEF Places, LoginUrls, Authenticating
  <2>4. LastingUrl = ctx.url /\ ctx.url # None
      BY <1>3, <2>3, LocationAssumption DEF LastingUrl, Location
  <2>. QED  BY <1>1, <2>3, <2>4, CookieAssumption DEF Connection, Granted
<1>5. CASE call.op = "loginMep"
  <2>1. ctx.url = "mep" /\ ctx.mepCred
      BY <1>1, <1>5 DEF Places, LoginMepUrls, Logins, MepLoggingIn
  <2>2. call.to \in {"mep", "mepState"}
      BY <1>1, <1>5 DEF Negotiating, Logins, MepLoggingIn
  <2>3. call.to = "mep" /\ ~appMep.uri
      BY <1>5, <2>1, <2>2 DEF Target, Polling, Soap
  <2>4. curl.jar = None \/ Acked(curl.jar)
      BY <1>1, <1>5, <2>3 DEF Negotiating, Logins, MepLoggingIn
  <2>5. ~Granted(curl.jar)
      BY <2>4, CookieAssumption DEF Granted, Acked
  <2>6. LastingUrl = "mep" /\ "mep" # None
      BY <1>3, <2>1, LocationAssumption DEF LastingUrl, Location
  <2>. QED  BY <1>1, <2>5, <2>6 DEF Connection
<1>. QED  BY <1>2, <1>4, <1>5

LEMMA ExchangeConnects ==
    ASSUME TypeOK, Logins, Negotiating, Places, Exchange
    PROVE  \/ Connection' \in {Connection, "closed"}
           \/ Connection = "negotiating" /\ Connection' = "session"
<1>1. call.pc = "http" /\ ctx' = ctx /\ call'.savedUrl = call.savedUrl
    BY ExchangeSteps
<1>2. LastingUrl' = LastingUrl
    BY <1>1 DEF LastingUrl
<1>3. curl.open /\ curl.jar \in Cookie \cup {None} /\ srv \in Sessions
    BY <1>1 DEF Logins, Connected, TypeOK, Handle, Sessions
<1>4. /\ SetOptions.open /\ SetOptions.jar = curl.jar
      /\ \A r : /\ Receive(SetOptions, r).open
                /\ r.cookie = None => Receive(SetOptions, r).jar = curl.jar
    BY <1>3, SetOptionsType, SetOptionsKeep, ReceiveKeeps
<1>5. CASE curl' = Closed
    BY <1>5 DEF Connection, Closed
<1>6. CASE curl' = SetOptions /\ srv' = srv
  <2>1. curl'.open = curl.open /\ (Granted(curl.jar)' <=> Granted(curl.jar))
      BY <1>3, <1>4, <1>6, SetOptionsKeep DEF Granted
  <2>. QED  BY <1>2, <2>1, SameConnection
<1>7. ASSUME NEW x \in Exchanges, curl' \in {SetOptions, Receive(SetOptions, x[1])}, srv' = x[2]
      PROVE  \/ Connection' \in {Connection, "closed"}
             \/ Connection = "negotiating" /\ Connection' = "session"
  <2>1. PICK auth : x \in Answers(Target, auth, curl.jar, ctx.mep, srv) /\ Target # None
      BY <1>4 DEF Exchanges
  <2>2. curl'.open
      BY <1>4, <1>7
  <2>3. CASE Target \in {"hotp", "totp", "mep"}
    <3>1. Connection = "negotiating" /\ LastingUrl \in {"hotp", "totp", "sendsms", "mep"}
        BY <1>1, <2>3, Authenticates
    <3>2. LastingUrl' \in {"hotp", "totp", "sendsms", "mep"} /\ LastingUrl' # None
        BY <1>2, <3>1, LocationAssumption DEF Location
    <3>3. Connection' \in {"negotiating", "session"}
        BY <2>2, <3>2 DEF Connection
    <3>. QED  BY <3>1, <3>3
  <2>4. CASE Target \notin {"hotp", "totp", "mep"}
    <3>1. Target \in Location
        BY <2>1 DEF Target, Location, TypeOK, Call, Url
    <3>2. /\ x[1].cookie = None
          /\ \A c \in Cookie : x[2][c] \in {"live", "over"} <=> srv[c] \in {"live", "over"}
        BY <1>3, <2>1, <2>4, <3>1, PlainAnswers
    <3>3. curl'.jar = curl.jar
        BY <1>4, <1>7, <3>2
    <3>4. Granted(curl.jar)' <=> Granted(curl.jar)
        BY <1>7, <3>2, <3>3 DEF Granted
    <3>5. curl'.open = curl.open
        BY <1>3, <1>4, <1>7, ReceiveKeeps, SetOptionsType, SetOptionsKeep
    <3>. QED  BY <1>2, <3>4, <3>5, SameConnection
  <2>. QED  BY <2>3, <2>4
<1>. QED
    BY <1>5, <1>6, <1>7 DEF Exchange, HttpAnswered, HttpFailed, HttpAborted

LEMMA AnswerConnects == ASSUME TypeOK, Answer PROVE Connection' = Connection
<1>1. LastingUrl' = LastingUrl
    BY AnswerSteps, DiscardPlaces DEF LastingUrl, TypeOK
<1>2. Granted(curl.jar)' <=> Granted(curl.jar)
    BY AnswerKeeps DEF Granted
<1>. QED  BY <1>1, <1>2, AnswerKeeps, SameConnection

LEMMA EnvironmentConnects == ASSUME TypeOK, Environment PROVE Connection' = Connection
<1>1. UNCHANGED <<ctx, curl, call>>
    BY EnvironmentSteps
<1>2. Granted(curl.jar)' <=> Granted(curl.jar)
    BY <1>1, EnvironmentGrants DEF Granted
<1>. QED  BY <1>1, <1>2, SameConnection DEF LastingUrl

\* The steps that begin a call.
LEMMA BeginConnects ==
    ASSUME TypeOK, Logins, Places,
           LoginSend \/ LoginMepSend \/ ServiceSend \/ ChangePasswordPlain \/ AnonymousSend
             \/ ChangePasswordSend \/ LogoutSend,
           call'.pc \in Running
    PROVE  \/ Connection' \in {Connection, "negotiating", "perRequest", "anonymous"}
           \/ Connection = "dangling" /\ Connection' = "session"
<1>1. Idle /\ call.savedUrl = None
  <2>1. Idle
      BY DEF LoginSend, LoginMepSend, ServiceSend, ChangePasswordPlain, AnonymousSend,
         ChangePasswordSend, LogoutSend
  <2>. QED  BY <2>1 DEF Places, Resting, Idle, Running
<1>2. LastingUrl = ctx.url
    BY <1>1 DEF LastingUrl
<1>3. Opened.open = TRUE /\ Opened.jar = None /\ ~Granted(None)
    BY CookieAssumption DEF Opened, Closed, Granted
<1>4. CASE LoginSend
  <2>1. curl'.open /\ ~Granted(curl.jar)'
      BY <1>3, <1>4, LoginBegins DEF Granted
  <2>2. LastingUrl' = ctx'.url /\ ctx'.url \in {"hotp", "totp", "sendsms", "base"}
      BY <1>4, LoginBegins DEF LastingUrl
  <2>3. ctx'.url # None
      BY <2>2, LocationAssumption DEF Location
  <2>. QED  BY <2>1, <2>2, <2>3 DEF Connection
<1>5. CASE LoginMepSend
  <2>1. curl' \in {curl, Opened} /\ curl'.open /\ srv' = srv
      BY <1>3, <1>5, LoginMepBegins DEF MepHandle
  <2>2. LastingUrl' = "mep" /\ "mep" # None
      BY <1>5, LoginMepBegins, LocationAssumption DEF LastingUrl, Location
  <2>3. Connection' = IF Granted(curl.jar)' THEN "session" ELSE "negotiating"
      BY <2>1, <2>2 DEF Connection
  <2>4. Granted(curl.jar)' => curl.open /\ Granted(curl.jar)
      BY <1>3, <2>1 DEF Granted
  <2>5. curl.open /\ Granted(curl.jar) => Connection \in {"session", "dangling"}
      BY DEF Connection
  <2>. QED  BY <2>3, <2>4, <2>5
<1>6. CASE ServiceSend \/ ChangePasswordPlain \/ LogoutSend
  <2>1. UNCHANGED <<ctx, curl, srv>> /\ call'.savedUrl = None
    <3>1. \A op, err : ~Return(op, err)
        BY ReturnSteps DEF Running
    <3>. QED
        BY <1>6, <3>1, SendSteps DEF ServiceSend, ChangePasswordPlain, LogoutSend
  <2>2. LastingUrl' = LastingUrl /\ (Granted(curl.jar)' <=> Granted(curl.jar))
      BY <1>2, <2>1 DEF LastingUrl, Granted
  <2>. QED  BY <2>1, <2>2, SameConnection
<1>7. CASE AnonymousSend
  <2>1. ctx.type # "ISDS" /\ ctx'.url = "deposit" /\ call'.savedUrl = None
      BY <1>7, SendSteps DEF AnonymousSend, TypeOK, Context
  <2>2. curl.jar = None
      BY <1>1, <2>1 DEF Places, Resting, Logins, Marked, Idle
  <2>3. curl'.open /\ curl'.jar = None
      BY <1>3, <1>7, <2>2 DEF AnonymousSend
  <2>4. LastingUrl' = "deposit" /\ "deposit" # None
      BY <2>1, LocationAssumption DEF LastingUrl, Location
  <2>5. ~Granted(curl.jar)'
      BY <2>3, CookieAssumption DEF Granted
  <2>. QED  BY <2>3, <2>4, <2>5 DEF Connection
<1>8. CASE ChangePasswordSend
  <2>1. LastingUrl' = LastingUrl
      BY <1>2, <1>8, ChangePasswordBegins DEF LastingUrl
  <2>2. curl'.open = curl.open /\ (Granted(curl.jar)' <=> Granted(curl.jar))
      BY <1>8, ChangePasswordBegins DEF Granted
  <2>. QED  BY <2>1, <2>2, SameConnection
<1>. QED  BY <1>4, <1>5, <1>6, <1>7, <1>8

\* A step that returns with a result that tells the truth.
Reports ==
    /\ Connection' \in {Connection, "closed", "dangling"}
    /\ Contract!Truthful([op |-> call'.op, err |-> call'.err], Connection')

\* On every path out of a call that closes the connection.
LEMMA ClosedReport ==
    ASSUME ~curl'.open,
           call'.err \notin {"SUCCESS", "PARTIAL"} \/ call'.op \in {"none", "logout", "free"}
    PROVE  Reports
<1>1. Connection' = "closed"
    BY DEF Connection
<1>. QED  BY <1>1 DEF Reports, Contract!Truthful

\* On the paths that leave the connection alone and promise nothing of it.
LEMMA SameReport ==
    ASSUME Connection' = Connection,
           \/ call'.op \in {"none", "changePassword"}
           \/ call'.op \in {"service", "vodz", "CZP", "TESTING", "logout"} /\ call'.err # "SUCCESS"
    PROVE  Reports
BY DEF Reports, Contract!Truthful

LEMMA LoginConnects ==
    ASSUME TypeOK, Logins, Places, AllocFails = FALSE, LoginReturns
    PROVE  Reports
<1>1. CASE LoginMissingPassword \/ LoginUnknownMethod
  <2>1. curl' = Closed /\ call'.err \in {"INVAL", "ENUM"}
      BY <1>1, ReturnSteps DEF LoginMissingPassword, LoginUnknownMethod
  <2>. QED  BY <2>1, ClosedReport DEF Closed
<1>2. CASE LoginDone /\ call'.err # "SUCCESS"
  <2>1. Connection' = "closed"
      BY <1>2, LoginEnds DEF Closed, Connection
  <2>. QED  BY <1>2, <2>1, LoginEnds DEF Reports, Contract!Truthful
<1>3. CASE LoginDone /\ call'.err = "SUCCESS"
  <2>1. /\ call.op = "login" /\ call.pc = "done" /\ call.pc \in Running /\ call.err = "SUCCESS"
        /\ call'.op = "login" /\ call'.pc = "idle" /\ call'.savedUrl = None
        /\ curl' = curl /\ srv' = srv /\ ctx'.otp = ctx.otp
        /\ ctx.otp => ctx'.url = "apps"
        /\ ~ctx.otp => ctx'.url = ctx.url
      BY <1>3, LoginEnds DEF Running
  <2>2. curl.open /\ curl'.open /\ call.savedUrl = None
      BY <2>1 DEF Places, Resting
  <2>3. LastingUrl = ctx.url /\ LastingUrl' = ctx'.url
      BY <2>1, <2>2 DEF LastingUrl
  <2>4. Granted(curl.jar)' <=> Granted(curl.jar)
      BY <2>1 DEF Granted
  <2>5. CASE ctx.otp
    <3>1. ctx.url \in Authenticating /\ ctx'.url = "apps"
        BY <2>1, <2>5 DEF Places, LoginUrls
    <3>2. ctx.url # None /\ ctx'.url # None
        BY <3>1, LocationAssumption DEF Authenticating, Location
    <3>3. Granted(curl.jar)
        BY <2>1, <2>5 DEF Logins, OtpLoggingIn, AnswerKnown
    <3>4. Connection = "session" /\ Connection' = "session"
        BY <2>2, <2>3, <2>4, <3>2, <3>3 DEF Connection
    <3>. QED  BY <1>3, <2>1, <3>4 DEF Reports, Contract!Truthful
  <2>6. CASE ~ctx.otp
    <3>1. ctx.url = "base" /\ "base" # None
        BY <2>1, <2>6, LocationAssumption DEF Places, LoginUrls, Location
    <3>2. Connection' = Connection
        BY <2>1, <2>3, <2>4, <2>6, SameConnection
    <3>3. Connection \in {"perRequest", "session"}
        BY <2>2, <2>3, <3>1 DEF Connection
    <3>. QED  BY <1>3, <2>1, <3>2, <3>3 DEF Reports, Contract!Truthful
  <2>. QED  BY <2>5, <2>6
<1>. QED  BY <1>1, <1>2, <1>3 DEF LoginReturns, LoginOutOfMemory

LEMMA LoginMepConnects ==
    ASSUME TypeOK, Logins, Negotiating, Places, AllocFails = FALSE, LoginMepReturns
    PROVE  Reports
<1>1. CASE LoginMepBadArgument
  <2>1. /\ call'.op = "loginMep" /\ call'.err = "INVAL" /\ call'.savedUrl = None
        /\ ctx' = Reset
      BY <1>1, ReturnSteps DEF LoginMepBadArgument
  <2>2. LastingUrl' = None
      BY <2>1 DEF LastingUrl, Reset, TypeOK, Context
  <2>3. Connection' \in {"closed", "dangling"}
      BY <2>2 DEF Connection
  <2>. QED  BY <2>1, <2>3 DEF Reports, Contract!Truthful
<1>2. CASE LoginMepDone
  <2>1. /\ call.op = "loginMep" /\ call.pc = "done" /\ call.pc \in Running
        /\ call'.op = "loginMep" /\ call'.savedUrl = None /\ srv' = srv
        /\ call'.err = call.err /\ ctx'.url = "apps"
        /\ call.err \in {"SUCCESS", "PARTIAL"} => curl' = curl
        /\ call.err \notin {"SUCCESS", "PARTIAL"} => curl' = Closed
      BY <1>2, LoginMepEnds DEF Running
  <2>2. CASE call.err \notin {"SUCCESS", "PARTIAL"}
      BY <2>1, <2>2, ClosedReport DEF Closed
  <2>3. CASE call.err \in {"SUCCESS", "PARTIAL"}
    <3>1. ctx.url = "mep" /\ call.savedUrl = None /\ "mep" # None /\ "apps" # None
        BY <2>1, LocationAssumption DEF Places, LoginMepUrls, Resting, Location
    <3>2. LastingUrl = "mep" /\ LastingUrl' = "apps"
        BY <2>1, <3>1 DEF LastingUrl
    <3>3. Granted(curl.jar)' <=> Granted(curl.jar)
        BY <2>1, <2>3 DEF Granted
    <3>4. CASE call.err = "SUCCESS"
      <4>1. curl.open /\ Granted(curl.jar)
          BY <2>1, <3>4 DEF Logins, MepLoggingIn, AnswerKnown
      <4>2. Connection = "session" /\ Connection' = "session"
          BY <2>1, <2>3, <3>1, <3>2, <3>3, <4>1 DEF Connection
      <4>. QED  BY <2>1, <3>4, <4>2 DEF Reports, Contract!Truthful
    <3>5. CASE call.err = "PARTIAL"
      <4>1. Negotiated(curl.jar)
          BY <2>1, <3>5 DEF Negotiating
      <4>2. curl.open /\ ~Granted(curl.jar)
          BY <4>1, CookieAssumption DEF Negotiated, Granted, Logins, Connected
      <4>3. Connection = "negotiating" /\ Connection' = "negotiating"
          BY <2>1, <2>3, <3>1, <3>2, <3>3, <4>2 DEF Connection
      <4>. QED  BY <2>1, <3>5, <4>3 DEF Reports, Contract!Truthful
    <3>. QED  BY <2>3, <3>4, <3>5
  <2>. QED  BY <2>2, <2>3
<1>. QED  BY <1>1, <1>2 DEF LoginMepReturns, LoginMepOutOfMemory

LEMMA ServiceConnects ==
    ASSUME TypeOK, Logins, Places, ServiceReturns, call'.pc \notin Running
    PROVE  Reports
<1>1. UNCHANGED <<ctx, srv>> /\ call'.savedUrl = None
  <2>1. \A op, url, saved : ~Send(op, url, saved)
      BY SendSteps DEF Running
  <2>. QED
      BY <2>1, ReturnSteps DEF ServiceReturns, ServiceClosed, ServiceSend, ServiceDone,
         ConversionDone
<1>2. Idle \/ call.op \in {"service", "vodz", "CZP", "TESTING"}
    BY DEF ServiceReturns, ServiceClosed, ServiceSend, ServiceDone, ConversionDone
<1>3. call.savedUrl = None
    BY <1>2 DEF Places, Resting, Idle, Running
<1>4. LastingUrl' = ctx.url /\ LastingUrl = ctx.url
    BY <1>1, <1>3 DEF LastingUrl
<1>5. curl' = curl => Connection' = Connection
  <2>1. curl' = curl => (Granted(curl.jar)' <=> Granted(curl.jar))
      BY <1>1 DEF Granted
  <2>. QED  BY <1>4, <2>1, SameConnection
<1>6. CASE ServiceClosed \/ ServiceSend
  <2>1. curl' = curl /\ call'.op \in {"service", "vodz"} /\ call'.err # "SUCCESS"
    <3>1. \A op, url, saved : ~Send(op, url, saved)
        BY SendSteps DEF Running
    <3>. QED  BY <1>6, <3>1, ReturnSteps DEF ServiceClosed, ServiceSend
  <2>. QED  BY <1>5, <2>1, SameReport
<1>7. CASE ServiceDone
  <2>1. /\ call.pc = "done" /\ call.pc \in Running /\ call.op \in {"service", "vodz", "TESTING"}
        /\ curl' = curl /\ call'.op = call.op
        /\ call'.err = "SUCCESS" => call.err = "SUCCESS"
      BY <1>7, ReturnSteps DEF ServiceDone, Running
  <2>2. CASE call'.err # "SUCCESS"
      BY <1>5, <2>1, <2>2, SameReport
  <2>3. CASE call'.err = "SUCCESS" /\ call.op \in {"service", "vodz"}
    <3>1. curl.open /\ ctx.url # None /\ (ctx.url = "base" \/ Granted(curl.jar))
        BY <2>1, <2>3 DEF Places, ServiceCallUrls, Entitled
    <3>2. Connection \in {"perRequest", "session"}
        BY <1>4, <3>1 DEF Connection
    <3>. QED  BY <1>5, <2>1, <2>3, <3>2 DEF Reports, Contract!Truthful
  <2>4. CASE call'.err = "SUCCESS" /\ call.op = "TESTING"
    <3>1. curl.open /\ ctx.url = "deposit" /\ ctx.type # "ISDS" /\ "deposit" # None
        BY <2>1, <2>4, LocationAssumption DEF Places, AnonymousUrls, Location
    <3>2. ~Granted(curl.jar)
        BY <2>1, <3>1, CookieAssumption DEF Places, Resting, Logins, Marked, Granted
    <3>3. Connection = "anonymous"
        BY <1>4, <3>1, <3>2 DEF Connection
    <3>. QED  BY <1>5, <2>1, <2>4, <3>3 DEF Reports, Contract!Truthful
  <2>. QED  BY <2>1, <2>2, <2>3, <2>4
<1>8. CASE ConversionDone
  <2>1. /\ call.pc = "done" /\ call.pc \in Running /\ call.op = "CZP" /\ call'.op = "CZP"
        /\ call'.err = "SUCCESS" => call.err = "SUCCESS"
        /\ curl' = IF call.err = "SUCCESS" THEN curl ELSE Closed
        /\ call.err # "SUCCESS" => call'.err = call.err
        /\ call.err = "SUCCESS" => call'.err \in {"SUCCESS", "ISDS"}
      BY <1>8, ReturnSteps DEF ConversionDone, Running
  <2>2. CASE call.err # "SUCCESS"
    <3>1. Connection' = "closed"
        BY <2>1, <2>2 DEF Connection, Closed
    <3>. QED  BY <2>1, <2>2, <3>1 DEF Reports, Contract!Truthful
  <2>3. CASE call.err = "SUCCESS"
    <3>1. curl.open /\ ctx.url = "deposit" /\ ctx.type # "ISDS" /\ "deposit" # None
        BY <2>1, <2>3, LocationAssumption DEF Places, AnonymousUrls, Location
    <3>2. ~Granted(curl.jar)
        BY <2>1, <3>1, CookieAssumption DEF Places, Resting, Logins, Marked, Granted
    <3>3. Connection = "anonymous"
        BY <1>4, <3>1, <3>2 DEF Connection
    <3>. QED  BY <1>5, <2>1, <2>3, <3>3 DEF Reports, Contract!Truthful
  <2>. QED  BY <2>2, <2>3
<1>. QED  BY <1>6, <1>7, <1>8 DEF ServiceReturns

LEMMA ChangePasswordConnects ==
    ASSUME TypeOK, Places, AllocFails = FALSE, ChangePasswordReturns
    PROVE  Reports
<1>1. CASE ChangePasswordRefused \/ ChangePasswordOtpRefused
  <2>1. /\ Idle /\ UNCHANGED <<ctx, curl, srv>>
        /\ call'.op = "changePassword" /\ call'.savedUrl = None
      BY <1>1, ReturnSteps DEF ChangePasswordRefused, ChangePasswordOtpRefused
  <2>2. call.savedUrl = None
      BY <2>1 DEF Places, Resting, Idle, Running
  <2>3. LastingUrl' = LastingUrl /\ (Granted(curl.jar)' <=> Granted(curl.jar))
      BY <2>1, <2>2 DEF LastingUrl, Granted
  <2>. QED  BY <2>1, <2>3, SameConnection, SameReport
<1>2. CASE ChangePasswordDone \/ TotpRequestDone
  <2>1. /\ call.op \in {"changePassword", "requestTotp"} /\ call.pc \in Running
        /\ UNCHANGED <<curl, srv>> /\ ctx'.url = call.savedUrl
        /\ call'.op = "changePassword" /\ call'.savedUrl = None
      BY <1>2, ChangePasswordEnds DEF Running
  <2>2. call.savedUrl \in {"base", "apps"}
      BY <2>1 DEF Places, ChangeUrls
  <2>3. call.savedUrl # None
      BY <2>2, LocationAssumption DEF Location
  <2>4. LastingUrl' = LastingUrl /\ (Granted(curl.jar)' <=> Granted(curl.jar))
      BY <2>1, <2>3 DEF LastingUrl, Granted
  <2>. QED  BY <2>1, <2>4, SameConnection, SameReport
<1>. QED  BY <1>1, <1>2 DEF ChangePasswordReturns, ChangePasswordOutOfMemory

LEMMA LogoutConnects ==
    ASSUME TypeOK, Logins, Places, LogoutReturns PROVE Reports
<1>1. ASSUME NEW op \in {"logout", "free"}, NEW err, EndLogout(op, err)
      PROVE  /\ call'.op = op /\ call'.savedUrl = None
             /\ op = "logout" => call'.err = err
             /\ op = "free" => ctx'.url = None
             /\ op = "logout" /\ err # "SUCCESS" => ctx' = ctx
    BY <1>1 DEF EndLogout, At, NewContext
<1>2. ASSUME NEW op \in {"logout", "free"}, NEW err, EndLogout(op, err), curl' = Closed
      PROVE  Reports
    BY <1>1, <1>2, ClosedReport DEF Closed
<1>3. ASSUME NEW op \in {"logout", "free"}, NEW err, EndLogout(op, err), UNCHANGED <<curl, srv>>,
             err # "SUCCESS", Idle \/ call.op \in {"logout", "free"}
      PROVE  Reports
  <2>1. call.savedUrl = None
      BY <1>3 DEF Places, Resting, Idle, Running
  <2>2. CASE op = "logout"
    <3>1. LastingUrl' = LastingUrl /\ (Granted(curl.jar)' <=> Granted(curl.jar))
        BY <1>1, <1>3, <2>1, <2>2 DEF LastingUrl, Granted
    <3>. QED  BY <1>1, <1>3, <2>2, <3>1, SameConnection, SameReport
  <2>3. CASE op = "free"
    <3>1. LastingUrl' = None
        BY <1>1, <1>3, <2>3 DEF LastingUrl
    <3>2. Connection' \in {"closed", "dangling"}
        BY <3>1 DEF Connection
    <3>. QED  BY <1>1, <1>3, <2>3, <3>2 DEF Reports, Contract!Truthful
  <2>. QED  BY <1>3, <2>2, <2>3
<1>4. CASE LogoutLocal
    BY <1>2, <1>4 DEF LogoutLocal
<1>5. CASE LogoutWithoutUrl
    BY <1>3, <1>5 DEF LogoutWithoutUrl
<1>6. CASE LogoutAnswered
    BY <1>2, <1>3, <1>6 DEF LogoutAnswered
<1>7. CASE LogoutFailed
  <2>1. call.err # "SUCCESS"
      BY <1>7 DEF LogoutFailed, Logins, LoggingOut, Running
  <2>. QED  BY <1>3, <1>7, <2>1 DEF LogoutFailed
<1>. QED  BY <1>4, <1>5, <1>6, <1>7 DEF LogoutReturns

LEMMA SurroundingsConnect == ASSUME TypeOK, Places, Surroundings PROVE Reports
<1>1. CASE CodeEntered \/ MepAbandoned
  <2>1. ResultForgotten /\ Idle /\ ctx' = ctx /\ curl' = curl /\ srv' = srv
    <3>1. CASE CodeEntered
        BY <3>1 DEF CodeEntered
    <3>2. CASE MepAbandoned
        BY <3>2 DEF MepAbandoned
    <3>. QED  BY <1>1, <3>1, <3>2
  <2>2. call'.op = "none" /\ call'.savedUrl = None /\ call.savedUrl = None
      BY <2>1 DEF ResultForgotten, At, Places, Resting, Idle, Running
  <2>3. LastingUrl' = LastingUrl /\ (Granted(curl.jar)' <=> Granted(curl.jar))
      BY <2>1, <2>2 DEF LastingUrl, Granted
  <2>. QED  BY <2>1, <2>2, <2>3, SameConnection, SameReport
<1>2. CASE CtxCreate
    BY <1>2, ClosedReport DEF CtxCreate, Closed, At
<1>. QED  BY <1>1, <1>2 DEF Surroundings

\* What the application is told of the call.
Outcome ==
    IF call.pc \in {"idle", "freed"} THEN [op |-> call.op, err |-> call.err] ELSE Busy

LEMMA OutcomeKinds ==
    ASSUME TypeOK
    PROVE  /\ call.pc \in Running => Outcome = Busy
           /\ call.pc \notin Running =>
                /\ Outcome = [op |-> call.op, err |-> call.err]
                /\ Outcome \in Results /\ Outcome # Busy
<1>1. call.pc \in Pc /\ call.op \in Op /\ call.err \in Err
    BY DEF TypeOK, Call
<1>2. [op |-> call.op, err |-> call.err] # Busy
  <2>1. [op |-> call.op, err |-> call.err].op # Busy.op
      BY <1>1 DEF Op, Busy
  <2>. QED  BY <2>1
<1>. QED  BY <1>1, <1>2 DEF Outcome, Results, Running, Pc

\* Every step of the session is a step of the contract, or none that the
\* application could tell.
LEMMA ContractStep ==
    ASSUME TypeOK, Logins, Negotiating, Places, TypeOK', AllocFails = FALSE, [Next]_vars
    PROVE  [Contract!Next]_<<Connection, Outcome>>
<1>1. CASE UNCHANGED vars
  <2>1. LastingUrl' = LastingUrl /\ (Granted(curl.jar)' <=> Granted(curl.jar))
      BY <1>1 DEF vars, LastingUrl, Granted
  <2>2. Connection' = Connection /\ Outcome' = Outcome
      BY <1>1, <2>1, SameConnection DEF vars, Outcome
  <2>. QED  BY <2>2
<1>2. CASE Environment
  <2>1. Connection' = Connection /\ Outcome' = Outcome
      BY <1>2, EnvironmentConnects, EnvironmentSteps DEF Outcome
  <2>. QED  BY <2>1
<1>3. CASE Next /\ ~Environment /\ call'.pc \in Running
  <2>1. Outcome' = Busy
      BY <1>3, OutcomeKinds DEF Outcome, Running
  <2>2. CASE (Exchange \/ Answer) /\ call.pc \in Running
    <3>1. Outcome = Busy
        BY <2>2, OutcomeKinds
    <3>2. Contract!Proceeds
        BY <2>2, ExchangeConnects, AnswerConnects DEF Contract!Proceeds
    <3>3. Contract!Work
        BY <2>1, <3>1, <3>2 DEF Contract!Work, Outcome
    <3>. QED  BY <3>3 DEF Contract!Next
  <2>3. CASE LoginSend \/ LoginMepSend \/ ServiceSend \/ ChangePasswordPlain \/ AnonymousSend
             \/ ChangePasswordSend \/ LogoutSend
    <3>1. call.pc \notin Running
        BY <2>3 DEF LoginSend, LoginMepSend, ServiceSend, ChangePasswordPlain, AnonymousSend,
           ChangePasswordSend, LogoutSend, Idle, Running
    <3>2. Outcome # Busy
        BY <3>1, OutcomeKinds
    <3>3. Contract!Begin
        BY <1>3, <2>1, <2>3, <3>2, BeginConnects DEF Contract!Begin, Outcome
    <3>. QED  BY <3>3 DEF Contract!Next
  <2>. QED  BY <1>3, <2>2, <2>3, CallRuns
<1>4. CASE Next /\ ~Environment /\ call'.pc \notin Running
  <2>1. Outcome' = [op |-> call'.op, err |-> call'.err] /\ Outcome' \in Results
    <3>1. call'.pc \in Pc /\ call'.op \in Op /\ call'.err \in Err
        BY DEF TypeOK, Call
    <3>. QED  BY <1>4, <3>1 DEF Outcome, Results, Running, Pc
  <2>2. Reports
      BY <1>4, CallReturned, LoginConnects, LoginMepConnects, ServiceConnects,
         ChangePasswordConnects, LogoutConnects, SurroundingsConnect
  <2>3. /\ Contract!Proceeds \/ Connection' = "dangling"
        /\ Contract!Truthful(Outcome', Connection')
      BY <2>1, <2>2 DEF Reports, Contract!Proceeds
  <2>4. Contract!Return
      BY <2>1, <2>3 DEF Contract!Return, Outcome
  <2>. QED  BY <2>4 DEF Contract!Next
<1>. QED  BY <1>1, <1>2, <1>3, <1>4

LEMMA ContractInit == ASSUME Init PROVE Contract!Init
<1>1. Connection = "closed"
    BY DEF Init, Connection, Closed
<1>2. Outcome \in Results
  <2>1. call.op \in Op /\ call.err \in Err /\ call.pc = "idle"
      BY DEF Init, At, Op, Err
  <2>. QED  BY <2>1 DEF Outcome, Results
<1>. QED  BY <1>1, <1>2 DEF Contract!Init, Outcome

\* As long as memory suffices, the sessions of the library implement the
\* contract with the application, whatever the server, the network and the
\* user do and in whatever order the application makes its calls.
THEOREM ContractKept == ASSUME AllocFails = FALSE PROVE Spec => KeepsContract
<1>1. Init => TypeOK /\ Logins /\ Negotiating /\ Places /\ Contract!Init
    BY TypeInit, LoginsInit, PendingInit, PlacesInit, ContractInit
<1>2. TypeOK /\ Logins /\ Negotiating /\ Places /\ [Next]_vars
        => (TypeOK /\ Logins /\ Negotiating /\ Places)'
    BY TypeStep, LoginsStep, NegotiatingStep, PlacesStep
<1>3. TypeOK /\ Logins /\ Negotiating /\ Places /\ TypeOK' /\ [Next]_vars
        => [Contract!Next]_<<Connection, Outcome>>
    BY ContractStep
<1>. QED  BY <1>1, <1>2, <1>3, PTL DEF Spec, KeepsContract, Contract!Spec, Outcome

=============================================================================
