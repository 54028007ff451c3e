# Verification of libdatovka

libdatovka is a C library for the Czech system of data boxes (ISDS). An
application creates a context, logs in with one of several authentication
methods, calls web services and logs out. The library is synchronous and
single-threaded for one context: an API call runs on the application's thread
until it returns. What is hard is not concurrency of threads but the state
that outlives a call - in the context, in the CURL handle, in structures the
application owns, on the server - and all the ways a call can end half-way.

## Inventory

| Component | Source | State | Operations | Model |
| --- | --- | --- | --- | --- |
| Session | `src/src/isds.c` 1310-2530, 7330-7903 | `struct isds_ctx` (`isds_priv.h` 92-128), the application's `struct isds_otp` and `struct isds_mep` | log in (password, certificate, HOTP, TOTP, mobile key), log out, password change, context life cycle | `IsdsSession`, `SessionContract`, `SessionDocs` |
| SOAP and HTTP | `src/src/soap.c` | the CURL handle: options that outlive a request, cookies | `http()`, `_isds_soap()`, `_isds_soap_vodz()`, redirects, cookie invalidation | `IsdsSoap` |
| Authentication headers | `src/src/soap.c` 54-740, 1000-1290 | `struct auth_headers` of one call | header callback, decoding of folded and RFC 2047 values, meaning of the message code | `AuthHeaders`, `AuthDocs` |
| Multipart responses | `soap.c` 600-1000, `multipart_parts.c`, `multipart_intermediate.c`, vendored `multipart_parser.c` | parser state, the part being read, the parts found | a header line, a chunk of the body, the end | `Multipart`, `HeaderValue` |
| Attachment download over MTOM/XOP | `soap.c` 2650-3130, `isds.c` 13622-13761 | - | `isds_DownloadAttachment_mtomxop()` | `XopDownload`, `XopDocs` |
| Service calls | `isds.c` (nearly all the rest), `validator.c` | `context->curl`, `context->status`, the application's output variables and reference number | 68 functions, from argument check to clean-up | `ServiceCalls`, `ServiceApi`, `ServiceDocs` |
| Sending messages | `isds.c` 6373-6672, 12016-12610, 13763-13924, `validator.c` 369-445 | the application's envelope and list of copies with their results | `isds_send_message()`, `isds_CreateBigMessage()`, `isds_send_message_to_multiple_recipients()` | `Documents`, `Sending` |
| Contents of documents | `cencode.c`, `cdecode.c`, `utils.c` 271-341, `soap.c` 1029-1139, `isds.c` 6340-6366, 12691-12732 | encoder and decoder states, the place of CURL in a part | Base64 both ways, upload of a part with MTOM/XOP | `Base64`, `ContentTransfer` |
| Marks of found texts, message hashes, signed data | `isds.c` 10107-10166, `physxml.c`, `crypto_*.c` | - | mark, compute, compare, verify | not modelled |
| Server | `src/test/simline/server.c` | cookies and sessions | authentication of the test server | `IsdsServer` |

How they interact: the session calls fill `struct isds_ctx` and call
`_isds()` (status pipeline), that calls `_isds_soap()`, that calls `http()` as
many times as the server redirects. Headers and body arrive through CURL
callbacks during `http()`. Every service function goes the same way: arguments,
connection, request, `_isds()`, status code, extraction, clean-up. Results travel back as `isds_error` codes, and
through `otp->resolution`, `mep->resolution` and `mep->intermediate_uri` in the
application's structures.

Hard behaviours, listed with their lines in `PROJECT.json`: log ins by different
methods in any order over one context; a request lost before or after the
server has processed it; a progress callback that aborts a transfer; a mobile
key acknowledged, refused or timed out between any two steps; a session that
the server ends under the client; allocations that fail; redirects that
are followed without a counter; options left on the CURL handle; response heads
of several exchanges read into one structure; bodies cut anywhere into chunks,
also inside a boundary; seventy hand-written copies of one pattern, each with its
own place for resetting an output and its own reaction to half an answer; answers
whose items belong to the application's by their place alone, into structures
that still hold an earlier attempt.

## The model

### IsdsServer, IsdsSoap, IsdsSession

`IsdsServer` gives, for a request (location, credentials, cookie), the set of
answers the server may give, each with its state afterwards. Password and
one-time-password authentication follow the server the tests run against;
the mobile key service has no implementation in the repository and is modelled
from the answers `_isds_soap()` distinguishes.

`IsdsSoap` holds the variables:

| Variable | Code |
| --- | --- |
| `ctx` | `struct isds_ctx`; `cred` is user name, password (alone or with the code appended) and certificate, `otpCred` and `mepCred` whether the application's structures are attached |
| `curl` | the CURL handle: open or not, credentials set on it, cookie engine, cookie |
| `appOtp`, `appMep` | the application's `struct isds_otp`, `struct isds_mep` (the latter with its `intermediate_uri`) |
| `call` | the API call in progress: operation, progress, the URL of the next request, whether it is not the first one, the result |
| `reply` | the answer being processed |
| `srv` | the server's sessions by cookie |

and the steps of one exchange: `HttpAnswered`, `HttpFailed`, `HttpAborted` for
`http()`, and one action for each branch of `_isds_soap()` over code, method and
resolution. `IsdsSession` adds the calls: each begins with an action for every
early return and one that sends, and ends with one that restores the context.
A call is therefore interleaved with the user (`UserAcknowledges`), time
(`RequestExpires`) and the server (`SessionExpires`) at each HTTP exchange.

Locations are abstract: `base` is every URL authenticated for each request,
`apps` every URL authorised by a cookie, and the others are the
authentication, password, log out and anonymous services.

### SessionContract

What the header promises of a connection: `closed`, `negotiating`,
`perRequest`, `session`, `anonymous` and (a state the header does not mention)
`dangling`. `IsdsSession!KeepsContract` maps handle, URL and server session
to it; the run `MCSession` checks that every step of the library is a step
of the contract.

### AuthHeaders

One action for each kind of line CURL hands to `write_header()`: a header that
starts (`NewHeader`), one that goes on (`Continuation`), the empty line
(`Separator`); `NextHead` for another head in the same exchange, and `Answered`
for what `http()` and `_isds_soap()` do with the result. `headers` is `struct
auth_headers`; `last` is the pair of `last_header` and the text collected for it.
A text is a sequence of plain words, encoded words and white space, and
`Decoded` is `decode_header_value()`: where white space goes and where it stays.
The single encoded word (charset, base64, quoted-printable) is abstracted.

### Multipart, HeaderValue, Framing, XopDownload

`Multipart` is the byte machine of `multipart_parser_execute()` with its
callbacks in `multipart_intermediate.c` and `multipart_parts.c`: one action for
each state of the parser, on one byte. A chunk may end after any byte: at the end
of a chunk the parser hands over what it has not handed over yet (`mark`), and
the model lets that happen at every place where it can. `HeaderValue` has the
functions of `soap.c` that find parameters in a header line. `XopDownload`
composes them with the header callback (a second `start` or `boundary` is
refused), the plain body, the choice by MIME type in `_isds_soap_vodz()` and
`extract_dmFile()`. The XML document of the root part is looked up in
`Documents`: what it says, not how it is parsed.

A response carries, beside its lines and bytes, what the server meant by it: the
parts it sent, and whether their framing is right (`framed`) and complete (`whole`).
`Framing` says what right is, from RFC 2046 and never from the parser: how a
sequence of parts is encoded (`Encoded`), which parts can be (`Framable`), and what
their headers are worth (`Meant`). `FramingAssumption` holds a response that calls
itself framed to it, and `MeaningAssumption` the outcome of a whole one to `Outcome`; the properties
compare the two sides.

### ServiceCalls, ServiceApi

`ServiceCalls` is the machine all service functions follow, `ServiceApi` a row for
each of them, `MCServices` the table. A row says: when the output variable is
reset (`early` - before the request, `reading` - when the answer is read,
`never`); where the connection is looked at; how building the request may fail;
what `context->status` gets; whether the result of the exchange is looked at;
which part of an answer is wanted and what an answer without it means; whether
values go to the application as they are read or all at the end; whether the
output is freed on error; whether the answer is loaded by another public
function; which status codes mean what, and which come with data.

Calls follow each other without a bound: what the application holds is kept
relative to the call (`this`, `earlier`, `partial`, `none`). `call.fault` is a
history variable, the first failure a call met. Simplifications:

* `early` covers functions that reset before and after they look at further
  arguments, `first` those whose helper looks at the connection before it builds.
* all failures that close the connection show as `IE_NETWORK`; of those that keep
  it there are `IE_ABORTED`, `IE_SOAP` and `IE_ISDS`.
* functions that open a connection of their own (`connects = "self"`: the testing
  box, the conversion service) run on contexts of their own.
* failed allocations are left out here (they end a call like `IE_ERROR`), and so is
  `IE_NOTSUP` of builds without CURL.

Properties name the functions they leave out, and why, next to the definition;
`MCServices!LeavesPartial` lists those that hand over half an output.

### Documents, Sending

`Sending` is one call that sends a message, item by item: each copy's recipient
(`InsertRecipient`), the envelope and the lists of files as a whole
(`InsertEnvelope`), each file (`InsertDocument`, `InsertExtFile`), the exchange,
the status, and each status of the answer into the copy at its place
(`AppendStatus`) or the identifier into the envelope (`ReadIdentifier`).

| Variable | Code |
| --- | --- |
| `copies` | the application's `struct isds_message_copy`, kept from call to call |
| `envelope` | `dbIDRecipient` and `dmID` in the message's envelope |
| `request` | recipients and files in the request so far, in their order |
| `reply` | the answer: its status, and the statuses of the recipients |
| `sent` | what lies in the boxes (history of the server) |
| `before` | copies and `sent` as the call found them (history) |

The server gives every recipient a new identifier or refuses it. Its answer is
lost, says so, or is defective: without a code, too short, too long, one status
without code or identifier. `Documents` has the check of the hierarchy of files
(`validator.c`) and where `insert_document()` and `insert_ext_file()` put a file.
A file is what is tested of it: list, main or not, identifiers, and whether it is
refused on its own.

### Base64, ContentTransfer

A content goes one of three ways. `EncodeA`, `EncodeB`, `EncodeC` and `EncodeEnd`
are the cases of the coroutine in `cencode.c`; `Read` and `Rewind` are the callbacks CURL
takes a part with and goes back in it; `DecodeNext` and `DecodeForeign` hand a
character to the coroutine in `cdecode.c`. The other end is written from RFC 4648
(`Value`, `Packed`, `ReadChar`), never from the tables of the library, and has a byte
at a time: so every block boundary of the encoder and the decoder is between two
steps. `used` and `room` count the buffer. Where the decoder reads or writes the
byte it has begun, that byte counts as part of what it uses.

### Docs modules

`SessionDocs`, `AuthDocs`, `XopDocs`, `ServiceDocs`: statements of comments,
messages and documentation that the code does not keep, each refuted by a run
(see Findings).

### Decisions

* The build is the default one, without `HAVE_CURL_REAUTHORIZATION_BUG`
  (a configure switch that is off).
* CURL options stay on a handle until they are set again; only
  `unset_http_authorization()` takes credentials back.
* `NETWORK` stands for every transport failure that closes the connection
  (`soap.c` 1759-1798), `ABORTED` for the progress callback, which keeps it.
* The authentication headers are read from the first answer of a call only,
  because nothing resets `is_complete` (`call.again`); the URL of a redirect comes
  from CURL and is always that of the last answer.
* A request that the user has acknowledged does not time out before the library
  picks it up: `_isds_soap()` looks at `mep->resolution` alone when it takes a 302
  answer for success, so the server's answer in that case is outside the model.
* An application keeps the kind of mobile key log in (basic, extended) while
  it polls one `struct isds_mep`, and makes anonymous calls on contexts of their
  own, as the documentation of those calls demands.
* `AllocFails` lets the allocations fail that leave state behind.

## Runs

| Run | Question |
| --- | --- |
| `MCSession` | all safety properties of sessions with password, certificate, TOTP and basic mobile key log ins and two server sessions; the refinement of `SessionContract` |
| `MCSessionKinds` | HOTP, and both mobile key protocols mixed; every call returns; an application that repeats a pending mobile key log in learns its outcome |
| `MCSessionFailures` | failing allocations and an unknown OTP method: every early return |
| `MCAuth` | the first head of a call is decoded as it was sent; no code of an earlier head passes for a later one's |
| `MCXop` | multipart responses arrive as sent however they are cut; broken and ill-framed ones invent nothing |
| `MCServices` | sequences of calls of all 68 service functions: results, outputs, status, reference numbers |
| `MCSending` | messages sent one after another and again with the same copies or envelope: results belong to their recipients, failed attempts take nothing away, requests are well-formed |
| `MCContent` | contents arrive as they are, by Base64 in both directions and through the callbacks, within the buffers |
| `DocsFreed`, `DocsBoundary`, `DocsRootless`, `DocsStatus` | findings |

Bounds.

* Sessions: the only unbounded thing is the number of sessions, bounded by
  `Cookie` (the server never issues a cookie twice). One session suffices for the
  properties of one log in; two are needed where the cookie of one session can be
  mistaken for that of another. Cookies are symmetric.
* `MCAuth`: header texts of up to `MaxText` = 3 words and white spaces: enough for
  a gap between two encoded words, between a plain and an encoded one, and at both
  ends. Heads fold a text at every place; calls have up to two exchanges, and
  exchanges up to two heads.
* `MCXop`: contents of every byte string up to `MaxContent` = 4 over the bytes a
  boundary is made of, and longer ones that start like a boundary and go on
  differently, one for each state in which the parser falls back. Two parts,
  because the end of a part is a boundary followed by a part or by the end.
* `MCServices`: nothing is cut off.
* `MCSending`: two boxes and lists of up to two recipients, the same box twice and
  forgotten ones among them: a place can be mistaken for another, and a box for
  another, and more recipients add no other way to. Three identifiers
  (symmetric) are enough for two attempts that overlap in one copy. One message
  for each way of being malformed.
* `MCContent`: every content of up to `MaxContent` = 4 bytes over four bytes whose
  halves and quarters differ, and longer ones of up to 13 bytes, so that every
  remainder modulo three follows a line end. A line has `LineGroups` = 2 groups
  instead of 18 (`cencode.c` 11); blocks of up to `MaxBlock` = 3 bytes, and up to
  `MaxForeign` = 3 foreign characters, in one group or in different ones. The
  theorems have none of these bounds.

`MaxContent`, `MaxText`, `MaxBlock`, `MaxForeign` and `MsgId` bound data and lengths only. The passing runs of the transfer modules do
not check deadlock, because a response ends.

Fairness: `WF_vars(Library)` - a call runs on the application's thread and
CURL transfers end, at the latest by their time-out, so a call that can go
on does. `MepDecided` adds, as its premise, what it takes for a decision: the
application repeats the call (`WF_vars(MepRetry)`), and the user or the time-out
decides (`WF_vars(UserAcknowledges \/ RequestExpires)`). Nothing is assumed of the network or of
sessions that expire.

## Findings

* `isds_ctx_free()` leaks the connection when log out fails (`DocsFreed`).
* A boundary that is the last parameter of its header is taken with the line end
  and the closing quote, and no part is found then (`DocsBoundary`).
* A multipart response without a `start` parameter is compared with a NULL
  pointer (`DocsRootless`).
* The status of the functions over `build_send_check_dbdummy_request()` and
  `build_send_check_message_request()` holds bytes of a pointer instead of the code
  of the service, and that of functions which load what they download is lost
  (`DocsStatus`).

Further differences between comments and code, met while modelling, that have no
run of their own:

* "True if all headers have been read" (`soap.c` 29-30) is never taken back (522),
  so all headers of a second head in a call are discarded line by line. No resolution
  is mistaken for another because of it: `NoStaleResolution` holds.
* A repeated attempt to send delivers a second time what the first one delivered
  without the application learning of it: nothing in a request lets the server
  recognise it. What holds, and is checked, is `IdsOwn` and `Accounted`.
* `isds_hash_cmp()` is documented to return `IE_NOTUNIQ` for different hashes
  and returns `IE_NOTEQUAL`; hashes of different lengths are an `IE_ERROR`.
* The OTP mark of a session stays after a mobile key log in on the same context
  (`isds.c` 2285).
* `isds_login()` refused with `IE_ENUM` leaves `otp_credentials` attached; the next
  mobile key log in takes its redirect for that of an OTP log in (`isds.c` 2087, 2242).
* Credentials of a password change stay on the handle (`isds.c` 7757).
* `isds.h` 1735 promises outputs of `isds_activate()` to be NULL on error;
  `isds.c` 9151-9165 leaves `*user_id` when the password cannot be read.
* `isds_CheckDataBox()` reports success and leaves `*box_status` as it was when the
  answer has no `isds:dbState` (`isds.c` 10673).
* `multipart_parts.h` 25 says identifiers are kept without pointy brackets; they
  are kept with them, and `content_id_match()` is not used.
* A Content-Type of `multipart/related` that no parameter follows is not
  recognised, because the line end is compared too.
* `validate_message_id_length()` refuses a length of 20 with a message that says
  it must not be longer than 20.

## Proofs

### Sessions

`IsdsSessionProofs` proves `Spec => []TypeOK` for every set of cookies, every
choice of methods and reasons, with and without failing allocations. The type
invariant is inductive; the lemmas follow the layers (server answers, HTTP
exchange, branches of `_isds_soap()`, calls).

It also proves `Spec => []SecretsWiped`. `SecretsWiped` speaks of idle
states only and is not inductive. The inductive invariant `Secrets` adds which
calls may hold credentials (those that wipe them on their way out), and that an
OTP log in has either cleared handle and context (after the redirect of its
second phase) or is still talking to an authentication service, which never
answers with the message of a web service and so cannot end the call with
success. TLC checked `Secrets` on the instances of `MCSession` and
`MCSessionFailures` before it was proved.

Its last part proves `LoginGranted`, `FinalRequestByCookie` and `LogoutComplete`.
All three are about the cookie in the handle, of which the library knows nothing
but what answers have told it. The inductive invariant `Logins` says what that is:

* `Connected`, `Marked` - a request that runs has a connection, a closed handle has
  no cookie, and a handle keeps cookies only if the context knows of its cookie
  session. This is why a log out of a context without these marks has nothing to
  tell the server.
* `OtpLoggingIn`, `MepLoggingIn` - where a log in may be redirected to, and, by
  `AnswerKnown`, what its last answer says of the cookie: the message of a web
  service comes from its session only, a state that counts as acknowledged from an
  acknowledged request, and the redirect that follows makes the request a session.
  A mobile key log in with the credentials of an OTP log in left in the context
  (after an unknown method) takes the branches of the latter, so both speak of
  the same answers.
* `LoggingOut` - a 200 answer to a log out has ended the session of the cookie, and a
  log out that ends without an answer does not end with success.

`LoginAnswers` and `LogoutAnswers` are the lemmas about the server; the environment
can neither grant a session nor bring one back to life (`EnvironmentKeeps`).
`FinalRequestByCookie` needs both invariants: `Logins` for the cookie, `Secrets` for
the password that is gone. TLC checked `Logins` on the instances of all three
session runs before it was proved.

`IsdsContractProofs` proves what the result of a call says of what it leaves.

* `ResolutionTold`, for every choice of the constants: `Resolving` says that a redirect
  followed while the application has no code is the first answer of a TOTP log in,
  and that it said that a code was sent; nothing but a redirect leaves success or a
  sent code in `otp->resolution` of a log in that goes on.
* `PendingResumable`: `Negotiating` says that a request for a new log in goes out without
  a cookie unless it finishes an acknowledged one, so that a redirect starts a
  negotiation and brings its cookie, and only the negotiation of the handle's
  cookie is ever undecided; `PartialKept` keeps this until the next call.
* `ServiceUrls`: `Places` says, for each call, which URLs are in the context and in its
  request (`Resting` between calls; `LoginUrls`, `LoginMepUrls`, `ServiceCallUrls`,
  `ChangeUrls`, `AnonymousUrls`, `LogoutUrls`). `Entitled` is why a service never follows a
  redirect: it is sent to the URL of a session with its cookie, or with a password.
* `KeepsContract`, the refinement of `SessionContract`: `ContractInit` and `ContractStep`,
  with a lemma for each call (`LoginConnects`, `LogoutConnects` and so on) about the
  connection a step leaves and one about the result it reports (`Outcome`).
  It rests on `Logins`, `Negotiating` and `Places`: which cookie, URL and server session
  belong together is in none of the variables alone.

The two in the middle are not true of everything the code does. `isds_login()` sets
`otp_credentials` before it looks at the method and before it allocates, and leaves
them set where one of these fails. A mobile key log in after that does not look at
the state of its negotiation, and a web service follows a redirect to `webLogin`.
`PendingAlwaysContinues` and `ServicesStayHome` therefore assume that memory suffices and
that the application names a method the library knows; `PendingContinues` has
neither assumption and says that the credentials left behind are the only way to
lose a pending log in. `ContractKept` assumes that memory suffices, because
`isds_login()` and `isds_login_mep()` may return with `IE_NOMEM` and the connection open,
which the contract does not know. TLC checked `Places` before it was proved, and both
assumptions come from counterexamples it gave.

### Authentication headers

`AuthHeadersProofs` proves `TypeOK`, `FirstHeadDecoded` and `NoStaleResolution` for all calls whose
heads are framed as CURL hands them over, of any number of exchanges, heads and lines,
and texts of any length.

`FirstHeadDecoded` compares two definitions that share nothing: the code's pass over lines and
tokens, which remembers one header, whether white space was seen and whether the last
word was encoded; and `Said`, which looks at the whole head at once. So there are two
inductions, over the tokens of a text and over the lines of a head:

* `DecodedIsShown` - `decode_header_value()` shows the words of a text as RFC 2047 wants. `DecodedSoFar`
  relates the decoder to the last word in front of the place it has reached: that word
  alone decides, with the white space behind it, what goes in front of the next one.
  The result for each prefix is `FlatTo`, what `Shown` has flattened up to there.
* `Collecting` - while the first head is read, the last header that began is known with the
  lines that continue it so far (`OneOpen`), or none has begun (`NoneOpen`), and each field is
  what the headers in front of that one say (`Says`). A header is decoded only at the next
  line that is no continuation: `ClosedSays` is the lemma that it is complete then
  (`ClosedLines`), and that decoding it makes the fields say what all lines so far do.

For later heads `LaterInv` says that nothing is known once a line of them is read, since
the end of the first head is never forgotten and each line takes away what there was.
It is why a code cannot be stale, and why one of a later exchange is told as unknown.

A function defined by recursion over a sequence needs induction. The induction theorems of the library
take an operator, so `UpTo` states the principle for the set of the numbers
a fact holds for, and proves it from the well-foundedness of the natural numbers.

### Service calls

`ServiceCallsProofs` proves `TypeOK`, `SuccessIsServers`, `FailureIsItsOwn`,
`StatusIsServers`, `RefIsOwn` and `OutputIsOwn` for every table `Api` whose rows
satisfy `RowOk`: whatever functions are added to the library, the properties
follow from the way they are written, not from the answers that happen to be in
a table. The properties speak of calls that have returned. The inductive invariants
say what is known on the way there:

* `ResultSoFar` - an answer is kept for extraction only with success, or with a code
  that comes with data; a call that extracts without an answer is one that did not
  look at the exchange, and it has failed already. This is what makes it safe that
  `isds_add_box()` and its like overwrite the result.
* `StatusSoFar`, `RefSoFar` - the property itself at every stage; they need
  `ResultSoFar` to know that a call has no answer before its exchange.
* `OutputSoFar` - before extraction nothing of this call is in the output, and
  nothing at all where the output is reset early.
* `HalfSoFar` - half an output comes only from an extraction that breaks off while it
  writes, so with an error that no accepted code stands for, and a function that
  frees on error frees it.

The last one gives, for every table, that half an output is left only by a row that writes
while it reads and does not free (`HalfOnlyUntidy`). For the library's table the rows are
then gone through (`LibraryIsTidy`), which gives `NothingPartial` (`PartialOnlyThere`).

`RowOk` demands that a code which comes with data stands for an error nothing
else in the row stands for, and that functions which do not look at the exchange
want something from the answer. Without the first, an error could not be told from
a truncated success; without the second, success could hide a failure.
`ApiAssumption` states this of `Api`; TLC evaluates it for the library's table in
`MCServices`. All five invariants were checked with TLC on that table before they
were proved.

### Sending messages

`SendingProofs` proves `TypeOK`, `IdsOwn`, `Accounted`, `FailureUntouched` and
`RequestWellFormed` for all sets of boxes, identifiers, messages and lists of recipients.
`IdsOwn`, `Accounted` and `FailureUntouched` speak of what the application holds, and what a call puts there depends on an
answer that depends on a request built from the same copies. The invariant
`SendingInv` follows this: `Addressed` - the request's recipients are those of the
copies, place by place, from the moment it is complete; `Told` - an identifier in
the answer, however defective, stands at the place of the recipient it was given
to; `Read` - the copies before the one being read show this attempt and nothing
of an earlier one, those after it are as the call found them; `HasStatus` - an
answer that is read has as many places as it had; `Untouched` - until the first
status is read, nothing has changed. `DefectiveKeepsPlaces` is the lemma the
matching rests on: cutting off, appending and blanking never move an identifier.

`RequestWellFormed` is about the files. While they go into the request one by one, `Filled`
says how many are there and where: with the main file at place `m` of those given (0 until
it comes), place `i` of the request holds the one given at `Place(i, m)`. `FileInserted`
keeps that for one more file, `OneMain` shows that an accepted hierarchy has one main
file in both lists together (so a second one can never be put in front of the first),
and `DocumentsFit` that identifiers found at their own places are unique and references
resolve. `PlaceOnto` turns the places into the permutation the property asks for.

### Contents

`ContentTransferProofs` proves `TypeOK`, `Arrives` and `WithinBuffer` for contents of
every length, lines of every length, blocks of every size and foreign characters
anywhere. None is inductive: between two bytes the server has part of a group,
and the encoder remembers bits that have not been sent. `EncodedSoFar` says which
bits those are, `DecodedSoFar` and `Decoded` the same of the decoder and its
byte begun; `PostedSoFar` that the place in the part is the number of bytes that
CURL has taken, also after going back. `Written` bounds what the encoder has written by the
bytes it has taken and the lines it has ended, from which two characters
for a byte and six more always suffice; `Over` says that a transfer that is over
has arrived.

The arithmetic of bit fields is in lemmas about single sextets and bytes: they are
the only place where `\div` and `%` are reasoned about.

### Multipart downloads

`XopDownloadProofs` proves `TypeOK` and `NoByteLost` for all responses, bytes, names of
headers and documents: no framing is assumed, and every byte may end a chunk. The
invariant `Inv` is `TypeOK` with

* `Bounded` - the boundary has its two hyphens, and the parser compares in front of its
  end: what it looks behind at fits;
* `Waiting` - before the body, and in one that is no multipart response, nothing is parsed;
* `InFront` - the run begins at or in front of the byte to be read and is empty at the
  end of the body (where CURL's last chunk ends); a content begins behind a line end;
* `NothingLost` and `OneCandidate` - of a content, the bytes gathered, held back and in the
  run stand in the body, and the only place in it where a delimiter may have begun
  is the one the parser looks behind at;
* `Ledger` - where the contents of the parts stand.

Each byte is one of three kinds (`ReadCases`): outside contents (`Elsewhere`), in one
(`Inside`), or the last of a delimiter (`BoundaryEndStep`); each kind has a lemma for the
bytes and one for the ledger.

`PartsDelimited` is stated for the proofs alone, because no run can evaluate it (it asks for functions into
the natural numbers): the parts in the list are disjoint pieces of the body in their order,
each from a line end to the first delimiter after it. This is where the parser
can be wrong without losing a byte: it gives up a supposed delimiter and goes on
with the *next* byte, which is right only if none begins inside the bytes given
up (`OneCandidate`). None does, because a delimiter begins with its only CR
- unless the boundary has a CR in it, and `Unbroken` says that it has not. (A
boundary taken from the last parameter of its header has, see Findings, and is
found nowhere anyway.) Only the last part may lack its delimiter, when the body
ends before it has room for one.

`XopArrivalProofs` proves `PartsArrive`, `NothingInvented` and `DownloadedAsSent` for every number of parts, headers
and bytes, every boundary and every way of cutting. `PartsArrive` holds nowhere in
between, so the invariant `Arriving` says where in the server's text the reader is while it
reads (`Somewhere`). Each place speaks of three things:

* what is *ahead*: the rest of the text, written as the server composed it - of the name of
  a header, of its value, of the content and of what follows them (`ColonLeft`, `ValueLeft`,
  `HeadersLeft`, `NextLeft`); there is one place for each state of the parser;
* what is *listed*: the parts in front, with the root found so far (`Listed`), where
  `Rank` counts those with an identifier;
* what is *held*: the headers of the part so far (`Reflects`: a field has the value of the
  first header of its name and is invalid once there is another), and the name and
  the value begun, of which the run may hold the latter half.

A step takes the first byte off what is ahead, and a lemma for each action says at which place
the reader is then (`ReadBodyArrives`); `NothingRefused` says that there is no byte it
cannot accept. Only a content is not followed byte by byte: what `XopDownloadProofs` says of it
is enough. Its bytes are in the body from its line end on, and no delimiter stood
there before (`OneCandidate`), so the first delimiter the parser finds is the first there is, which
by `Framable` is the one the server put behind the content (`WholeContent`); and a body that is
whole cannot end in front of it (`NoContentLeft`). If the body breaks off inside a content, what is
gathered is its beginning (`ContentBegins`), and that is all `BrokenOff` needs.
TLC checked `Arriving` on the responses of `MCXop` before it was proved.

`DownloadedAsSent` follows from `PartsArrive` and the phases behind the body (`Delivering`): what the
server means by a whole response is `Outcome`, which speaks of the parts sent, their
identifiers and order, while the library searches its list of the parts found. `Rank` is
onto that list and keeps the order (`RanksOrdered`), so the first listed part with an
identifier is the first that was sent with it (`FoundAsSent`), for the root as for the
attachment.

### Assumptions, and what is not proved

The assumptions are those the modules name: `CookieAssumption` and `LocationAssumption` (the value for
"no cookie" and "no URL" is neither a cookie nor a URL), `ReasonAssumption`, `MethodAssumption`, `KindAssumption`,
`AllocAssumption`, `ApiAssumption`; `NullAssumption`, `MessagesAssumption`,
`ListsAssumption` (null is none of the values, messages and lists are sequences of
files and boxes), `KindsAssumption` (a file is of the type of its list, as in C); `ContentsAssumption`, `LineGroupsAssumption`, `MaxBlockAssumption`,
`ForeignAssumption` (foreign characters have no value) and `MaxForeignAssumption`;
`AuthHeaders!NullAssumption`, `TokensAssumption` (a word is no white space), `ResolutionAssumption`
(message codes are texts) and `CallsAssumption` (a head ends at its first empty line, because an
exchange that breaks off inside one ends with CURL's error, and chunked trailers,
which the code does not support, are left out); `BytesAssumption` (letters and signs are bytes), `Multipart!NullAssumption`, `ResponsesAssumption` and
`DocumentsAssumption` (responses consist of texts, and a parsed document is one of the
outcomes the library knows).

`NamesAssumption` says that the names of the three headers that are kept differ and that letters are none of the
signs around them. `FramingAssumption` is what makes a response framed: its one Content-Type header announces
`multipart/related`, the boundary and the root in a way the library understands, and its body is its
parts, encoded, up to some byte - or there are no parts and neither a header nor
its type says `multipart/related`. It does not restrict what a server may send: a response that is
framed otherwise is one for which `framed` is false. `MeaningAssumption` holds the outcome that
goes with a whole response to `Outcome`, and TLC compares it with those that are written out in `MCXop`;
`TypesAssumption` says that `multipart/related` is neither the SOAP type nor no type.

Only model-checked: the liveness properties (`CallReturns`, `MepDecided`), which the prover cannot do: it has no
rules for fairness and ENABLED here. Every other property of a passing run is stated by a theorem.

## Not modelled

* XML building and extraction field by field, cryptography, memory ownership of
  results, platform layers, example clients: see the components in `PROJECT.json`
  with their reasons.
* The time zone: `_isds_timegm()` (`unix.c`) changes the environment of the process
  and changes it back. The code says that it is not safe with threads, and a
  model without threads shows nothing.
* Messages' hashes and signatures (`physxml.c`, `isds_verify_message_hash()`): one pass
  over a document that is looked at with an XML parser and a digest; what is
  compared with what is plain in the code.

## Plan

1. Marks in found texts (`interpret_matches()`): start and end marks as the server
   nests them.
2. An abstract contract of one service call, and `ServiceCalls` shown to implement
   it, by TLC and by proof.
