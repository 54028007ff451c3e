------------------------------ MODULE Sending ------------------------------
(***************************************************************************)
(* Sending a message: to one recipient (isds_send_message(),               *)
(* isds_CreateBigMessage()), whose identifier comes back in the envelope,  *)
(* or to several (isds_send_message_to_multiple_recipients()), whose       *)
(* identifiers come back in a list of copies the application keeps, and    *)
(* may use again for another attempt.                                      *)
(***************************************************************************)
EXTENDS Documents

CONSTANTS Box,          \* boxes a message can be sent to
          MsgId,        \* identifiers the server gives, each once
          Messages,     \* messages the application may want to send
          Lists         \* recipients it may address: sequences of boxes and Null

ASSUME NullAssumption ==
    Null \notin Guid \cup Box \cup MsgId \cup {"0000", "0004", "refused"}
ASSUME MessagesAssumption ==
    Messages \subseteq [fault : {"IE_SUCCESS", "IE_INVAL", "IE_TOO_BIG", "IE_TOO_SMALL"},
                        documents : Seq(File \cup {Null}),
                        extFiles : Seq(File \cup {Null})]
\* The type of a file is that of its list (struct isds_document, struct
\* isds_dmExtFile).
ASSUME KindsAssumption ==
    \A m \in Messages :
        /\ \A i \in DOMAIN m.documents :
             m.documents[i] # Null => m.documents[i].kind = "dmFile"
        /\ \A i \in DOMAIN m.extFiles :
             m.extFiles[i] # Null => m.extFiles[i].kind = "dmExtFile"
ASSUME ListsAssumption == Lists \subseteq Seq(Box \cup {Null})

VARIABLES copies,       \* the application's struct isds_message_copy, by place
          envelope,     \* recipient and identifier in the message's envelope
          request,      \* what the request holds so far
          call,         \* the call in progress
          reply,        \* the server's answer
          sent,         \* messages in the boxes of their recipients
          before        \* sent and copies when the call began (history)

vars == <<copies, envelope, request, call, reply, sent, before>>

Pc == {"idle", "recipients", "envelope", "documents", "extFiles", "send",
       "status", "copies", "identifier"}
Op == {"single", "big", "multiple"}
Transport == {"IE_NETWORK", "IE_ABORTED", "IE_SOAP"}
Refusal == {"IE_INVAL", "IE_ENUM", "IE_ERROR", "IE_TOO_BIG", "IE_TOO_SMALL",
            "IE_CONNECTION_CLOSED"}
Result == {"IE_SUCCESS", "IE_PARTIAL_SUCCESS", "IE_ISDS"} \cup Transport \cup Refusal

\* A copy without recipient stands also for a list item without a copy: both
\* keep the request from being sent.
Copy == [box : Box \cup {Null}, error : {"IE_SUCCESS", "IE_ISDS"},
         status : BOOLEAN, id : MsgId \cup {Null}]
FreshCopies(list) ==
    [i \in DOMAIN list |->
       [box |-> list[i], error |-> "IE_SUCCESS", status |-> FALSE, id |-> Null]]

Delivery == [id : MsgId, box : Box]
Status == [code : {"0000", "refused", Null}, id : MsgId \cup {Null}]
Empty == [recipients |-> <<>>, files |-> <<>>]
NoReply == [code |-> Null, statuses |-> <<>>]
NoMessage == [fault |-> "IE_INVAL", documents |-> <<>>, extFiles |-> <<>>]

Init ==
    /\ copies = <<>>
    /\ envelope = [box |-> Null, id |-> Null]
    /\ request = Empty
    /\ call = [pc |-> "idle", op |-> "single", message |-> NoMessage, i |-> 1,
               err |-> "IE_SUCCESS"]
    /\ reply = NoReply
    /\ sent = {}
    /\ before = [sent |-> {}, copies |-> <<>>]

----------------------------------------------------------------------------
(***************************************************************************)
(* The request                                                             *)
(***************************************************************************)

Goto(pc) == call' = [call EXCEPT !.pc = pc, !.i = 1]
Proceed == call' = [call EXCEPT !.i = @ + 1]
\* Request and response are freed on every way out; copies and envelope are not.
Return(err) ==
    /\ call' = [pc |-> "idle", op |-> call.op, message |-> NoMessage, i |-> 1, err |-> err]
    /\ request' = Empty
    /\ reply' = NoReply

\* A call begins with the copies and the envelope of an earlier call or with
\* new ones.  Nothing in them is reset.
Begin(op, message, held, addressed) ==
    /\ call.pc = "idle"
    /\ copies' = held
    /\ envelope' = addressed
    /\ before' = [sent |-> sent, copies |-> held]
    /\ request' = Empty
    /\ reply' = NoReply
    /\ call' \in
         IF message = Null \/ (op = "multiple" /\ held = <<>>)
         THEN {[pc |-> "idle", op |-> op, message |-> NoMessage, i |-> 1, err |-> "IE_INVAL"]}
         ELSE {[pc |-> "idle", op |-> op, message |-> message, i |-> 1,
                err |-> "IE_CONNECTION_CLOSED"],
               [pc |-> IF op = "multiple" THEN "recipients" ELSE "envelope", op |-> op,
                message |-> message, i |-> 1, err |-> "IE_SUCCESS"]}
    /\ UNCHANGED sent

\* Mutants: a copy without recipient goes into the request, or is passed over;
\* results of the earlier attempt are taken away before this one has any.
InsertRecipient_Unchecked ==
    /\ call.pc = "recipients"
    /\ IF call.i > Len(copies) THEN Goto("envelope") /\ UNCHANGED request
       ELSE /\ request' = [request EXCEPT !.recipients = Append(@, copies[call.i].box)]
            /\ Proceed
    /\ UNCHANGED <<copies, envelope, reply, sent, before>>
InsertRecipient_Skips ==
    /\ call.pc = "recipients"
    /\ IF call.i > Len(copies) THEN Goto("envelope") /\ UNCHANGED request
       ELSE /\ request' = IF copies[call.i].box = Null THEN request
                          ELSE [request EXCEPT !.recipients = Append(@, copies[call.i].box)]
            /\ Proceed
    /\ UNCHANGED <<copies, envelope, reply, sent, before>>
InsertRecipient_Clears ==
    /\ call.pc = "recipients"
    /\ IF call.i > Len(copies)
       THEN Goto("envelope") /\ UNCHANGED <<copies, request, reply>>
       ELSE IF copies[call.i].box = Null THEN Return("IE_INVAL") /\ UNCHANGED copies
       ELSE /\ request' = [request EXCEPT !.recipients = Append(@, copies[call.i].box)]
            /\ copies' = [copies EXCEPT ![call.i].id = Null]
            /\ Proceed /\ UNCHANGED reply
    /\ UNCHANGED <<envelope, sent, before>>

InsertRecipient ==
    /\ call.pc = "recipients"
    /\ IF call.i > Len(copies) THEN Goto("envelope") /\ UNCHANGED <<request, reply>>
       ELSE IF copies[call.i].box = Null THEN Return("IE_INVAL")
       ELSE /\ request' = [request EXCEPT !.recipients = Append(@, copies[call.i].box)]
            /\ Proceed /\ UNCHANGED reply
    /\ UNCHANGED <<copies, envelope, sent, before>>

\* What is wrong with the envelope or with the lists of files as a whole.
EnvelopeError ==
    LET m == call.message IN
    CASE m.fault = "IE_INVAL" -> "IE_INVAL"
      [] call.op # "multiple" /\ envelope.box = Null -> "IE_INVAL"
      [] m.fault # "IE_SUCCESS" -> m.fault
      [] call.op # "big" /\ m.extFiles # <<>> -> "IE_INVAL"
      [] OTHER -> CheckHierarchy(m.documents, m.extFiles)

InsertEnvelope ==
    /\ call.pc = "envelope"
    /\ IF EnvelopeError # "IE_SUCCESS" THEN Return(EnvelopeError)
       ELSE /\ Goto("documents")
            /\ request' = IF call.op = "multiple" THEN request
                          ELSE [request EXCEPT !.recipients = <<envelope.box>>]
            /\ UNCHANGED reply
    /\ UNCHANGED <<copies, envelope, sent, before>>

\* One file of a list goes into the request, or ends the call.
InsertNext(list, next) ==
    /\ IF call.i > Len(list) THEN Goto(next) /\ UNCHANGED <<request, reply>>
       ELSE IF list[call.i] = Null THEN Return("IE_INVAL")
       ELSE IF list[call.i].fault # "IE_SUCCESS" THEN Return(list[call.i].fault)
       ELSE /\ request' = [request EXCEPT !.files = InsertFile(@, list[call.i])]
            /\ Proceed /\ UNCHANGED reply
    /\ UNCHANGED <<copies, envelope, sent, before>>

InsertDocument == call.pc = "documents" /\ InsertNext(call.message.documents, "extFiles")
InsertExtFile == call.pc = "extFiles" /\ InsertNext(call.message.extFiles, "send")

----------------------------------------------------------------------------
(***************************************************************************)
(* The exchange.  The server gives every recipient an identifier or        *)
(* refuses it, and the answer says so, is defective, or gets lost.         *)
(***************************************************************************)

\* What becomes of the recipients: identifiers no message had before.
Decisions ==
    {ids \in [DOMAIN request.recipients -> MsgId \cup {Null}] :
       /\ \A i, j \in DOMAIN ids : ids[i] = ids[j] /\ ids[i] # Null => i = j
       /\ \A i \in DOMAIN ids : \A m \in sent : ids[i] # m.id}

Delivered(ids) ==
    {[id |-> ids[i], box |-> request.recipients[i]] : i \in {j \in DOMAIN ids : ids[j] # Null}}

Truthful(ids) ==
    [i \in DOMAIN ids |->
       [code |-> IF ids[i] = Null THEN "refused" ELSE "0000", id |-> ids[i]]]

\* Statuses that are too few or too many, without a code or an identifier.
Defective(statuses) ==
    {SubSeq(statuses, 1, n) : n \in 0..(Len(statuses) - 1)}
    \cup {Append(statuses, [code |-> "refused", id |-> Null])}
    \cup {[statuses EXCEPT ![i].code = Null] : i \in DOMAIN statuses}
    \cup {[statuses EXCEPT ![i].id = Null] : i \in DOMAIN statuses}

ReplyCode(ids) ==
    IF \A i \in DOMAIN ids : ids[i] # Null THEN "0000"
    ELSE IF \A i \in DOMAIN ids : ids[i] = Null THEN "refused"
    ELSE "0004"

Answers(ids) ==
    {[code |-> c, statuses |-> s] :
       c \in {ReplyCode(ids), Null}, s \in {Truthful(ids)} \cup Defective(Truthful(ids))}

NotReached ==
    /\ call.pc = "send"
    /\ \E err \in Transport : Return(err)
    /\ UNCHANGED <<copies, envelope, sent, before>>

Processed ==
    /\ call.pc = "send"
    /\ \E ids \in Decisions :
         /\ sent' = sent \cup Delivered(ids)
         /\ \/ reply' \in Answers(ids) /\ Goto("status") /\ UNCHANGED request
            \/ \E err \in Transport : Return(err)
    /\ UNCHANGED <<copies, envelope, before>>

----------------------------------------------------------------------------
(***************************************************************************)
(* The answer                                                              *)
(***************************************************************************)

CheckStatus ==
    /\ call.pc = "status"
    /\ IF \/ reply.statuses = <<>> \/ reply.code \in {"refused", Null}
          \/ call.op # "multiple" /\ (reply.code = "0004" \/ Len(reply.statuses) > 1)
       THEN Return("IE_ISDS")
       ELSE /\ call' = [call EXCEPT !.i = 1,
                          !.pc = IF call.op = "multiple" THEN "copies" ELSE "identifier",
                          !.err = IF reply.code = "0004" THEN "IE_PARTIAL_SUCCESS"
                                  ELSE "IE_SUCCESS"]
            /\ UNCHANGED <<request, reply>>
    /\ UNCHANGED <<copies, envelope, sent, before>>

\* Mutant: the old identifier is kept until there is a new one.
WithStatus_KeepsId(copy, status) ==
    CASE status.code = Null   -> copy
      [] status.code = "0000" -> [box |-> copy.box, error |-> "IE_SUCCESS",
                                  status |-> FALSE,
                                  id |-> IF status.id = Null THEN copy.id ELSE status.id]
      [] OTHER                -> [box |-> copy.box, error |-> "IE_ISDS",
                                  status |-> TRUE, id |-> copy.id]

\* A copy after its status has been read: the old identifier and description
\* go first, then comes what there is.
WithStatus(copy, status) ==
    CASE status.code = Null   -> [copy EXCEPT !.status = FALSE, !.id = Null]
      [] status.code = "0000" -> [box |-> copy.box, error |-> "IE_SUCCESS",
                                  status |-> FALSE, id |-> status.id]
      [] OTHER                -> [box |-> copy.box, error |-> "IE_ISDS",
                                  status |-> TRUE, id |-> Null]

Readable(status) == status.code # Null /\ (status.code = "0000" => status.id # Null)

AllRead == call.i > Len(copies) /\ call.i > Len(reply.statuses)

AppendStatus ==
    /\ call.pc = "copies"
    /\ call.i <= Len(copies) /\ call.i <= Len(reply.statuses)
    /\ copies' = [copies EXCEPT ![call.i] = WithStatus(@, reply.statuses[call.i])]
    /\ IF Readable(reply.statuses[call.i]) THEN Proceed /\ UNCHANGED <<request, reply>>
       ELSE Return("IE_ISDS")
    /\ UNCHANGED <<envelope, sent, before>>

CopiesRead ==
    /\ call.pc = "copies"
    /\ call.i > Len(copies) \/ call.i > Len(reply.statuses)
    /\ Return(IF AllRead THEN call.err ELSE "IE_ISDS")
    /\ UNCHANGED <<copies, envelope, sent, before>>

\* The identifier of a single message: an answer without one is a success too.
ReadIdentifier ==
    /\ call.pc = "identifier"
    /\ envelope' = [envelope EXCEPT !.id = reply.statuses[1].id]
    /\ Return("IE_SUCCESS")
    /\ UNCHANGED <<copies, sent, before>>

----------------------------------------------------------------------------
SendSingle ==
    \E op \in Op \ {"multiple"}, message \in Messages \cup {Null},
       addressed \in {envelope} \cup {[box |-> list[1], id |-> Null] :
                                       list \in {l \in Lists : Len(l) = 1}} :
         Begin(op, message, copies, addressed)

SendMultiple ==
    \E message \in Messages \cup {Null},
       held \in {copies} \cup {FreshCopies(list) : list \in Lists} :
         Begin("multiple", message, held, envelope)

Next ==
    \/ SendSingle \/ SendMultiple \/ InsertRecipient \/ InsertEnvelope \/ InsertDocument \/ InsertExtFile
    \/ NotReached \/ Processed
    \/ CheckStatus \/ AppendStatus \/ CopiesRead \/ ReadIdentifier

Spec == Init /\ [][Next]_vars

----------------------------------------------------------------------------
Idle == call.pc = "idle"

TypeOK ==
    /\ copies \in Seq(Copy)
    /\ envelope \in [box : Box \cup {Null}, id : MsgId \cup {Null}]
    /\ request \in [recipients : Seq(Box), files : Seq(File)]
    /\ call \in [pc : Pc, op : Op, message : Messages \cup {NoMessage}, i : Nat \ {0},
                 err : Result]
    /\ reply \in [code : {"0000", "0004", "refused", Null}, statuses : Seq(Status)]
    /\ sent \subseteq Delivery
    /\ before \in [sent : SUBSET Delivery, copies : Seq(Copy)]

\* An identifier the application finds with a recipient is that of a message
\* in the recipient's own box: of this attempt or, where the answer to this one
\* was lost, refused or truncated, of an earlier one (isds.c 12588-12600).
IdsOwn ==
    /\ \A i \in DOMAIN copies :
         copies[i].id # Null => [id |-> copies[i].id, box |-> copies[i].box] \in sent
    /\ envelope.id # Null => [id |-> envelope.id, box |-> envelope.box] \in sent

\* "ISDS_SUCCESS if all messages have been sent, ISDS_PARTIAL_SUCCESS if sending
\* of some messages has failed (failed and succeeded messages can be identified
\* by copies->data->error)": success and partial success account for every
\* message this call put into a box, with none of an earlier attempt among them.
Accounted ==
    Idle /\ call.op = "multiple" /\ call.err \in {"IE_SUCCESS", "IE_PARTIAL_SUCCESS"} =>
        LET done == {i \in DOMAIN copies : copies[i].error = "IE_SUCCESS"} IN
        /\ {[id |-> copies[i].id, box |-> copies[i].box] : i \in done} = sent \ before.sent
        /\ \A i, j \in done : copies[i].id = copies[j].id => i = j
        /\ \A i \in DOMAIN copies \ done : copies[i].id = Null
        /\ (call.err = "IE_SUCCESS") <=> (done = DOMAIN copies)

\* A call the library refuses sends nothing; and neither such a call nor one
\* that fails on the way takes from the application what it knows of its
\* earlier messages.
FailureUntouched ==
    Idle /\ call.err \in Refusal \cup Transport =>
        /\ copies = before.copies
        /\ call.err \in Refusal => sent = before.sent

\* What goes out is well-formed however the application ordered its files: all of
\* them, each once; the main one in front, the others in their order; identifiers
\* of documents unique and references resolved (_isds_check_documents_hierarchy(),
\* insert_document(), insert_ext_file()); and the recipients are those of the
\* copies, place by place, which is how the answer will be read.
RequestWellFormed ==
    call.pc = "send" =>
        LET files == request.files
            given == call.message.documents \o call.message.extFiles
            places == {i \in DOMAIN files : files[i].kind = "dmFile"}
        IN
        /\ files # <<>> /\ Len(files) = Len(given)
        /\ \A i \in DOMAIN files : files[i].main <=> i = 1
        /\ \E from \in [DOMAIN files -> DOMAIN given] :
             /\ \A i \in DOMAIN files : files[i] = given[from[i]]
             /\ \A k \in DOMAIN given : \E i \in DOMAIN files : from[i] = k
             /\ \A i, j \in DOMAIN files : 1 < i /\ i < j => from[i] < from[j]
        /\ \A i, j \in places :
             files[i].guid # Null /\ files[i].guid = files[j].guid => i = j
        /\ \A i \in places :
             files[i].up # Null => \E j \in places : files[j].guid = files[i].up
        /\ IF call.op = "multiple"
           THEN request.recipients = [i \in DOMAIN copies |-> copies[i].box]
           ELSE request.recipients = <<envelope.box>>

=============================================================================
