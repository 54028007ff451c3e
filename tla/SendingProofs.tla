--------------------------- MODULE SendingProofs ---------------------------
(***************************************************************************)
(* Theorems about Sending, for all boxes, identifiers, messages and lists  *)
(* of recipients.                                                          *)
(***************************************************************************)
EXTENDS Sending, SequenceTheorems, TLAPS

USE NullAssumption

-----------------------------------------------------------------------------
(***************************************************************************)
(* Lemmas about values.                                                    *)
(***************************************************************************)

LEMMA FreshCopiesType ==
    ASSUME NEW list \in Seq(Box \cup {Null})
    PROVE  FreshCopies(list) \in Seq(Copy)
<1>1. \A i \in DOMAIN list : list[i] \in Box \cup {Null}
    OBVIOUS
<1>2. FreshCopies(list) \in [1..Len(list) -> Copy]
    BY <1>1 DEF FreshCopies, Copy
<1>. QED  BY <1>2, Len(list) \in Nat

LEMMA InsertFileType ==
    ASSUME NEW files \in Seq(File), NEW file \in File
    PROVE  InsertFile(files, file) \in Seq(File)
BY DEF InsertFile

LEMMA HierarchyResult ==
    ASSUME NEW documents, NEW extFiles
    PROVE  CheckHierarchy(documents, extFiles) \in {"IE_SUCCESS", "IE_INVAL", "IE_ERROR"}
BY DEF CheckHierarchy

LEMMA WithStatusType ==
    ASSUME NEW copy \in Copy, NEW s \in Status
    PROVE  WithStatus(copy, s) \in Copy /\ WithStatus(copy, s).box = copy.box
BY DEF WithStatus, Copy, Status

LEMMA TruthfulType ==
    ASSUME NEW n \in Nat, NEW ids \in [1..n -> MsgId \cup {Null}]
    PROVE  Truthful(ids) \in Seq(Status)
<1>1. Truthful(ids) \in [1..n -> Status]
    BY DEF Truthful, Status
<1>. QED  BY <1>1

LEMMA DefectiveType ==
    ASSUME NEW s \in Seq(Status), NEW d \in Defective(s)
    PROVE  d \in Seq(Status)
<1>1. CASE \E n \in 0..(Len(s) - 1) : d = SubSeq(s, 1, n)
    BY <1>1
<1>2. CASE d = Append(s, [code |-> "refused", id |-> Null])
    BY <1>2 DEF Status
<1>3. CASE \E i \in DOMAIN s : d = [s EXCEPT ![i].code = Null]
  <2>1. PICK i \in DOMAIN s : d = [s EXCEPT ![i].code = Null]
      BY <1>3
  <2>2. \A x \in Status : [x EXCEPT !.code = Null] \in Status
      BY DEF Status
  <2>3. s[i] \in Status /\ s \in [1..Len(s) -> Status] /\ i \in 1..Len(s)
      OBVIOUS
  <2>4. d \in [1..Len(s) -> Status]
      BY <2>1, <2>2, <2>3
  <2>. QED  BY <2>4
<1>4. CASE \E i \in DOMAIN s : d = [s EXCEPT ![i].id = Null]
  <2>1. PICK i \in DOMAIN s : d = [s EXCEPT ![i].id = Null]
      BY <1>4
  <2>2. \A x \in Status : [x EXCEPT !.id = Null] \in Status
      BY DEF Status
  <2>3. s[i] \in Status /\ s \in [1..Len(s) -> Status] /\ i \in 1..Len(s)
      OBVIOUS
  <2>4. d \in [1..Len(s) -> Status]
      BY <2>1, <2>2, <2>3
  <2>. QED  BY <2>4
<1>. QED  BY <1>1, <1>2, <1>3, <1>4 DEF Defective

\* Whatever is wrong with an answer, an identifier in it stands at the place of
\* the recipient it was given to.
LEMMA DefectiveKeepsPlaces ==
    ASSUME NEW s \in Seq(Status), NEW d \in Defective(s), NEW i \in DOMAIN d, d[i].id # Null
    PROVE  i \in DOMAIN s /\ d[i].id = s[i].id
<1>1. CASE \E n \in 0..(Len(s) - 1) : d = SubSeq(s, 1, n)
    BY <1>1
<1>2. CASE d = Append(s, [code |-> "refused", id |-> Null])
    BY <1>2
<1>3. CASE \E k \in DOMAIN s : d = [s EXCEPT ![k].code = Null]
    BY <1>3 DEF Status
<1>4. CASE \E k \in DOMAIN s : d = [s EXCEPT ![k].id = Null]
    BY <1>4 DEF Status
<1>. QED  BY <1>1, <1>2, <1>3, <1>4 DEF Defective

-----------------------------------------------------------------------------
(***************************************************************************)
(* The type invariant.                                                     *)
(***************************************************************************)

Calls == [pc : Pc, op : Op, message : Messages \cup {NoMessage}, i : Nat \ {0}, err : Result]
Requests == [recipients : Seq(Box), files : Seq(File)]
Replies == [code : {"0000", "0004", "refused", Null}, statuses : Seq(Status)]

LEMMA CallSteps ==
    ASSUME call \in Calls
    PROVE  /\ \A pc \in Pc : Goto(pc) => call' \in Calls
           /\ Proceed => call' \in Calls
           /\ \A err \in Result :
                Return(err) => call' \in Calls /\ request' \in Requests /\ reply' \in Replies
<1>1. ASSUME NEW pc \in Pc, Goto(pc) PROVE call' \in Calls
  <2>1. call' = [pc |-> pc, op |-> call.op, message |-> call.message, i |-> 1, err |-> call.err]
      BY <1>1 DEF Calls, Goto
  <2>. QED  BY <2>1 DEF Calls
<1>2. ASSUME Proceed PROVE call' \in Calls
    BY <1>2 DEF Calls, Proceed
<1>3. ASSUME NEW err \in Result, Return(err)
      PROVE  call' \in Calls /\ request' \in Requests /\ reply' \in Replies
  <2>1. call' \in Calls
      BY <1>3 DEF Calls, Return, Pc
  <2>2. <<>> \in Seq(Box) /\ <<>> \in Seq(File) /\ <<>> \in Seq(Status)
      OBVIOUS
  <2>3. request' \in Requests
      BY <1>3, <2>2 DEF Return, Requests, Empty
  <2>4. reply' \in Replies
      BY <1>3, <2>2 DEF Return, Replies, NoReply
  <2>. QED  BY <2>1, <2>3, <2>4
<1>. QED  BY <1>1, <1>2, <1>3

LEMMA MessageParts ==
    ASSUME NEW m \in Messages \cup {NoMessage}
    PROVE  /\ m.documents \in Seq(File \cup {Null})
           /\ m.extFiles \in Seq(File \cup {Null})
           /\ m.fault \in {"IE_SUCCESS", "IE_INVAL", "IE_TOO_BIG", "IE_TOO_SMALL"}
<1>1. CASE m \in Messages
    BY <1>1, MessagesAssumption
<1>2. CASE m = NoMessage
  <2>1. <<>> \in Seq(File \cup {Null})
      OBVIOUS
  <2>. QED  BY <1>2, <2>1 DEF NoMessage
<1>. QED  BY <1>1, <1>2

LEMMA EnvelopeErrorType ==
    ASSUME call \in Calls
    PROVE  EnvelopeError \in Result
<1>1. call.message.fault \in Result
    BY MessageParts DEF Calls, Result, Refusal
<1>. QED  BY <1>1, HierarchyResult DEF EnvelopeError, Result, Refusal

LEMMA RecipientAdded ==
    ASSUME request \in Requests, NEW b \in Box
    PROVE  [request EXCEPT !.recipients = Append(@, b)] \in Requests
BY DEF Requests

LEMMA FileAdded ==
    ASSUME request \in Requests, NEW f \in File
    PROVE  [request EXCEPT !.files = InsertFile(@, f)] \in Requests
BY InsertFileType DEF Requests

LEMMA InsertNextType ==
    ASSUME call \in Calls, request \in Requests, reply \in Replies,
           NEW list \in Seq(File \cup {Null}), NEW pc \in Pc, InsertNext(list, pc)
    PROVE  call' \in Calls /\ request' \in Requests /\ reply' \in Replies
<1>1. CASE call.i > Len(list)
    BY <1>1, CallSteps DEF InsertNext
<1>2. CASE ~(call.i > Len(list))
  <2>0. call.i \in 1..Len(list)
      BY <1>2 DEF Calls
  <2>1. CASE list[call.i] = Null
    <3>1. Return("IE_INVAL")
        BY <1>2, <2>1 DEF InsertNext
    <3>. QED  BY <3>1, CallSteps DEF Result, Refusal
  <2>2. CASE list[call.i] # Null
    <3>1. list[call.i] \in File
        BY <2>0, <2>2
    <3>2. list[call.i].fault \in Result
        BY <3>1 DEF File, FileFault, Result, Refusal
    <3>3. CASE list[call.i].fault # "IE_SUCCESS"
        BY <1>2, <2>2, <3>2, <3>3, CallSteps DEF InsertNext
    <3>4. CASE list[call.i].fault = "IE_SUCCESS"
        BY <1>2, <2>2, <3>1, <3>4, CallSteps, FileAdded DEF InsertNext
    <3>. QED  BY <3>3, <3>4
  <2>. QED  BY <2>1, <2>2
<1>. QED  BY <1>1, <1>2

LEMMA DeliveredType ==
    ASSUME request \in Requests, NEW ids \in Decisions
    PROVE  /\ Delivered(ids) \subseteq Delivery
           /\ ids \in [1..Len(request.recipients) -> MsgId \cup {Null}]
           /\ Len(request.recipients) \in Nat
BY DEF Requests, Decisions, Delivered, Delivery

LEMMA AnswersType ==
    ASSUME request \in Requests, NEW ids \in Decisions, NEW a \in Answers(ids)
    PROVE  a \in Replies
<1>1. Truthful(ids) \in Seq(Status)
    BY DeliveredType, TruthfulType
<1>2. a.statuses \in Seq(Status)
    BY <1>1, DefectiveType DEF Answers
<1>3. ReplyCode(ids) \in {"0000", "0004", "refused", Null}
    BY DEF ReplyCode
<1>. QED  BY <1>2, <1>3 DEF Answers, Replies

LEMMA TypeSplit ==
    TypeOK <=> /\ copies \in Seq(Copy)
               /\ envelope \in [box : Box \cup {Null}, id : MsgId \cup {Null}]
               /\ request \in Requests /\ call \in Calls /\ reply \in Replies
               /\ sent \subseteq Delivery
               /\ before \in [sent : SUBSET Delivery, copies : Seq(Copy)]
BY DEF TypeOK, Requests, Calls, Replies

LEMMA BeginType ==
    ASSUME TypeOK, NEW op \in Op, NEW message \in Messages \cup {Null},
           NEW held \in Seq(Copy),
           NEW addressed \in [box : Box \cup {Null}, id : MsgId \cup {Null}],
           Begin(op, message, held, addressed)
    PROVE  TypeOK'
<1>1. call' \in Calls
    BY DEF Begin, Calls, Pc, Result, Refusal
<1>2. <<>> \in Seq(Box) /\ <<>> \in Seq(File) /\ <<>> \in Seq(Status)
    OBVIOUS
<1>3. request' \in Requests /\ reply' \in Replies
    BY <1>2 DEF Begin, Requests, Replies, Empty, NoReply
<1>4. before' \in [sent : SUBSET Delivery, copies : Seq(Copy)]
    BY TypeSplit DEF Begin
<1>. QED  BY <1>1, <1>3, <1>4, TypeSplit DEF Begin, TypeOK, Requests, Calls, Replies

\* An identifier is read only from an answer that has one element for it.
HasStatus == call.pc = "identifier" => reply.statuses # <<>>

LEMMA TypeStep ==
    ASSUME TypeOK, HasStatus, [Next]_vars
    PROVE  TypeOK'
<1>. USE TypeSplit
<1>1. CASE SendSingle
  <2>1. PICK op \in Op \ {"multiple"}, message \in Messages \cup {Null},
             addressed \in {envelope} \cup {[box |-> list[1], id |-> Null] :
                                             list \in {l \in Lists : Len(l) = 1}} :
                 Begin(op, message, copies, addressed)
      BY <1>1 DEF SendSingle
  <2>2. ASSUME NEW list \in Lists, Len(list) = 1 PROVE list[1] \in Box \cup {Null}
    <3>1. list \in Seq(Box \cup {Null})
        BY ListsAssumption
    <3>2. 1 \in 1..Len(list)
        BY <2>2
    <3>. QED  BY <3>1, <3>2
  <2>3. addressed \in [box : Box \cup {Null}, id : MsgId \cup {Null}]
      BY <2>2
  <2>. QED  BY <2>1, <2>3, BeginType
<1>2. CASE SendMultiple
  <2>1. PICK message \in Messages \cup {Null},
             held \in {copies} \cup {FreshCopies(list) : list \in Lists} :
                 Begin("multiple", message, held, envelope)
      BY <1>2 DEF SendMultiple
  <2>2. \A list \in Lists : FreshCopies(list) \in Seq(Copy)
      BY ListsAssumption, FreshCopiesType
  <2>3. held \in Seq(Copy)
      BY <2>2
  <2>. QED  BY <2>1, <2>3, BeginType DEF Op
<1>3. CASE InsertRecipient
  <2>1. request' \in Requests /\ call' \in Calls /\ reply' \in Replies
    <3>1. CASE call.i > Len(copies)
        BY <1>3, <3>1, CallSteps DEF InsertRecipient, Pc
    <3>2. CASE ~(call.i > Len(copies)) /\ copies[call.i].box = Null
        BY <1>3, <3>2, CallSteps DEF InsertRecipient, Result, Refusal
    <3>3. CASE ~(call.i > Len(copies)) /\ copies[call.i].box # Null
      <4>1. copies[call.i] \in Copy
          BY <3>3 DEF Calls
      <4>2. copies[call.i].box \in Box
          BY <3>3, <4>1 DEF Copy
      <4>. QED  BY <1>3, <3>3, <4>2, CallSteps, RecipientAdded DEF InsertRecipient
    <3>. QED  BY <3>1, <3>2, <3>3
  <2>. QED  BY <1>3, <2>1 DEF InsertRecipient, TypeOK, Requests, Calls, Replies
<1>4. CASE InsertEnvelope
  <2>1. request' \in Requests /\ call' \in Calls /\ reply' \in Replies
    <3>1. CASE EnvelopeError # "IE_SUCCESS"
        BY <1>4, <3>1, CallSteps, EnvelopeErrorType DEF InsertEnvelope
    <3>2. CASE EnvelopeError = "IE_SUCCESS"
      <4>1. call.op # "multiple" => envelope.box \in Box
          BY <3>2, MessageParts DEF EnvelopeError, Calls
      <4>2. call.op # "multiple" => <<envelope.box>> \in Seq(Box)
          BY <4>1
      <4>3. request' \in Requests
          BY <1>4, <3>2, <4>2 DEF InsertEnvelope, Requests
      <4>. QED  BY <1>4, <3>2, <4>3, CallSteps DEF InsertEnvelope, Pc
    <3>. QED  BY <3>1, <3>2
  <2>. QED  BY <1>4, <2>1 DEF InsertEnvelope, TypeOK, Requests, Calls, Replies
<1>5. CASE InsertDocument
  <2>1. request' \in Requests /\ call' \in Calls /\ reply' \in Replies
      BY <1>5, InsertNextType, MessageParts DEF InsertDocument, Calls, Pc
  <2>. QED  BY <1>5, <2>1 DEF InsertDocument, InsertNext, TypeOK, Requests, Calls, Replies
<1>6. CASE InsertExtFile
  <2>1. request' \in Requests /\ call' \in Calls /\ reply' \in Replies
      BY <1>6, InsertNextType, MessageParts DEF InsertExtFile, Calls, Pc
  <2>. QED  BY <1>6, <2>1 DEF InsertExtFile, InsertNext, TypeOK, Requests, Calls, Replies
<1>7. CASE NotReached
    BY <1>7, CallSteps DEF NotReached, Result, TypeOK, Requests, Calls, Replies
<1>8. CASE Processed
  <2>1. PICK ids \in Decisions :
             /\ sent' = sent \cup Delivered(ids)
             /\ \/ reply' \in Answers(ids) /\ Goto("status") /\ UNCHANGED request
                \/ \E err \in Transport : Return(err)
      BY <1>8 DEF Processed
  <2>2. sent' \subseteq Delivery
      BY <2>1, DeliveredType
  <2>3. request' \in Requests /\ call' \in Calls /\ reply' \in Replies
      BY <2>1, AnswersType, CallSteps DEF Pc, Result
  <2>. QED  BY <1>8, <2>2, <2>3 DEF Processed, TypeOK, Requests, Calls, Replies
<1>9. CASE CheckStatus
  <2>1. CASE Return("IE_ISDS")
      BY <1>9, <2>1, CallSteps DEF CheckStatus, Result, TypeOK, Requests, Calls, Replies
  <2>2. CASE ~Return("IE_ISDS")
    <3>1. call' = [pc |-> IF call.op = "multiple" THEN "copies" ELSE "identifier",
                   op |-> call.op, message |-> call.message, i |-> 1,
                   err |-> IF reply.code = "0004" THEN "IE_PARTIAL_SUCCESS"
                           ELSE "IE_SUCCESS"]
        BY <1>9, <2>2 DEF CheckStatus, Calls
    <3>2. call' \in Calls
        BY <3>1 DEF Calls, Pc, Result
    <3>. QED  BY <1>9, <2>2, <3>2 DEF CheckStatus, TypeOK, Requests, Calls, Replies
  <2>. QED  BY <2>1, <2>2
<1>10. CASE AppendStatus
  <2>1. call.i \in DOMAIN copies /\ call.i \in DOMAIN reply.statuses
      BY <1>10 DEF AppendStatus, Calls, Replies
  <2>2. WithStatus(copies[call.i], reply.statuses[call.i]) \in Copy
      BY <2>1, WithStatusType DEF Replies
  <2>3. copies' \in Seq(Copy)
      BY <1>10, <2>1, <2>2 DEF AppendStatus
  <2>4. request' \in Requests /\ call' \in Calls /\ reply' \in Replies
      BY <1>10, CallSteps DEF AppendStatus, Result
  <2>. QED  BY <1>10, <2>3, <2>4 DEF AppendStatus, TypeOK, Requests, Calls, Replies
<1>11. CASE CopiesRead
  <2>1. request' \in Requests /\ call' \in Calls /\ reply' \in Replies
    <3>1. call.err \in Result
        BY DEF Calls
    <3>. QED  BY <1>11, <3>1, CallSteps DEF CopiesRead, Result
  <2>. QED  BY <1>11, <2>1 DEF CopiesRead, TypeOK, Requests, Calls, Replies
<1>12. CASE ReadIdentifier
  <2>1. reply.statuses[1] \in Status
      BY <1>12 DEF ReadIdentifier, HasStatus, Replies
  <2>2. envelope' \in [box : Box \cup {Null}, id : MsgId \cup {Null}]
      BY <1>12, <2>1 DEF ReadIdentifier, Status
  <2>3. request' \in Requests /\ call' \in Calls /\ reply' \in Replies
      BY <1>12, CallSteps DEF ReadIdentifier, Result
  <2>. QED  BY <1>12, <2>2, <2>3 DEF ReadIdentifier, TypeOK, Requests, Calls, Replies
<1>13. CASE UNCHANGED vars
    BY <1>13 DEF vars, TypeOK, Requests, Calls, Replies
<1>. QED
    BY <1>1, <1>2, <1>3, <1>4, <1>5, <1>6, <1>7, <1>8, <1>9, <1>10, <1>11, <1>12, <1>13
    DEF Next

-----------------------------------------------------------------------------
(***************************************************************************)
(* What is known on the way.                                               *)
(***************************************************************************)

\* Recipients in the request stand where their copies stand.
Addressed ==
    /\ call.pc = "recipients" =>
         /\ call.op = "multiple"
         /\ call.i <= Len(copies) + 1
         /\ Len(request.recipients) = call.i - 1
         /\ \A k \in 1..(call.i - 1) : request.recipients[k] = copies[k].box
    /\ call.pc \in Pc \ {"idle", "recipients"} /\ call.op = "multiple" =>
         /\ Len(request.recipients) = Len(copies)
         /\ \A k \in 1..Len(copies) : request.recipients[k] = copies[k].box
    /\ call.pc \in Pc \ {"idle", "recipients", "envelope"} /\ call.op # "multiple" =>
         request.recipients = <<envelope.box>>
    /\ call.pc = "copies" => call.op = "multiple"
    /\ call.pc = "identifier" => call.op # "multiple"

\* The server's decision behind an answer.
Decided(ids) ==
    /\ ids \in [1..Len(request.recipients) -> MsgId \cup {Null}]
    /\ \A i, j \in DOMAIN ids : ids[i] = ids[j] /\ ids[i] # Null => i = j
    /\ \A i \in DOMAIN ids : \A m \in before.sent : ids[i] # m.id
    /\ sent = before.sent \cup Delivered(ids)
    /\ reply \in Answers(ids)

\* An answer tells, up to its defects, what became of this request.
Told == call.pc \in {"status", "copies", "identifier"} => \E ids : Decided(ids)

\* Copies before the current one hold what the answer says of them.
Read ==
    call.pc = "copies" =>
        /\ call.i <= Len(copies) + 1 /\ call.i <= Len(reply.statuses) + 1
        /\ \/ call.err = "IE_SUCCESS" /\ reply.code = "0000"
           \/ call.err = "IE_PARTIAL_SUCCESS" /\ reply.code = "0004"
        /\ \A k \in 1..(call.i - 1) :
             /\ Readable(reply.statuses[k])
             /\ reply.statuses[k].code = "0000" =>
                  copies[k].error = "IE_SUCCESS" /\ copies[k].id = reply.statuses[k].id
             /\ reply.statuses[k].code # "0000" =>
                  copies[k].error = "IE_ISDS" /\ copies[k].id = Null

\* Nothing has happened before the request goes out, and nothing to the copies
\* before an answer to it is read.
Untouched ==
    /\ call.pc \in Pc \ {"idle", "status", "copies", "identifier"} => sent = before.sent
    /\ call.pc \in Pc \ {"idle", "copies", "identifier"} => copies = before.copies

SendingInv ==
    /\ TypeOK /\ HasStatus /\ Addressed /\ Told /\ Read /\ Untouched
    /\ IdsOwn /\ Accounted /\ FailureUntouched

Results == HasStatus /\ Addressed /\ Told /\ Read /\ Untouched
Promises == IdsOwn /\ Accounted /\ FailureUntouched

LEMMA ReturnSettles ==
    ASSUME NEW err, Return(err)
    PROVE  /\ call'.pc = "idle" /\ call'.op = call.op /\ call'.err = err
           /\ Results'
BY DEF Return, Results, HasStatus, Addressed, Told, Read, Untouched, Pc

\* A call that ends without success keeps the promises.
LEMMA FailureKeeps ==
    ASSUME IdsOwn, NEW err, Return(err), UNCHANGED <<copies, envelope, before>>,
           sent \subseteq sent', err \notin {"IE_SUCCESS", "IE_PARTIAL_SUCCESS"},
           err \in Refusal \cup Transport => copies = before.copies,
           err \in Refusal => sent' = before.sent
    PROVE  Promises'
<1>1. call'.pc = "idle" /\ call'.err = err
    BY ReturnSettles
<1>2. IdsOwn'
    BY DEF IdsOwn
<1>3. Accounted'
    BY <1>1 DEF Accounted, Idle
<1>4. FailureUntouched'
    BY <1>1 DEF FailureUntouched, Idle
<1>. QED  BY <1>2, <1>3, <1>4 DEF Promises

\* A step within a call leaves what the application sees.
LEMMA OnwardKeeps ==
    ASSUME IdsOwn, UNCHANGED <<copies, envelope>>, sent \subseteq sent', call'.pc # "idle"
    PROVE  Promises'
BY DEF Promises, IdsOwn, Accounted, FailureUntouched, Idle

LEMMA BeginKeeps ==
    ASSUME TypeOK, NEW op \in Op, NEW message \in Messages \cup {Null}, NEW held \in Seq(Copy),
           NEW addressed, Begin(op, message, held, addressed),
           \A i \in DOMAIN held :
             held[i].id # Null => [id |-> held[i].id, box |-> held[i].box] \in sent,
           addressed.id # Null => [id |-> addressed.id, box |-> addressed.box] \in sent
    PROVE  Results' /\ Promises'
<1>1. /\ call'.op = op /\ call'.i = 1 /\ call'.pc \in {"idle", "recipients", "envelope"}
      /\ call'.pc = "idle" => call'.err \in {"IE_INVAL", "IE_CONNECTION_CLOSED"}
      /\ call'.pc = "recipients" => op = "multiple"
      /\ call'.pc = "envelope" => op # "multiple"
    BY DEF Begin
<1>2. copies' = held /\ envelope' = addressed /\ sent' = sent /\ request' = Empty
    BY DEF Begin
<1>3. before'.sent = sent /\ before'.copies = held
    BY DEF Begin
<1>4. IdsOwn'
    BY <1>2 DEF IdsOwn
<1>5. Accounted' /\ FailureUntouched'
    BY <1>1, <1>2, <1>3 DEF Accounted, FailureUntouched, Idle
<1>6. Addressed'
    BY <1>1, <1>2 DEF Addressed, Empty
<1>7. HasStatus' /\ Told' /\ Read' /\ Untouched'
    BY <1>1, <1>2, <1>3 DEF HasStatus, Told, Read, Untouched
<1>. QED  BY <1>4, <1>5, <1>6, <1>7 DEF Results, Promises

\* Before it sends, the library builds the request and nothing else.
LEMMA BuildingKeeps ==
    ASSUME SendingInv, InsertRecipient \/ InsertEnvelope \/ InsertDocument \/ InsertExtFile
    PROVE  Results' /\ Promises'
<1>. USE DEF SendingInv
<1>0. call \in Calls /\ request \in Requests /\ copies \in Seq(Copy)
    BY TypeSplit
<1>1. UNCHANGED <<copies, envelope, sent, before>>
    BY DEF InsertRecipient, InsertEnvelope, InsertDocument, InsertExtFile, InsertNext
<1>2. call.pc \in {"recipients", "envelope", "documents", "extFiles"}
    BY DEF InsertRecipient, InsertEnvelope, InsertDocument, InsertExtFile
<1>3. sent = before.sent /\ copies = before.copies
    BY <1>2 DEF Untouched, Pc
<1>4. ASSUME NEW err \in Refusal, Return(err) PROVE Results' /\ Promises'
    BY <1>1, <1>3, <1>4, ReturnSettles, FailureKeeps DEF Refusal, Transport
<1>5. EnvelopeError # "IE_SUCCESS" => EnvelopeError \in Refusal
  <2>1. call.message.fault \in {"IE_SUCCESS", "IE_INVAL", "IE_TOO_BIG", "IE_TOO_SMALL"}
      BY <1>0, MessageParts DEF Calls
  <2>. QED  BY <2>1, HierarchyResult DEF EnvelopeError, Refusal
<1>6. ASSUME call'.pc \in {"envelope", "documents", "extFiles", "send"}, call'.op = call.op,
             call.op = "multiple" =>
               /\ Len(request'.recipients) = Len(copies)
               /\ \A k \in 1..Len(copies) : request'.recipients[k] = copies[k].box,
             call.op # "multiple" =>
               call'.pc # "envelope" /\ request'.recipients = <<envelope.box>>
      PROVE  Results' /\ Promises'
  <2>1. Promises'
      BY <1>1, <1>6, OnwardKeeps
  <2>2. Addressed'
      BY <1>1, <1>6 DEF Addressed, Pc
  <2>3. HasStatus' /\ Told' /\ Read' /\ Untouched'
      BY <1>1, <1>3, <1>6 DEF HasStatus, Told, Read, Untouched, Pc
  <2>. QED  BY <2>1, <2>2, <2>3 DEF Results
<1>7. CASE InsertRecipient
  <2>0. call.op = "multiple" /\ call.i <= Len(copies) + 1
        /\ Len(request.recipients) = call.i - 1
        /\ \A k \in 1..(call.i - 1) : request.recipients[k] = copies[k].box
      BY <1>7 DEF InsertRecipient, Addressed
  <2>1. CASE call.i > Len(copies)
    <3>1. call' = [call EXCEPT !.pc = "envelope", !.i = 1] /\ request' = request
        BY <1>7, <2>1 DEF InsertRecipient, Goto
    <3>2. call'.pc = "envelope" /\ call'.op = call.op
        BY <3>1, <1>0 DEF Calls
    <3>3. call.i - 1 = Len(copies)
        BY <2>0, <2>1, <1>0 DEF Calls
    <3>. QED  BY <3>1, <3>2, <3>3, <2>0, <1>6
  <2>2. CASE ~(call.i > Len(copies)) /\ copies[call.i].box = Null
    <3>1. Return("IE_INVAL")
        BY <1>7, <2>2 DEF InsertRecipient
    <3>. QED  BY <3>1, <1>4 DEF Refusal
  <2>3. CASE ~(call.i > Len(copies)) /\ copies[call.i].box # Null
    <3>1. /\ request' = [request EXCEPT !.recipients = Append(@, copies[call.i].box)]
          /\ call' = [call EXCEPT !.i = @ + 1]
        BY <1>7, <2>3 DEF InsertRecipient, Proceed
    <3>2. call'.pc = "recipients" /\ call'.op = "multiple" /\ call'.i = call.i + 1
        BY <3>1, <2>0, <1>0, <1>7 DEF Calls, InsertRecipient
    <3>3. copies[call.i].box \in Box
      <4>1. copies[call.i] \in Copy
          BY <2>3, <1>0 DEF Calls
      <4>. QED  BY <4>1, <2>3 DEF Copy
    <3>4. request'.recipients = Append(request.recipients, copies[call.i].box)
        BY <3>1, <1>0 DEF Requests
    <3>5. /\ Len(request'.recipients) = call'.i - 1
          /\ \A k \in 1..(call'.i - 1) : request'.recipients[k] = copies[k].box
        BY <3>2, <3>3, <3>4, <2>0, <1>0 DEF Calls, Requests
    <3>6. call'.i <= Len(copies) + 1
        BY <2>3, <3>2, <1>0 DEF Calls
    <3>7. Addressed'
        BY <1>1, <3>2, <3>5, <3>6 DEF Addressed
    <3>8. HasStatus' /\ Told' /\ Read' /\ Untouched'
        BY <1>1, <1>3, <3>2 DEF HasStatus, Told, Read, Untouched, Pc
    <3>9. Promises'
        BY <1>1, <3>2, OnwardKeeps
    <3>. QED  BY <3>7, <3>8, <3>9 DEF Results
  <2>. QED  BY <2>1, <2>2, <2>3
<1>8. CASE InsertEnvelope
  <2>1. CASE EnvelopeError # "IE_SUCCESS"
      BY <1>8, <2>1, <1>4, <1>5 DEF InsertEnvelope
  <2>2. CASE EnvelopeError = "IE_SUCCESS"
    <3>1. /\ call' = [call EXCEPT !.pc = "documents", !.i = 1]
          /\ request' = IF call.op = "multiple" THEN request
                        ELSE [request EXCEPT !.recipients = <<envelope.box>>]
        BY <1>8, <2>2 DEF InsertEnvelope, Goto
    <3>2. call'.pc = "documents" /\ call'.op = call.op
        BY <3>1, <1>0 DEF Calls
    <3>3. call.op # "multiple" => request'.recipients = <<envelope.box>>
        BY <3>1, <1>0 DEF Requests
    <3>4. call.op = "multiple" =>
            /\ Len(request'.recipients) = Len(copies)
            /\ \A k \in 1..Len(copies) : request'.recipients[k] = copies[k].box
        BY <1>8, <3>1 DEF InsertEnvelope, Addressed, Pc
    <3>. QED  BY <3>2, <3>3, <3>4, <1>6
  <2>. QED  BY <2>1, <2>2
<1>9. ASSUME NEW list \in Seq(File \cup {Null}), NEW next \in {"extFiles", "send"},
             call.pc \in {"documents", "extFiles"}, InsertNext(list, next)
      PROVE  Results' /\ Promises'
  <2>1. CASE Goto(next) /\ UNCHANGED <<request, reply>>
    <3>1. call'.pc = next /\ call'.op = call.op
        BY <2>1, <1>0 DEF Goto, Calls
    <3>. QED  BY <2>1, <3>1, <1>6, <1>9 DEF Addressed, Pc
  <2>2. CASE ~(call.i > Len(list)) /\ list[call.i] = Null
      BY <2>2, <1>9, <1>4 DEF InsertNext, Refusal
  <2>3. CASE ~(call.i > Len(list)) /\ list[call.i] # Null /\ list[call.i].fault # "IE_SUCCESS"
    <3>0. call.i \in 1..Len(list)
        BY <1>0, <2>3 DEF Calls
    <3>1. list[call.i] \in File
        BY <3>0, <2>3, <1>9
    <3>2. list[call.i].fault \in Refusal
        BY <3>1, <2>3 DEF File, FileFault, Refusal
    <3>3. Return(list[call.i].fault)
        BY <1>9, <2>3 DEF InsertNext
    <3>. QED  BY <3>2, <3>3, <1>4
  <2>4. CASE ~(call.i > Len(list)) /\ list[call.i] # Null /\ list[call.i].fault = "IE_SUCCESS"
    <3>1. /\ request' = [request EXCEPT !.files = InsertFile(@, list[call.i])]
          /\ call' = [call EXCEPT !.i = @ + 1]
        BY <1>9, <2>4 DEF InsertNext, Proceed
    <3>2. call'.pc = call.pc /\ call'.op = call.op
        BY <3>1, <1>0 DEF Calls
    <3>3. request'.recipients = request.recipients
        BY <3>1, <1>0 DEF Requests
    <3>. QED  BY <3>2, <3>3, <1>6, <1>9 DEF Addressed, Pc
  <2>. QED  BY <2>1, <2>2, <2>3, <2>4, <1>9 DEF InsertNext
<1>10. CASE InsertDocument \/ InsertExtFile
    BY <1>10, <1>9, <1>0, MessageParts DEF InsertDocument, InsertExtFile, Calls
<1>. QED  BY <1>7, <1>8, <1>10

-----------------------------------------------------------------------------
(***************************************************************************)
(* The exchange and the answer.                                            *)
(***************************************************************************)

LEMMA DecisionsAreFresh ==
    ASSUME request \in Requests, sent = before.sent, NEW ids \in Decisions
    PROVE  /\ ids \in [1..Len(request.recipients) -> MsgId \cup {Null}]
           /\ \A i, j \in DOMAIN ids : ids[i] = ids[j] /\ ids[i] # Null => i = j
           /\ \A i \in DOMAIN ids : \A m \in before.sent : ids[i] # m.id
BY DEF Decisions, Requests

LEMMA ExchangeKeeps ==
    ASSUME SendingInv, NotReached \/ Processed
    PROVE  Results' /\ Promises'
<1>. USE DEF SendingInv
<1>0. call \in Calls /\ request \in Requests
    BY TypeSplit
<1>1. call.pc = "send" /\ UNCHANGED <<copies, envelope, before>>
    BY DEF NotReached, Processed
<1>2. sent = before.sent /\ copies = before.copies
    BY <1>1 DEF Untouched, Pc
<1>3. ASSUME NEW err \in Transport, Return(err), sent \subseteq sent'
      PROVE  Results' /\ Promises'
    BY <1>1, <1>2, <1>3, ReturnSettles, FailureKeeps DEF Transport, Refusal
<1>4. CASE NotReached
    BY <1>3, <1>4 DEF NotReached
<1>5. CASE Processed
  <2>1. PICK ids \in Decisions :
             /\ sent' = sent \cup Delivered(ids)
             /\ \/ reply' \in Answers(ids) /\ Goto("status") /\ UNCHANGED request
                \/ \E err \in Transport : Return(err)
      BY <1>5 DEF Processed
  <2>2. CASE \E err \in Transport : Return(err)
      BY <2>1, <2>2, <1>3
  <2>3. CASE reply' \in Answers(ids) /\ Goto("status") /\ UNCHANGED request
    <3>1. call'.pc = "status" /\ call'.op = call.op
        BY <2>3, <1>0 DEF Goto, Calls
    <3>2. Decided(ids)'
      <4>1. (Delivered(ids))' = Delivered(ids) /\ (Answers(ids))' = Answers(ids)
          BY <2>3 DEF Delivered, Answers, Truthful, Defective, ReplyCode
      <4>. QED  BY <4>1, <1>0, <1>1, <1>2, <2>1, <2>3, DecisionsAreFresh DEF Decided
    <3>3. Told'
        BY <3>2 DEF Told
    <3>4. Addressed'
        BY <1>1, <2>3, <3>1 DEF Addressed, Pc
    <3>5. HasStatus' /\ Read' /\ Untouched'
        BY <1>1, <1>2, <3>1 DEF HasStatus, Read, Untouched, Pc
    <3>6. Promises'
        BY <1>1, <2>1, <3>1, OnwardKeeps
    <3>. QED  BY <3>3, <3>4, <3>5, <3>6 DEF Results
  <2>. QED  BY <2>1, <2>2, <2>3
<1>. QED  BY <1>4, <1>5

LEMMA DecidedKept ==
    ASSUME NEW ids, Decided(ids), UNCHANGED <<request, reply, sent, before>>
    PROVE  Decided(ids)'
<1>1. Delivered(ids)' = Delivered(ids)
    BY DEF Delivered
<1>. QED  BY <1>1 DEF Decided

LEMMA CheckKeeps ==
    ASSUME SendingInv, CheckStatus
    PROVE  Results' /\ Promises'
<1>. USE DEF SendingInv
<1>0. call \in Calls /\ request \in Requests /\ reply \in Replies
    BY TypeSplit
<1>1. call.pc = "status" /\ UNCHANGED <<copies, envelope, sent, before>>
    BY DEF CheckStatus
<1>2. CASE Return("IE_ISDS")
    BY <1>1, <1>2, ReturnSettles, FailureKeeps DEF Refusal, Transport
<1>3. CASE ~Return("IE_ISDS")
  <2>1. /\ call' = [call EXCEPT !.i = 1,
                      !.pc = IF call.op = "multiple" THEN "copies" ELSE "identifier",
                      !.err = IF reply.code = "0004" THEN "IE_PARTIAL_SUCCESS"
                              ELSE "IE_SUCCESS"]
        /\ UNCHANGED <<request, reply>>
        /\ reply.statuses # <<>> /\ reply.code \notin {"refused", Null}
      BY <1>3 DEF CheckStatus
  <2>2. /\ call'.pc = IF call.op = "multiple" THEN "copies" ELSE "identifier"
        /\ call'.op = call.op /\ call'.i = 1
        /\ call'.err = IF reply.code = "0004" THEN "IE_PARTIAL_SUCCESS" ELSE "IE_SUCCESS"
      BY <2>1, <1>0 DEF Calls
  <2>3. reply.code \in {"0000", "0004"}
      BY <2>1, <1>0 DEF Replies
  <2>4. Told'
    <3>1. PICK ids : Decided(ids)
        BY <1>1 DEF Told
    <3>2. Decided(ids)'
        BY <3>1, <2>1, <1>1, DecidedKept
    <3>. QED  BY <3>2 DEF Told
  <2>5. Addressed'
      BY <1>1, <2>1, <2>2 DEF Addressed, Pc
  <2>6. Read'
    <3>1. Len(copies) \in Nat /\ Len(reply.statuses) \in Nat
        BY <1>0, TypeSplit DEF Replies
    <3>. QED  BY <1>1, <2>1, <2>2, <2>3, <3>1 DEF Read
  <2>7. HasStatus' /\ Untouched'
      BY <1>1, <2>1, <2>2 DEF HasStatus, Untouched, Pc
  <2>8. Promises'
      BY <1>1, <2>2, OnwardKeeps
  <2>. QED  BY <2>4, <2>5, <2>6, <2>7, <2>8 DEF Results
<1>. QED  BY <1>2, <1>3

\* The identifier in a status is that of the message for the recipient at the
\* same place.
LEMMA StatusOwn ==
    ASSUME request \in Requests, NEW ids, Decided(ids), NEW k \in DOMAIN reply.statuses,
           reply.statuses[k].id # Null
    PROVE  /\ k \in DOMAIN request.recipients
           /\ [id |-> reply.statuses[k].id, box |-> request.recipients[k]] \in sent
<1>1. Len(request.recipients) \in Nat /\ DOMAIN ids = 1..Len(request.recipients)
    BY DEF Requests, Decided
<1>2. Truthful(ids) \in Seq(Status)
    BY <1>1, TruthfulType DEF Decided
<1>3. reply.statuses \in {Truthful(ids)} \cup Defective(Truthful(ids))
    BY DEF Decided, Answers
<1>4. k \in DOMAIN Truthful(ids) /\ reply.statuses[k].id = Truthful(ids)[k].id
    BY <1>2, <1>3, DefectiveKeepsPlaces
<1>5. k \in DOMAIN ids /\ reply.statuses[k].id = ids[k]
    BY <1>4 DEF Truthful
<1>6. [id |-> ids[k], box |-> request.recipients[k]] \in Delivered(ids)
    BY <1>5 DEF Delivered
<1>. QED  BY <1>1, <1>5, <1>6 DEF Decided, Requests

LEMMA AppendKeeps ==
    ASSUME SendingInv, AppendStatus
    PROVE  Results' /\ Promises'
<1>. USE DEF SendingInv
<1>0. /\ call \in Calls /\ request \in Requests /\ reply \in Replies
      /\ copies \in Seq(Copy) /\ Len(copies) \in Nat
    BY TypeSplit
<1> DEFINE s == reply.statuses[call.i]
           c == copies[call.i]
<1>1. /\ call.pc = "copies" /\ call.op = "multiple"
      /\ call.i \in 1..Len(copies) /\ call.i \in DOMAIN reply.statuses
      /\ copies' = [copies EXCEPT ![call.i] = WithStatus(c, s)]
      /\ UNCHANGED <<envelope, sent, before>>
    BY <1>0 DEF AppendStatus, Addressed, Calls, Replies
<1>2. c \in Copy /\ s \in Status
    BY <1>0, <1>1 DEF Replies
<1>3. WithStatus(c, s).box = c.box
    BY <1>2, WithStatusType
<1>4. PICK ids : Decided(ids)
    BY <1>1 DEF Told
<1>5. s.id # Null => [id |-> s.id, box |-> c.box] \in sent
  <2>1. request.recipients[call.i] = c.box
      BY <1>1 DEF Addressed, Pc
  <2>. QED  BY <1>0, <1>1, <1>4, <2>1, StatusOwn
<1>6. WithStatus(c, s).id # Null =>
        [id |-> WithStatus(c, s).id, box |-> WithStatus(c, s).box] \in sent
    BY <1>2, <1>3, <1>5 DEF WithStatus, Copy
<1>. HIDE DEF s, c
<1>7. /\ Len(copies') = Len(copies) /\ DOMAIN copies' = 1..Len(copies)
      /\ copies'[call.i] = WithStatus(c, s)
      /\ \A k \in 1..Len(copies) : k # call.i => copies'[k] = copies[k]
    BY <1>0, <1>1
<1>8. \A k \in 1..Len(copies) : copies'[k].box = copies[k].box
    BY <1>3, <1>7 DEF c
<1>9. IdsOwn'
    BY <1>0, <1>1, <1>6, <1>7 DEF IdsOwn
<1>10. CASE Return("IE_ISDS")
  <2>1. call'.pc = "idle" /\ call'.err = "IE_ISDS" /\ Results'
      BY <1>10, ReturnSettles
  <2>. QED  BY <2>1, <1>9 DEF Promises, Accounted, FailureUntouched, Idle, Refusal, Transport
<1>11. CASE Readable(s) /\ Proceed /\ UNCHANGED <<request, reply>>
  <2>1. call'.pc = "copies" /\ call'.op = "multiple" /\ call'.i = call.i + 1 /\ call'.err = call.err
      BY <1>0, <1>1, <1>11 DEF Proceed, Calls
  <2>2. Addressed'
      BY <1>1, <1>7, <1>8, <1>11, <2>1 DEF Addressed, Pc
  <2>3. Decided(ids)'
      BY <1>1, <1>4, <1>11, DecidedKept
  <2>4. Told'
      BY <2>3 DEF Told
  <2>5. /\ s.code = "0000" => WithStatus(c, s).error = "IE_SUCCESS" /\ WithStatus(c, s).id = s.id
        /\ s.code # "0000" => WithStatus(c, s).error = "IE_ISDS" /\ WithStatus(c, s).id = Null
      BY <1>11, <1>2 DEF WithStatus, Readable, Status
  <2>6. Len(reply.statuses) \in Nat /\ call.i \in Nat /\ call.i <= Len(reply.statuses)
      BY <1>0, <1>1 DEF Replies
  <2>7. ASSUME NEW k \in 1..(call'.i - 1)
        PROVE  /\ Readable(reply'.statuses[k])
               /\ reply'.statuses[k].code = "0000" =>
                    copies'[k].error = "IE_SUCCESS" /\ copies'[k].id = reply'.statuses[k].id
               /\ reply'.statuses[k].code # "0000" =>
                    copies'[k].error = "IE_ISDS" /\ copies'[k].id = Null
    <3>1. CASE k = call.i
        BY <3>1, <1>7, <1>11, <2>5 DEF s
    <3>2. CASE k # call.i
      <4>1. k \in 1..(call.i - 1) /\ k \in 1..Len(copies)
          BY <3>2, <2>1, <2>6, <1>1
      <4>. QED  BY <3>2, <4>1, <1>1, <1>7, <1>11 DEF Read
    <3>. QED  BY <3>1, <3>2
  <2>8. Read'
      BY <1>1, <1>7, <1>11, <2>1, <2>6, <2>7 DEF Read
  <2>9. HasStatus' /\ Untouched'
      BY <2>1 DEF HasStatus, Untouched, Pc
  <2>10. Promises'
      BY <1>9, <2>1 DEF Promises, Accounted, FailureUntouched, Idle
  <2>. QED  BY <2>2, <2>4, <2>8, <2>9, <2>10 DEF Results
<1>. QED  BY <1>10, <1>11 DEF AppendStatus, s

-----------------------------------------------------------------------------
\* An answer that can be read to its end, and is as long as it should be, is
\* the whole truth.
LEMMA ReadableIsTruthful ==
    ASSUME NEW t \in Seq(Status), NEW d \in Defective(t), Len(d) = Len(t),
           \A i \in DOMAIN d : Readable(d[i]),
           \A i \in DOMAIN t : t[i].code # Null /\ (t[i].code # "0000" => t[i].id = Null)
    PROVE  d = t
<1>1. CASE \E n \in 0..(Len(t) - 1) : d = SubSeq(t, 1, n)
    BY <1>1
<1>2. CASE d = Append(t, [code |-> "refused", id |-> Null])
    BY <1>2
<1>3. CASE \E i \in DOMAIN t : d = [t EXCEPT ![i].code = Null]
  <2>1. PICK i \in DOMAIN t : d = [t EXCEPT ![i].code = Null]
      BY <1>3
  <2>2. i \in DOMAIN d /\ d[i] = [t[i] EXCEPT !.code = Null]
      BY <2>1
  <2>3. t[i] \in Status
      BY <2>1
  <2>4. d[i].code = Null
      BY <2>2, <2>3 DEF Status
  <2>. QED  BY <2>2, <2>4 DEF Readable
<1>4. CASE \E i \in DOMAIN t : d = [t EXCEPT ![i].id = Null]
  <2>1. PICK i \in DOMAIN t : d = [t EXCEPT ![i].id = Null]
      BY <1>4
  <2>0. t[i] \in Status
      BY <2>1
  <2>6. i \in DOMAIN d /\ d[i] = [t[i] EXCEPT !.id = Null]
      BY <2>1
  <2>2. i \in DOMAIN d /\ d[i].code = t[i].code /\ d[i].id = Null
      BY <2>0, <2>6 DEF Status
  <2>3. t[i].id = Null
      BY <2>2 DEF Readable
  <2>4. [t[i] EXCEPT !.id = Null] = t[i]
      BY <2>0, <2>3 DEF Status
  <2>5. d = [t EXCEPT ![i] = t[i]]
      BY <2>1, <2>4
  <2>. QED  BY <2>5
<1>. QED  BY <1>1, <1>2, <1>3, <1>4 DEF Defective

LEMMA CopiesAccounted ==
    ASSUME SendingInv, call.pc = "copies", AllRead
    PROVE  LET done == {i \in DOMAIN copies : copies[i].error = "IE_SUCCESS"} IN
           /\ {[id |-> copies[i].id, box |-> copies[i].box] : i \in done} = sent \ before.sent
           /\ \A i, j \in done : copies[i].id = copies[j].id => i = j
           /\ \A i \in DOMAIN copies \ done : copies[i].id = Null
           /\ (call.err = "IE_SUCCESS") <=> (done = DOMAIN copies)
<1>. USE DEF SendingInv
<1>0. /\ call \in Calls /\ request \in Requests /\ reply \in Replies
      /\ copies \in Seq(Copy) /\ Len(copies) \in Nat /\ DOMAIN copies = 1..Len(copies)
      /\ reply.statuses \in Seq(Status) /\ Len(reply.statuses) \in Nat
    BY TypeSplit DEF Replies
<1>1. call.op = "multiple" /\ Len(request.recipients) = Len(copies)
      /\ \A k \in 1..Len(copies) : request.recipients[k] = copies[k].box
    BY DEF Addressed, Pc
<1>2. call.i - 1 = Len(copies) /\ Len(reply.statuses) = Len(copies)
    BY <1>0 DEF Read, AllRead, Calls
<1>3. PICK ids : Decided(ids)
    BY DEF Told
<1>4. ids \in [1..Len(copies) -> MsgId \cup {Null}]
    BY <1>1, <1>3 DEF Decided
<1>5. reply.statuses = Truthful(ids)
  <2>0. DOMAIN Truthful(ids) = 1..Len(copies)
      BY <1>4 DEF Truthful
  <2>1. Truthful(ids) \in Seq(Status) /\ Len(Truthful(ids)) = Len(copies)
      BY <1>0, <1>4, <2>0, TruthfulType
  <2>2. \A i \in DOMAIN Truthful(ids) :
            /\ Truthful(ids)[i].code # Null
            /\ Truthful(ids)[i].code # "0000" => Truthful(ids)[i].id = Null
      BY DEF Truthful
  <2>3. \A i \in DOMAIN reply.statuses : Readable(reply.statuses[i])
      BY <1>0, <1>2 DEF Read
  <2>4. reply.statuses \in {Truthful(ids)} \cup Defective(Truthful(ids))
      BY <1>3 DEF Decided, Answers
  <2>. QED  BY <1>2, <2>1, <2>2, <2>3, <2>4, ReadableIsTruthful
<1>6. \A k \in 1..Len(copies) :
        /\ copies[k].id = ids[k]
        /\ (copies[k].error = "IE_SUCCESS") <=> (ids[k] # Null)
  <2>1. ASSUME NEW k \in 1..Len(copies)
        PROVE  /\ copies[k].id = ids[k]
               /\ (copies[k].error = "IE_SUCCESS") <=> (ids[k] # Null)
    <3>1. reply.statuses[k] =
            [code |-> IF ids[k] = Null THEN "refused" ELSE "0000", id |-> ids[k]]
        BY <1>4, <1>5 DEF Truthful
    <3>2. k \in 1..(call.i - 1)
        BY <1>2
    <3>. QED  BY <3>1, <3>2 DEF Read
  <2>. QED  BY <2>1
<1>7. Delivered(ids) = {[id |-> copies[i].id, box |-> copies[i].box] :
                          i \in {j \in DOMAIN copies : copies[j].error = "IE_SUCCESS"}}
    BY <1>0, <1>1, <1>4, <1>6 DEF Delivered
<1>8. sent \ before.sent = Delivered(ids)
  <2>1. \A m \in Delivered(ids) : m \notin before.sent
      BY <1>3 DEF Delivered, Decided
  <2>. QED  BY <1>3, <2>1 DEF Decided
<1>9. reply.code = ReplyCode(ids)
  <2>1. reply.code \in {ReplyCode(ids), Null}
      BY <1>3 DEF Decided, Answers
  <2>. QED  BY <2>1 DEF Read
<1>10. (call.err = "IE_SUCCESS") <=> (\A i \in DOMAIN ids : ids[i] # Null)
    BY <1>9 DEF Read, ReplyCode
<1>11. \A i, j \in DOMAIN ids : ids[i] = ids[j] /\ ids[i] # Null => i = j
    BY <1>3 DEF Decided
<1>. QED  BY <1>0, <1>4, <1>6, <1>7, <1>8, <1>10, <1>11

LEMMA ReadingKeeps ==
    ASSUME SendingInv, CopiesRead \/ ReadIdentifier
    PROVE  Results' /\ Promises'
<1>. USE DEF SendingInv
<1>0. call \in Calls /\ request \in Requests /\ reply \in Replies
    BY TypeSplit
<1>1. CASE CopiesRead /\ ~AllRead
  <2>1. Return("IE_ISDS") /\ UNCHANGED <<copies, envelope, sent, before>>
      BY <1>1 DEF CopiesRead
  <2>. QED  BY <2>1, ReturnSettles, FailureKeeps DEF Refusal, Transport
<1>2. CASE CopiesRead /\ AllRead
  <2>1. Return(call.err) /\ UNCHANGED <<copies, envelope, sent, before>> /\ call.pc = "copies"
      BY <1>2 DEF CopiesRead
  <2>2. call'.pc = "idle" /\ call'.err = call.err /\ Results'
      BY <2>1, ReturnSettles
  <2>3. Accounted'
      BY <1>2, <2>1, <2>2, CopiesAccounted DEF Accounted
  <2>4. call.err \in {"IE_SUCCESS", "IE_PARTIAL_SUCCESS"}
      BY <2>1 DEF Read
  <2>5. IdsOwn' /\ FailureUntouched'
      BY <2>1, <2>2, <2>4 DEF IdsOwn, FailureUntouched, Idle, Refusal, Transport
  <2>. QED  BY <2>2, <2>3, <2>5 DEF Promises
<1>3. CASE ReadIdentifier
  <2>1. /\ Return("IE_SUCCESS") /\ UNCHANGED <<copies, sent, before>>
        /\ call.pc = "identifier" /\ call.op # "multiple"
        /\ request.recipients = <<envelope.box>>
        /\ envelope' = [envelope EXCEPT !.id = reply.statuses[1].id]
      BY <1>3 DEF ReadIdentifier, Addressed, Pc
  <2>2. call'.pc = "idle" /\ call'.err = "IE_SUCCESS" /\ call'.op = call.op /\ Results'
      BY <2>1, ReturnSettles
  <2>3. 1 \in DOMAIN reply.statuses
      BY <2>1, <1>0 DEF HasStatus, Replies
  <2>4. PICK ids : Decided(ids)
      BY <2>1 DEF Told
  <2>5. reply.statuses[1].id # Null =>
          [id |-> reply.statuses[1].id, box |-> envelope.box] \in sent
    <3>1. request.recipients[1] = envelope.box
        BY <2>1
    <3>. QED  BY <2>3, <2>4, <3>1, <1>0, StatusOwn
  <2>6. envelope'.id = reply.statuses[1].id /\ envelope'.box = envelope.box
      BY <2>1, TypeSplit
  <2>7. IdsOwn'
      BY <2>1, <2>5, <2>6 DEF IdsOwn
  <2>8. Accounted' /\ FailureUntouched'
      BY <2>1, <2>2 DEF Accounted, FailureUntouched, Idle, Refusal, Transport
  <2>. QED  BY <2>2, <2>7, <2>8 DEF Promises
<1>. QED  BY <1>1, <1>2, <1>3

-----------------------------------------------------------------------------
(***************************************************************************)
(* The files of a request.  With the main file at place m of the given     *)
(* ones (0 as long as it has not come), the file at place i of the request *)
(* is the one given at Place(i, m).                                        *)
(***************************************************************************)

Given == call.message.documents \o call.message.extFiles

Place(i, m) == IF m = 0 \/ i > m THEN i ELSE IF i = 1 THEN m ELSE i - 1

Arranged(files, given, n, m) ==
    /\ m \in 0..n /\ Len(files) = n
    /\ \A k \in 1..n : given[k] \in File \ {Null} /\ (given[k].main <=> k = m)
    /\ \A i \in 1..n : files[i] = given[Place(i, m)]

\* How many files are in the request, and that these are the first ones given.
Filling(n) ==
    /\ n \in Nat
    /\ CheckHierarchy(call.message.documents, call.message.extFiles) = "IE_SUCCESS"
    /\ \E m \in 0..n : Arranged(request.files, Given, n, m)

Filled ==
    /\ call.pc \in {"recipients", "envelope"} => request.files = <<>>
    /\ call.pc = "documents" =>
         call.i <= Len(call.message.documents) + 1 /\ Filling(call.i - 1)
    /\ call.pc = "extFiles" =>
         /\ call.i <= Len(call.message.extFiles) + 1
         /\ Filling(Len(call.message.documents) + call.i - 1)
    /\ call.pc = "send" => Filling(Len(Given))

LEMMA PlaceOnto ==
    ASSUME NEW n \in Nat, NEW m \in 0..n
    PROVE  /\ \A i \in 1..n : Place(i, m) \in 1..n
           /\ \A i, j \in 1..n : Place(i, m) = Place(j, m) => i = j
           /\ \A k \in 1..n : \E i \in 1..n : Place(i, m) = k
           /\ \A i, j \in 1..n : 1 < i /\ i < j => Place(i, m) < Place(j, m)
<1>1. /\ \A i \in 1..n : Place(i, m) \in 1..n
      /\ \A i, j \in 1..n : Place(i, m) = Place(j, m) => i = j
      /\ \A i, j \in 1..n : 1 < i /\ i < j => Place(i, m) < Place(j, m)
    BY DEF Place
<1>2. ASSUME NEW k \in 1..n PROVE \E i \in 1..n : Place(i, m) = k
  <2>1. CASE m = 0 \/ k > m
      BY <2>1 DEF Place
  <2>2. CASE k = m
    <3>1. 1 \in 1..n /\ Place(1, m) = k
        BY <2>2 DEF Place
    <3>. QED  BY <3>1
  <2>3. CASE k < m
    <3>1. k + 1 \in 1..n /\ Place(k + 1, m) = k
        BY <2>3 DEF Place
    <3>. QED  BY <3>1
  <2>. QED  BY <2>1, <2>2, <2>3
<1>. QED  BY <1>1, <1>2

\* What the given files are: the documents, then the ext files.
LEMMA GivenParts ==
    ASSUME NEW documents \in Seq(File \cup {Null}), NEW extFiles \in Seq(File \cup {Null})
    PROVE  /\ documents \o extFiles \in Seq(File \cup {Null})
           /\ Len(documents \o extFiles) = Len(documents) + Len(extFiles)
           /\ \A i \in 1..Len(documents) : (documents \o extFiles)[i] = documents[i]
           /\ \A i \in 1..Len(extFiles) :
                (documents \o extFiles)[Len(documents) + i] = extFiles[i]
<1>1. PICK d \in Nat, e \in Nat : d = Len(documents) /\ e = Len(extFiles)
    OBVIOUS
<1>2. /\ documents \o extFiles \in Seq(File \cup {Null})
      /\ Len(documents \o extFiles) = d + e
      /\ \A i \in 1..(d + e) : (documents \o extFiles)[i] =
                                IF i <= d THEN documents[i] ELSE extFiles[i - d]
    BY <1>1, ConcatProperties
<1>3. \A i \in 1..d : i \in 1..(d + e) /\ i <= d
    OBVIOUS
<1>4. \A i \in 1..e : d + i \in 1..(d + e) /\ ~(d + i <= d) /\ d + i - d = i
    OBVIOUS
<1>5. \A i \in 1..e : (documents \o extFiles)[d + i] = extFiles[i]
    BY <1>2, <1>4
<1>. QED  BY <1>1, <1>2, <1>3, <1>5

OnlyMain(given) ==
    /\ \E k \in 1..Len(given) : given[k] # Null /\ given[k].main
    /\ \A k, l \in 1..Len(given) :
         given[k] # Null /\ given[k].main /\ given[l] # Null /\ given[l].main => k = l

\* _isds_check_documents_hierarchy() finds exactly one main file.
LEMMA OneMain ==
    ASSUME NEW documents \in Seq(File \cup {Null}), NEW extFiles \in Seq(File \cup {Null}),
           CheckHierarchy(documents, extFiles) = "IE_SUCCESS"
    PROVE  OnlyMain(documents \o extFiles)
<1>0. PICK given : given = documents \o extFiles
    OBVIOUS
<1>1. PICK main \in AllMains(documents, extFiles) : AllMains(documents, extFiles) = {main}
    BY DEF CheckHierarchy
<1>2. PICK d \in Nat, e \in Nat : d = Len(documents) /\ e = Len(extFiles)
    OBVIOUS
<1>3. /\ Len(given) = d + e
      /\ \A i \in 1..d : given[i] = documents[i]
      /\ \A i \in 1..e : given[d + i] = extFiles[i]
    BY <1>0, <1>2, GivenParts
<1>4. DOMAIN documents = 1..d /\ DOMAIN extFiles = 1..e
    BY <1>2
<1>5. ASSUME NEW k \in 1..Len(given), given[k] # Null, given[k].main
      PROVE  main = IF k <= d THEN <<"dmFile", k>> ELSE <<"dmExtFile", k - d>>
  <2>1. CASE k <= d
    <3>1. k \in Mains(documents)
        BY <1>3, <1>4, <1>5, <2>1 DEF Mains
    <3>2. <<"dmFile", k>> \in AllMains(documents, extFiles)
        BY <3>1 DEF AllMains
    <3>. QED  BY <1>1, <2>1, <3>2
  <2>2. CASE ~(k <= d)
    <3>0. k \in 1..(d + e)
        BY <1>3
    <3>1. k - d \in 1..e /\ k = d + (k - d)
        BY <1>2, <2>2, <3>0
    <3>2. k - d \in Mains(extFiles)
        BY <1>3, <1>4, <1>5, <3>1 DEF Mains
    <3>3. <<"dmExtFile", k - d>> \in AllMains(documents, extFiles)
        BY <3>2 DEF AllMains
    <3>. QED  BY <1>1, <2>2, <3>3
  <2>. QED  BY <2>1, <2>2
<1>6. ASSUME NEW k \in 1..Len(given), NEW l \in 1..Len(given),
             given[k] # Null, given[k].main, given[l] # Null, given[l].main
      PROVE  k = l
  <2>1. k \in 1..(d + e) /\ l \in 1..(d + e)
      BY <1>3
  <2>2. /\ main = IF k <= d THEN <<"dmFile", k>> ELSE <<"dmExtFile", k - d>>
        /\ main = IF l <= d THEN <<"dmFile", l>> ELSE <<"dmExtFile", l - d>>
      BY <1>5, <1>6
  <2>3. CASE k <= d /\ l <= d
    <3>1. <<"dmFile", k>> = <<"dmFile", l>>
        BY <2>2, <2>3
    <3>. QED  BY <3>1
  <2>4. CASE ~(k <= d) /\ ~(l <= d)
    <3>1. <<"dmExtFile", k - d>> = <<"dmExtFile", l - d>>
        BY <2>2, <2>4
    <3>2. k - d = l - d
        BY <3>1
    <3>. QED  BY <1>2, <2>1, <3>2
  <2>5. CASE k <= d /\ ~(l <= d)
    <3>1. <<"dmFile", k>> = <<"dmExtFile", l - d>>
        BY <2>2, <2>5
    <3>. QED  BY <3>1
  <2>6. CASE ~(k <= d) /\ l <= d
    <3>1. <<"dmExtFile", k - d>> = <<"dmFile", l>>
        BY <2>2, <2>6
    <3>. QED  BY <3>1
  <2>. QED  BY <2>3, <2>4, <2>5, <2>6
<1>7. \E k \in 1..Len(given) : given[k] # Null /\ given[k].main
  <2>1. CASE main \in {"dmFile"} \X Mains(documents)
    <3>1. PICK i \in Mains(documents) : main = <<"dmFile", i>>
        BY <2>1
    <3>2. i \in 1..d /\ documents[i] # Null /\ documents[i].main
        BY <1>4 DEF Mains
    <3>3. i \in 1..Len(given)
        BY <1>2, <1>3, <3>2
    <3>. QED  BY <1>3, <3>2, <3>3
  <2>2. CASE main \in {"dmExtFile"} \X Mains(extFiles)
    <3>1. PICK i \in Mains(extFiles) : main = <<"dmExtFile", i>>
        BY <2>2
    <3>2. i \in 1..e /\ extFiles[i] # Null /\ extFiles[i].main
        BY <1>4 DEF Mains
    <3>3. d + i \in 1..Len(given)
        BY <1>2, <1>3, <3>2
    <3>. QED  BY <1>3, <3>2, <3>3
  <2>. QED  BY <2>1, <2>2 DEF AllMains
<1>. QED  BY <1>0, <1>6, <1>7 DEF OnlyMain

\* insert_document() and insert_ext_file() keep the arrangement.
LEMMA FileInserted ==
    ASSUME NEW files \in Seq(File), NEW given, NEW n \in Nat, NEW m \in 0..n,
           Arranged(files, given, n, m), NEW file \in File \ {Null}, given[n + 1] = file,
           file.main => m = 0
    PROVE  Arranged(InsertFile(files, file), given, n + 1, IF file.main THEN n + 1 ELSE m)
<1>0. /\ Len(files) = n
      /\ \A k \in 1..n : given[k] \in File \ {Null} /\ (given[k].main <=> k = m)
      /\ \A i \in 1..n : files[i] = given[Place(i, m)]
    BY DEF Arranged
<1>1. CASE file.main
  <2>1. InsertFile(files, file) = <<file>> \o files /\ m = 0
      BY <1>1 DEF InsertFile
  <2>2. PICK q : q = <<file>> \o files
      OBVIOUS
  <2>3. <<file>> \in Seq(File) /\ Len(<<file>>) = 1 /\ <<file>>[1] = file
      OBVIOUS
  <2>4. Len(q) = n + 1 /\ q[1] = file /\ \A i \in 2..(n + 1) : q[i] = files[i - 1]
    <3>1. /\ q \in Seq(File) /\ Len(q) = 1 + n
          /\ \A i \in 1..(1 + n) : q[i] = IF i <= 1 THEN <<file>>[i] ELSE files[i - 1]
        BY <1>0, <2>2, <2>3, ConcatProperties
    <3>2. 1 \in 1..(1 + n) /\ 1 <= 1 /\ 1 + n = n + 1
        OBVIOUS
    <3>3. q[1] = file
        BY <2>3, <3>1, <3>2
    <3>4. ASSUME NEW i \in 2..(n + 1) PROVE q[i] = files[i - 1]
      <4>1. i \in 1..(1 + n) /\ ~(i <= 1)
          OBVIOUS
      <4>. QED  BY <3>1, <4>1
    <3>. QED  BY <3>1, <3>2, <3>3, <3>4
  <2>5. \A i \in 1..(n + 1) : q[i] = given[Place(i, n + 1)]
    <3>1. ASSUME NEW i \in 2..(n + 1) PROVE q[i] = given[Place(i, n + 1)]
      <4>1. i - 1 \in 1..n /\ Place(i, n + 1) = i - 1 /\ Place(i - 1, m) = i - 1
          BY <2>1 DEF Place
      <4>. QED  BY <1>0, <2>4, <4>1
    <3>2. Place(1, n + 1) = n + 1
        BY DEF Place
    <3>. QED  BY <2>4, <3>1, <3>2
  <2>6. \A k \in 1..(n + 1) : given[k] \in File \ {Null} /\ (given[k].main <=> k = n + 1)
    <3>1. ASSUME NEW k \in 1..n PROVE given[k] \in File \ {Null} /\ ~given[k].main /\ k # n + 1
        BY <1>0, <2>1
    <3>. QED  BY <1>1, <3>1
  <2>. QED  BY <1>1, <2>1, <2>2, <2>4, <2>5, <2>6 DEF Arranged
<1>2. CASE ~file.main
  <2>1. InsertFile(files, file) = Append(files, file)
      BY <1>2 DEF InsertFile
  <2>2. PICK q : q = Append(files, file)
      OBVIOUS
  <2>4. Len(q) = n + 1 /\ q[n + 1] = file /\ \A i \in 1..n : q[i] = files[i]
      BY <1>0, <2>2
  <2>5. \A i \in 1..(n + 1) : q[i] = given[Place(i, m)]
    <3>1. Place(n + 1, m) = n + 1
        BY DEF Place
    <3>. QED  BY <1>0, <2>4, <3>1
  <2>6. \A k \in 1..(n + 1) : given[k] \in File \ {Null} /\ (given[k].main <=> k = m)
    <3>1. n + 1 # m /\ ~given[n + 1].main
        BY <1>2
    <3>2. ASSUME NEW k \in 1..(n + 1) PROVE given[k] \in File \ {Null} /\ (given[k].main <=> k = m)
      <4>1. k \in 1..n \/ k = n + 1
          OBVIOUS
      <4>. QED  BY <1>0, <1>2, <3>1, <4>1
    <3>. QED  BY <3>2
  <2>. QED  BY <1>2, <2>1, <2>2, <2>4, <2>5, <2>6 DEF Arranged
<1>. QED  BY <1>1, <1>2

LEMMA FillingGoesOn ==
    ASSUME call \in Calls, request \in Requests, NEW n \in Nat, Filling(n), n < Len(Given),
           NEW file \in File \ {Null}, Given[n + 1] = file, call'.message = call.message,
           request'.files = InsertFile(request.files, file)
    PROVE  Filling(n + 1)'
<1>1. PICK m \in 0..n : Arranged(request.files, Given, n, m)
    BY DEF Filling
<1>2. PICK docs, exts : docs = call.message.documents /\ exts = call.message.extFiles
    OBVIOUS
<1>3. docs \in Seq(File \cup {Null}) /\ exts \in Seq(File \cup {Null})
    BY <1>2, MessageParts DEF Calls
<1>4. PICK given : given = docs \o exts
    OBVIOUS
<1>5. given = Given /\ Given' = given
    BY <1>2, <1>4 DEF Given
<1>6. CheckHierarchy(docs, exts) = "IE_SUCCESS"
    BY <1>2 DEF Filling
<1>7. file.main => m = 0
  <2>0. OnlyMain(given)
      BY <1>3, <1>4, <1>6, OneMain
  <2>1. ASSUME file.main, m # 0 PROVE FALSE
    <3>1. given[m] # Null /\ given[m].main
        BY <1>1, <1>5, <2>1 DEF Arranged
    <3>2. given[n + 1] # Null /\ given[n + 1].main
        BY <1>5, <2>1 DEF File
    <3>3. Len(given) \in Nat
        BY <1>3, <1>4
    <3>4. m \in 1..Len(given) /\ n + 1 \in 1..Len(given) /\ m # n + 1
        BY <1>5, <2>1, <3>3
    <3>. QED  BY <2>0, <3>1, <3>2, <3>4 DEF OnlyMain
  <2>. QED  BY <2>1
<1>8. request.files \in Seq(File)
    BY DEF Requests
<1>9. Arranged(InsertFile(request.files, file), given, n + 1, IF file.main THEN n + 1 ELSE m)
    BY <1>1, <1>5, <1>7, <1>8, FileInserted
<1>10. (IF file.main THEN n + 1 ELSE m) \in 0..(n + 1)
    OBVIOUS
<1>11. \E k \in 0..(n + 1) : Arranged(request'.files, given, n + 1, k)
    BY <1>9, <1>10
<1>12. CheckHierarchy(call'.message.documents, call'.message.extFiles) = "IE_SUCCESS"
    BY <1>2, <1>6
<1>. QED  BY <1>5, <1>11, <1>12 DEF Filling

LEMMA FillingKept ==
    ASSUME NEW n, Filling(n), call'.message = call.message, request'.files = request.files
    PROVE  Filling(n)'
<1>1. Given' = Given
    BY DEF Given
<1>. QED  BY <1>1 DEF Filling

LEMMA ReturnEmpties ==
    ASSUME NEW err, Return(err)
    PROVE  Filled'
BY DEF Return, Filled

LEMMA EnvelopeFills ==
    ASSUME TypeOK, Filled, InsertEnvelope
    PROVE  Filled'
<1>0. call \in Calls /\ request \in Requests
    BY TypeSplit
<1>1. CASE EnvelopeError # "IE_SUCCESS"
    BY <1>1, ReturnEmpties DEF InsertEnvelope
<1>2. CASE EnvelopeError = "IE_SUCCESS"
  <2>1. /\ call' = [call EXCEPT !.pc = "documents", !.i = 1]
        /\ request' = IF call.op = "multiple" THEN request
                      ELSE [request EXCEPT !.recipients = <<envelope.box>>]
      BY <1>2 DEF InsertEnvelope, Goto
  <2>2. call'.pc = "documents" /\ call'.i = 1 /\ call'.message = call.message
      BY <2>1, <1>0 DEF Calls
  <2>3. request'.files = <<>>
      BY <2>1, <1>0 DEF InsertEnvelope, Filled, Requests
  <2>4. CheckHierarchy(call.message.documents, call.message.extFiles) = "IE_SUCCESS"
      BY <1>2 DEF EnvelopeError
  <2>5. PICK given : given = Given'
      OBVIOUS
  <2>6. Len(<<>>) = 0
      OBVIOUS
  <2>7. Arranged(request'.files, given, 0, 0)
      BY <2>3, <2>6 DEF Arranged
  <2>8. Filling(0)'
      BY <2>2, <2>4, <2>5, <2>7 DEF Filling
  <2>9. Len(call'.message.documents) \in Nat
      BY <2>2, <1>0, MessageParts DEF Calls
  <2>10. (call'.i - 1 = 0) /\ call'.i <= Len(call'.message.documents) + 1
      BY <2>2, <2>9
  <2>. QED  BY <2>2, <2>8, <2>10 DEF Filled
<1>. QED  BY <1>1, <1>2

LEMMA DocumentFills ==
    ASSUME TypeOK, Filled, InsertDocument
    PROVE  Filled'
<1>0. call \in Calls /\ request \in Requests
    BY TypeSplit
<1>1. PICK docs, exts : docs = call.message.documents /\ exts = call.message.extFiles
    OBVIOUS
<1>2. docs \in Seq(File \cup {Null}) /\ exts \in Seq(File \cup {Null})
    BY <1>0, <1>1, MessageParts DEF Calls
<1>3. PICK d \in Nat, e \in Nat : d = Len(docs) /\ e = Len(exts)
    BY <1>2
<1>4. PICK i \in Nat \ {0} : i = call.i
    BY <1>0 DEF Calls
<1>5. call.pc = "documents" /\ i <= d + 1 /\ Filling(i - 1) /\ InsertNext(docs, "extFiles")
    BY <1>1, <1>3, <1>4 DEF InsertDocument, Filled
<1>6. CASE i > d
  <2>1. call' = [call EXCEPT !.pc = "extFiles", !.i = 1] /\ request' = request
      BY <1>3, <1>4, <1>5, <1>6 DEF InsertNext, Goto
  <2>2. call'.pc = "extFiles" /\ call'.i = 1 /\ call'.message = call.message
      BY <2>1, <1>0 DEF Calls
  <2>3. Filling(i - 1)'
      BY <2>1, <2>2, <1>4, <1>5, FillingKept
  <2>4. /\ i - 1 = d /\ d + 1 - 1 = d /\ 1 <= e + 1
      BY <1>5, <1>6
  <2>5. Filling(d)'
      BY <2>3, <2>4
  <2>. QED  BY <1>1, <1>3, <2>2, <2>4, <2>5 DEF Filled
<1>7. CASE ~(i > d) /\ (docs[i] = Null \/ docs[i].fault # "IE_SUCCESS")
    BY <1>3, <1>4, <1>5, <1>7, ReturnEmpties DEF InsertNext
<1>8. CASE ~(i > d) /\ docs[i] # Null /\ docs[i].fault = "IE_SUCCESS"
  <2>1. /\ call' = [call EXCEPT !.i = @ + 1]
        /\ request' = [request EXCEPT !.files = InsertFile(@, docs[i])]
      BY <1>3, <1>4, <1>5, <1>8 DEF InsertNext, Proceed
  <2>2. call'.pc = "documents" /\ call'.i = i + 1 /\ call'.message = call.message
      BY <2>1, <1>0, <1>4, <1>5 DEF Calls
  <2>3. request'.files = InsertFile(request.files, docs[i])
      BY <2>1, <1>0 DEF Requests
  <2>4. i \in 1..d
      BY <1>8
  <2>5. PICK file \in File \ {Null} : file = docs[i]
      BY <1>2, <1>3, <1>8, <2>4
  <2>0. Given = docs \o exts
      BY <1>1 DEF Given
  <2>6. Len(Given) = d + e /\ Given[i] = file
      BY <2>0, <1>2, <1>3, <2>4, <2>5, GivenParts
  <2>7. PICK n \in Nat : n = i - 1
      BY <2>4
  <2>8. n < Len(Given) /\ n + 1 = i
      BY <2>4, <2>6, <2>7
  <2>9. Filling(n + 1)'
      BY <1>0, <1>5, <2>2, <2>3, <2>5, <2>6, <2>7, <2>8, FillingGoesOn
  <2>10. /\ call'.i <= Len(call'.message.documents) + 1 /\ call'.i - 1 = n + 1
      BY <1>1, <1>3, <2>2, <2>4, <2>8
  <2>11. Filling(call.i - 1)'
      BY <2>9, <2>10
  <2>. QED  BY <2>2, <2>10, <2>11 DEF Filled
<1>. QED  BY <1>6, <1>7, <1>8

LEMMA ExtFileFills ==
    ASSUME TypeOK, Filled, InsertExtFile
    PROVE  Filled'
<1>0. call \in Calls /\ request \in Requests
    BY TypeSplit
<1>1. PICK docs, exts : docs = call.message.documents /\ exts = call.message.extFiles
    OBVIOUS
<1>2. docs \in Seq(File \cup {Null}) /\ exts \in Seq(File \cup {Null})
    BY <1>0, <1>1, MessageParts DEF Calls
<1>3. PICK d \in Nat, e \in Nat : d = Len(docs) /\ e = Len(exts)
    BY <1>2
<1>4. PICK i \in Nat \ {0} : i = call.i
    BY <1>0 DEF Calls
<1>5. call.pc = "extFiles" /\ i <= e + 1 /\ Filling(d + i - 1) /\ InsertNext(exts, "send")
    BY <1>1, <1>3, <1>4 DEF InsertExtFile, Filled
<1>6. Given = docs \o exts /\ Len(Given) = d + e
  <2>1. Given = docs \o exts
      BY <1>1 DEF Given
  <2>. QED  BY <2>1, <1>2, <1>3, GivenParts
<1>7. CASE i > e
  <2>1. call' = [call EXCEPT !.pc = "send", !.i = 1] /\ request' = request
      BY <1>3, <1>4, <1>5, <1>7 DEF InsertNext, Goto
  <2>2. call'.pc = "send" /\ call'.message = call.message
      BY <2>1, <1>0 DEF Calls
  <2>3. d + i - 1 = d + e
      BY <1>5, <1>7
  <2>4. Filling(Len(Given))
      BY <1>5, <1>6, <2>3
  <2>5. PICK n : n = Len(Given)
      OBVIOUS
  <2>6. Filling(n)'
      BY <2>1, <2>2, <2>4, <2>5, FillingKept
  <2>7. Given' = Given
      BY <2>2 DEF Given
  <2>8. (Filling(Len(Given)))'
      BY <2>5, <2>6, <2>7
  <2>. QED  BY <2>2, <2>8 DEF Filled
<1>8. CASE ~(i > e) /\ (exts[i] = Null \/ exts[i].fault # "IE_SUCCESS")
    BY <1>3, <1>4, <1>5, <1>8, ReturnEmpties DEF InsertNext
<1>9. CASE ~(i > e) /\ exts[i] # Null /\ exts[i].fault = "IE_SUCCESS"
  <2>1. /\ call' = [call EXCEPT !.i = @ + 1]
        /\ request' = [request EXCEPT !.files = InsertFile(@, exts[i])]
      BY <1>3, <1>4, <1>5, <1>9 DEF InsertNext, Proceed
  <2>2. call'.pc = "extFiles" /\ call'.i = i + 1 /\ call'.message = call.message
      BY <2>1, <1>0, <1>4, <1>5 DEF Calls
  <2>3. request'.files = InsertFile(request.files, exts[i])
      BY <2>1, <1>0 DEF Requests
  <2>4. i \in 1..e
      BY <1>9
  <2>5. PICK file \in File \ {Null} : file = exts[i]
      BY <1>2, <1>3, <1>9, <2>4
  <2>6. Given[d + i] = file
      BY <1>2, <1>3, <1>6, <2>4, <2>5, GivenParts
  <2>7. PICK n \in Nat : n = d + i - 1
      BY <2>4
  <2>8. n < Len(Given) /\ n + 1 = d + i
      BY <1>6, <2>4, <2>7
  <2>9. Filling(n + 1)'
      BY <1>0, <1>5, <2>2, <2>3, <2>5, <2>6, <2>7, <2>8, FillingGoesOn
  <2>10. /\ call'.i <= Len(call'.message.extFiles) + 1
         /\ Len(call'.message.documents) + call'.i - 1 = n + 1
      BY <1>1, <1>3, <2>2, <2>4, <2>8
  <2>11. Filling(Len(call.message.documents) + call.i - 1)'
      BY <2>9, <2>10
  <2>. QED  BY <2>2, <2>10, <2>11 DEF Filled
<1>. QED  BY <1>7, <1>8, <1>9

LEMMA FilledStep ==
    ASSUME TypeOK, Filled, [Next]_vars
    PROVE  Filled'
<1>1. CASE SendSingle \/ SendMultiple
  <2>1. request'.files = <<>> /\ call'.pc \in {"idle", "recipients", "envelope"}
      BY <1>1 DEF SendSingle, SendMultiple, Begin, Empty
  <2>. QED  BY <2>1 DEF Filled
<1>2. CASE InsertRecipient
  <2>1. CASE call.i > Len(copies)
    <3>1. call'.pc = "envelope" /\ request' = request
        BY <1>2, <2>1, TypeSplit DEF InsertRecipient, Goto, Calls
    <3>. QED  BY <1>2, <3>1 DEF InsertRecipient, Filled
  <2>2. CASE ~(call.i > Len(copies)) /\ copies[call.i].box = Null
      BY <1>2, <2>2, ReturnEmpties DEF InsertRecipient
  <2>3. CASE ~(call.i > Len(copies)) /\ copies[call.i].box # Null
    <3>1. call'.pc = "recipients" /\ request'.files = request.files
        BY <1>2, <2>3, TypeSplit DEF InsertRecipient, Proceed, Calls, Requests
    <3>. QED  BY <1>2, <3>1 DEF InsertRecipient, Filled
  <2>. QED  BY <2>1, <2>2, <2>3
<1>3. CASE NotReached
    BY <1>3, ReturnEmpties DEF NotReached
<1>4. CASE Processed
  <2>1. CASE \E err \in Transport : Return(err)
      BY <2>1, ReturnEmpties
  <2>2. CASE Goto("status")
    <3>1. call'.pc = "status"
        BY <2>2, TypeSplit DEF Goto, Calls
    <3>. QED  BY <3>1 DEF Filled
  <2>. QED  BY <1>4, <2>1, <2>2 DEF Processed
<1>5. CASE CheckStatus
  <2>1. CASE Return("IE_ISDS")
      BY <2>1, ReturnEmpties
  <2>2. CASE ~Return("IE_ISDS")
    <3>1. call'.pc \in {"copies", "identifier"}
        BY <1>5, <2>2, TypeSplit DEF CheckStatus, Calls
    <3>. QED  BY <3>1 DEF Filled
  <2>. QED  BY <2>1, <2>2
<1>6. CASE AppendStatus
  <2>1. CASE Return("IE_ISDS")
      BY <2>1, ReturnEmpties
  <2>2. CASE Proceed
    <3>1. call'.pc = "copies"
        BY <1>6, <2>2, TypeSplit DEF AppendStatus, Proceed, Calls
    <3>. QED  BY <3>1 DEF Filled
  <2>. QED  BY <1>6, <2>1, <2>2 DEF AppendStatus
<1>7. CASE CopiesRead
    BY <1>7, ReturnEmpties DEF CopiesRead
<1>8. CASE ReadIdentifier
    BY <1>8, ReturnEmpties DEF ReadIdentifier
<1>9. CASE UNCHANGED vars
    BY <1>9 DEF vars, Filled, Filling, Given
<1>. QED
    BY <1>1, <1>2, <1>3, <1>4, <1>5, <1>6, <1>7, <1>8, <1>9, EnvelopeFills, DocumentFills,
       ExtFileFills
    DEF Next

\* Documents of an accepted list are told apart by their identifiers, and what
\* they refer to is there.
Identified(documents) ==
    /\ \A k, l \in 1..Len(documents) :
         /\ documents[k] # Null /\ documents[l] # Null
         /\ documents[k].guid # Null /\ documents[k].guid = documents[l].guid
         => k = l
    /\ \A k \in 1..Len(documents) :
         documents[k] # Null /\ documents[k].up # Null =>
           \E l \in 1..Len(documents) :
             documents[l] # Null /\ documents[l].guid = documents[k].up

LEMMA DocumentsFit ==
    ASSUME NEW documents \in Seq(File \cup {Null}), NEW extFiles,
           CheckHierarchy(documents, extFiles) = "IE_SUCCESS"
    PROVE  Identified(documents)
<1>1. \A k \in 1..Len(documents) : documents[k] # Null => DocumentFits(documents, k)
    BY DEF CheckHierarchy
<1>2. ASSUME NEW k \in 1..Len(documents), NEW l \in 1..Len(documents),
             documents[k] # Null, documents[l] # Null,
             documents[k].guid # Null, documents[k].guid = documents[l].guid
      PROVE  k = l
  <2>1. FindDocument(documents, documents[k].guid) = k
      BY <1>1, <1>2 DEF DocumentFits
  <2>2. FindDocument(documents, documents[l].guid) = l
      BY <1>1, <1>2 DEF DocumentFits
  <2>. QED  BY <1>2, <2>1, <2>2
<1>3. ASSUME NEW k \in 1..Len(documents), documents[k] # Null, documents[k].up # Null
      PROVE  \E l \in 1..Len(documents) :
               documents[l] # Null /\ documents[l].guid = documents[k].up
  <2>1. FindDocument(documents, documents[k].up) # 0
      BY <1>1, <1>3 DEF DocumentFits
  <2>2. {i \in DOMAIN documents :
           documents[i] # Null /\ documents[i].guid = documents[k].up} # {}
      BY <2>1 DEF FindDocument
  <2>. QED  BY <2>2
<1>. QED  BY <1>2, <1>3 DEF Identified

LEMMA KindsOfLists ==
    ASSUME NEW m \in Messages \cup {NoMessage}
    PROVE  /\ \A i \in 1..Len(m.documents) :
                m.documents[i] # Null => m.documents[i].kind = "dmFile"
           /\ \A i \in 1..Len(m.extFiles) :
                m.extFiles[i] # Null => m.extFiles[i].kind = "dmExtFile"
<1>1. m.documents \in Seq(File \cup {Null}) /\ m.extFiles \in Seq(File \cup {Null})
    BY MessageParts
<1>2. CASE m \in Messages
    BY <1>1, <1>2, KindsAssumption
<1>3. CASE m = NoMessage
  <2>1. m.documents = <<>> /\ m.extFiles = <<>> /\ Len(<<>>) = 0
      BY <1>3 DEF NoMessage
  <2>. QED  BY <2>1
<1>. QED  BY <1>2, <1>3

WellArranged(files, given) ==
    /\ files # <<>> /\ Len(files) = Len(given)
    /\ \A i \in DOMAIN files : files[i].main <=> i = 1
    /\ \E from \in [DOMAIN files -> DOMAIN given] :
         /\ \A i \in DOMAIN files : files[i] = given[from[i]]
         /\ \A k \in DOMAIN given : \E i \in DOMAIN files : from[i] = k
         /\ \A i, j \in DOMAIN files : 1 < i /\ i < j => from[i] < from[j]

WellReferenced(files, places) ==
    /\ \A i, j \in places : files[i].guid # Null /\ files[i].guid = files[j].guid => i = j
    /\ \A i \in places : files[i].up # Null => \E j \in places : files[j].guid = files[i].up

LEMMA FilledRequest ==
    ASSUME TypeOK, Addressed, Filled, call.pc = "send"
    PROVE  RequestWellFormed
<1>0. call \in Calls /\ request \in Requests /\ copies \in Seq(Copy)
    BY TypeSplit
<1>1. PICK docs, exts : docs = call.message.documents /\ exts = call.message.extFiles
    OBVIOUS
<1>2. docs \in Seq(File \cup {Null}) /\ exts \in Seq(File \cup {Null})
    BY <1>0, <1>1, MessageParts DEF Calls
<1>3. PICK d \in Nat, e \in Nat : d = Len(docs) /\ e = Len(exts)
    BY <1>2
<1>4. PICK given : given = docs \o exts
    OBVIOUS
<1>5. /\ given \in Seq(File \cup {Null}) /\ Len(given) = d + e
      /\ \A i \in 1..d : given[i] = docs[i]
      /\ \A i \in 1..e : given[d + i] = exts[i]
    BY <1>2, <1>3, <1>4, GivenParts
<1>6. PICK files \in Seq(File) : files = request.files
    BY <1>0 DEF Requests
<1>7. PICK n \in Nat : n = d + e
    OBVIOUS
<1>8. Given = given /\ Len(Given) = n
    BY <1>1, <1>4, <1>5, <1>7 DEF Given
<1>9. Filling(n)
    BY <1>8 DEF Filled
<1>10. PICK m \in 0..n : Arranged(files, given, n, m)
    BY <1>6, <1>8, <1>9 DEF Filling
<1>11. /\ Len(files) = n
       /\ \A k \in 1..n : given[k] \in File \ {Null} /\ (given[k].main <=> k = m)
       /\ \A i \in 1..n : files[i] = given[Place(i, m)]
    BY <1>10 DEF Arranged
<1>12. CheckHierarchy(docs, exts) = "IE_SUCCESS"
    BY <1>1, <1>9 DEF Filling
<1>13. m \in 1..n
  <2>1. OnlyMain(given)
      BY <1>2, <1>4, <1>12, OneMain
  <2>2. PICK k \in 1..n : given[k].main
      BY <1>5, <1>7, <2>1 DEF OnlyMain
  <2>. QED  BY <1>11, <2>2
<1>14. /\ \A i \in 1..n : Place(i, m) \in 1..n
       /\ \A i, j \in 1..n : Place(i, m) = Place(j, m) => i = j
       /\ \A k \in 1..n : \E i \in 1..n : Place(i, m) = k
       /\ \A i, j \in 1..n : 1 < i /\ i < j => Place(i, m) < Place(j, m)
    BY PlaceOnto
<1>15. \A i \in 1..n : files[i].main <=> i = 1
  <2>1. ASSUME NEW i \in 1..n PROVE files[i].main <=> i = 1
    <3>1. Place(i, m) = m <=> i = 1
        BY <1>13 DEF Place
    <3>. QED  BY <1>11, <1>14, <3>1
  <2>. QED  BY <2>1
<1>16. \E from \in [1..n -> 1..n] :
         /\ \A i \in 1..n : files[i] = given[from[i]]
         /\ \A k \in 1..n : \E i \in 1..n : from[i] = k
         /\ \A i, j \in 1..n : 1 < i /\ i < j => from[i] < from[j]
  <2>1. PICK from : from = [i \in 1..n |-> Place(i, m)]
      OBVIOUS
  <2>2. from \in [1..n -> 1..n] /\ \A i \in 1..n : from[i] = Place(i, m)
      BY <1>14, <2>1
  <2>3. \A i \in 1..n : files[i] = given[from[i]]
      BY <1>11, <2>2
  <2>4. \A k \in 1..n : \E i \in 1..n : from[i] = k
    <3>1. ASSUME NEW k \in 1..n PROVE \E i \in 1..n : from[i] = k
      <4>1. PICK i \in 1..n : Place(i, m) = k
          BY <1>14
      <4>. QED  BY <2>2, <4>1
    <3>. QED  BY <3>1
  <2>5. \A i, j \in 1..n : 1 < i /\ i < j => from[i] < from[j]
    <3>1. ASSUME NEW i \in 1..n, NEW j \in 1..n, 1 < i, i < j PROVE from[i] < from[j]
      <4>1. Place(i, m) < Place(j, m)
          BY <1>14, <3>1
      <4>. QED  BY <2>2, <4>1
    <3>. QED  BY <3>1
  <2>. QED  BY <2>2, <2>3, <2>4, <2>5
<1>17. \A i \in 1..n : /\ files[i].kind = "dmFile" => Place(i, m) \in 1..d
                       /\ Place(i, m) \in 1..d =>
                            /\ files[i].kind = "dmFile" /\ docs[Place(i, m)] = files[i]
                            /\ docs[Place(i, m)] # Null
  <2>0. /\ \A i \in 1..d : docs[i] # Null => docs[i].kind = "dmFile"
        /\ \A i \in 1..e : exts[i] # Null => exts[i].kind = "dmExtFile"
      BY <1>0, <1>1, <1>3, KindsOfLists DEF Calls
  <2>1. ASSUME NEW k \in 1..n
        PROVE  /\ given[k].kind = "dmFile" => k \in 1..d
               /\ k \in 1..d => /\ given[k].kind = "dmFile" /\ docs[k] = given[k]
                                /\ docs[k] # Null
    <3>1. CASE k \in 1..d
        BY <1>5, <1>11, <2>0, <3>1
    <3>2. CASE k \notin 1..d
      <4>1. PICK i \in 1..e : k = d + i
        <5>1. k - d \in 1..e /\ k = d + (k - d)
            BY <1>7, <3>2
        <5>. QED  BY <5>1
      <4>2. given[k] = exts[i] /\ given[k] # Null
          BY <1>5, <1>11, <4>1
      <4>3. given[k].kind = "dmExtFile"
          BY <2>0, <4>2
      <4>. QED  BY <3>2, <4>3
    <3>. QED  BY <3>1, <3>2
  <2>2. ASSUME NEW i \in 1..n
        PROVE  /\ files[i].kind = "dmFile" => Place(i, m) \in 1..d
               /\ Place(i, m) \in 1..d =>
                    /\ files[i].kind = "dmFile" /\ docs[Place(i, m)] = files[i]
                    /\ docs[Place(i, m)] # Null
    <3>1. PICK k \in 1..n : k = Place(i, m) /\ files[i] = given[k]
        BY <1>11, <1>14
    <3>. QED  BY <2>1, <3>1
  <2>. QED  BY <2>2
<1>18. Identified(docs)
    BY <1>2, <1>12, DocumentsFit
<1>19. ASSUME NEW i \in 1..n, NEW j \in 1..n, files[i].kind = "dmFile",
              files[j].kind = "dmFile", files[i].guid # Null, files[i].guid = files[j].guid
       PROVE  i = j
  <2>1. PICK k \in 1..d, l \in 1..d :
            /\ k = Place(i, m) /\ l = Place(j, m)
            /\ docs[k] = files[i] /\ docs[l] = files[j] /\ docs[k] # Null /\ docs[l] # Null
      BY <1>17, <1>19
  <2>2. k = l
      BY <1>3, <1>18, <1>19, <2>1 DEF Identified
  <2>. QED  BY <1>14, <2>1, <2>2
<1>20. ASSUME NEW i \in 1..n, files[i].kind = "dmFile", files[i].up # Null
       PROVE  \E j \in 1..n : files[j].kind = "dmFile" /\ files[j].guid = files[i].up
  <2>1. PICK k \in 1..d : docs[k] = files[i] /\ docs[k] # Null
      BY <1>17, <1>20
  <2>2. PICK l \in 1..d : docs[l] # Null /\ docs[l].guid = files[i].up
      BY <1>3, <1>18, <1>20, <2>1 DEF Identified
  <2>3. l \in 1..n
      BY <1>7
  <2>4. PICK j \in 1..n : Place(j, m) = l
      BY <1>14, <2>3
  <2>. QED  BY <1>17, <2>2, <2>4
<1>21. IF call.op = "multiple"
       THEN request.recipients = [i \in DOMAIN copies |-> copies[i].box]
       ELSE request.recipients = <<envelope.box>>
  <2>1. CASE call.op = "multiple"
    <3>1. PICK c \in Nat : c = Len(copies)
        BY <1>0
    <3>2. /\ request.recipients \in Seq(Box) /\ Len(request.recipients) = c
          /\ \A k \in 1..c : request.recipients[k] = copies[k].box
        BY <1>0, <2>1, <3>1 DEF Addressed, Pc, Requests
    <3>3. request.recipients = [k \in 1..c |-> request.recipients[k]]
        BY <3>2
    <3>4. request.recipients = [k \in 1..c |-> copies[k].box]
        BY <3>2, <3>3
    <3>5. DOMAIN copies = 1..c
        BY <1>0, <3>1
    <3>. QED  BY <2>1, <3>4, <3>5
  <2>2. CASE call.op # "multiple"
      BY <2>2 DEF Addressed, Pc
  <2>. QED  BY <2>1, <2>2
<1>22. n # 0 /\ files # <<>>
  <2>1. Len(<<>>) = 0
      OBVIOUS
  <2>. QED  BY <1>11, <1>13, <2>1
<1>23. DOMAIN files = 1..n /\ DOMAIN given = 1..n
    BY <1>5, <1>7, <1>11
<1>24. PICK places : places = {i \in DOMAIN files : files[i].kind = "dmFile"}
    OBVIOUS
<1>25. WellReferenced(files, places)
    BY <1>19, <1>20, <1>23, <1>24 DEF WellReferenced
<1>26. WellArranged(files, given)
  <2>1. Len(files) = Len(given)
      BY <1>5, <1>7, <1>11
  <2>2. \A i \in DOMAIN files : files[i].main <=> i = 1
      BY <1>15, <1>23
  <2>3. PICK from \in [1..n -> 1..n] :
            /\ \A i \in 1..n : files[i] = given[from[i]]
            /\ \A k \in 1..n : \E i \in 1..n : from[i] = k
            /\ \A i, j \in 1..n : 1 < i /\ i < j => from[i] < from[j]
      BY <1>16
  <2>4. /\ from \in [DOMAIN files -> DOMAIN given]
        /\ \A i \in DOMAIN files : files[i] = given[from[i]]
        /\ \A k \in DOMAIN given : \E i \in DOMAIN files : from[i] = k
        /\ \A i, j \in DOMAIN files : 1 < i /\ i < j => from[i] < from[j]
      BY <1>23, <2>3
  <2>. QED  BY <1>22, <2>1, <2>2, <2>4 DEF WellArranged
<1>27. WellArranged(request.files, call.message.documents \o call.message.extFiles)
    BY <1>1, <1>4, <1>6, <1>26
<1>28. WellReferenced(request.files,
                      {i \in DOMAIN request.files : request.files[i].kind = "dmFile"})
    BY <1>6, <1>24, <1>25
<1>. QED  BY <1>21, <1>27, <1>28 DEF RequestWellFormed, WellArranged, WellReferenced

-----------------------------------------------------------------------------
(***************************************************************************)
(* The theorems.                                                           *)
(***************************************************************************)

LEMMA InitInv == Init => SendingInv
<1>. SUFFICES ASSUME Init PROVE SendingInv
    OBVIOUS
<1>1. <<>> \in Seq(Copy) /\ <<>> \in Seq(Box) /\ <<>> \in Seq(File) /\ <<>> \in Seq(Status)
    OBVIOUS
<1>2. call \in Calls
    BY DEF Init, Calls, Pc, Op, Result
<1>3. TypeOK
    BY <1>1, <1>2, TypeSplit DEF Init, Requests, Replies, Empty, NoReply
<1>4. HasStatus /\ Addressed /\ Told /\ Read /\ Untouched
    BY DEF Init, HasStatus, Addressed, Told, Read, Untouched, Pc
<1>5. IdsOwn /\ Accounted /\ FailureUntouched
    BY DEF Init, IdsOwn, Accounted, FailureUntouched, Idle, Refusal, Transport
<1>. QED  BY <1>3, <1>4, <1>5 DEF SendingInv

LEMMA SendKeeps ==
    ASSUME SendingInv, SendSingle \/ SendMultiple
    PROVE  Results' /\ Promises'
<1>. USE TypeSplit DEF SendingInv
<1>1. CASE SendSingle
  <2>1. PICK op \in Op \ {"multiple"}, message \in Messages \cup {Null},
             addressed \in {envelope} \cup {[box |-> list[1], id |-> Null] :
                                             list \in {l \in Lists : Len(l) = 1}} :
                 Begin(op, message, copies, addressed)
      BY <1>1 DEF SendSingle
  <2>2. addressed.id # Null => [id |-> addressed.id, box |-> addressed.box] \in sent
      BY DEF IdsOwn
  <2>. QED  BY <2>1, <2>2, BeginKeeps DEF IdsOwn
<1>2. CASE SendMultiple
  <2>1. PICK message \in Messages \cup {Null},
             held \in {copies} \cup {FreshCopies(list) : list \in Lists} :
                 Begin("multiple", message, held, envelope)
      BY <1>2 DEF SendMultiple
  <2>2. \A list \in Lists : FreshCopies(list) \in Seq(Copy)
      BY ListsAssumption, FreshCopiesType
  <2>3. \A list \in Lists : \A i \in DOMAIN FreshCopies(list) : FreshCopies(list)[i].id = Null
      BY DEF FreshCopies
  <2>4. held \in Seq(Copy)
      BY <2>2
  <2>5. \A i \in DOMAIN held :
            held[i].id # Null => [id |-> held[i].id, box |-> held[i].box] \in sent
      BY <2>3 DEF IdsOwn
  <2>. QED  BY <2>1, <2>4, <2>5, BeginKeeps DEF IdsOwn, Op
<1>. QED  BY <1>1, <1>2

LEMMA NextInv == SendingInv /\ [Next]_vars => SendingInv'
<1>. SUFFICES ASSUME SendingInv, [Next]_vars PROVE SendingInv'
    OBVIOUS
<1>1. TypeOK'
    BY TypeStep DEF SendingInv
<1>2. CASE UNCHANGED vars
  <2>1. \A ids : Decided(ids) => Decided(ids)'
      BY <1>2, DecidedKept DEF vars
  <2>2. Told'
      BY <1>2, <2>1 DEF SendingInv, Told, vars
  <2>3. HasStatus' /\ Addressed' /\ Read' /\ Untouched'
      BY <1>2 DEF SendingInv, HasStatus, Addressed, Read, Untouched, vars
  <2>4. IdsOwn' /\ Accounted' /\ FailureUntouched'
      BY <1>2 DEF SendingInv, IdsOwn, Accounted, FailureUntouched, Idle, vars
  <2>. QED  BY <1>1, <2>2, <2>3, <2>4 DEF SendingInv
<1>3. CASE Next
  <2>1. Results' /\ Promises'
      BY <1>3, SendKeeps, BuildingKeeps, ExchangeKeeps, CheckKeeps, AppendKeeps, ReadingKeeps
      DEF Next
  <2>. QED  BY <1>1, <2>1 DEF SendingInv, Results, Promises
<1>. QED  BY <1>2, <1>3

LEMMA SendingInvariant == Spec => []SendingInv
BY InitInv, NextInv, PTL DEF Spec

\* The variables of isds_send_message_to_multiple_recipients() and its like
\* keep their types, for whatever messages and recipients.
THEOREM SendingTypes == Spec => []TypeOK
<1>1. SendingInv => TypeOK
    BY DEF SendingInv
<1>. QED  BY <1>1, SendingInvariant, PTL

\* An identifier found with a recipient is that of a message in its box
\* (append_TMStatus(), isds_send_message()).
THEOREM SendingIds == Spec => []IdsOwn
<1>1. SendingInv => IdsOwn
    BY DEF SendingInv
<1>. QED  BY <1>1, SendingInvariant, PTL

\* Success and partial success account for every message of the call, whatever
\* earlier attempts left in the list of copies.
THEOREM SendingAccounted == Spec => []Accounted
<1>1. SendingInv => Accounted
    BY DEF SendingInv
<1>. QED  BY <1>1, SendingInvariant, PTL

\* Refused calls send nothing, and failed ones leave the copies alone.
THEOREM SendingFailures == Spec => []FailureUntouched
<1>1. SendingInv => FailureUntouched
    BY DEF SendingInv
<1>. QED  BY <1>1, SendingInvariant, PTL

LEMMA FilledInvariant == Spec => []Filled
<1>1. Init => Filled
    BY DEF Init, Filled
<1>2. SendingInv /\ Filled /\ [Next]_vars => Filled'
    BY FilledStep DEF SendingInv
<1>. QED  BY <1>1, <1>2, SendingInvariant, PTL DEF Spec

\* Whatever files the application gives, in whatever order, the request that
\* goes out holds them all, the main one in front, with identifiers that are
\* unique and references that resolve, and names the recipients of the copies
\* in their order (_isds_check_documents_hierarchy(), insert_document(),
\* insert_ext_file()).
THEOREM SendingRequests == Spec => []RequestWellFormed
<1>1. SendingInv /\ Filled => RequestWellFormed
  <2>1. call.pc # "send" => RequestWellFormed
      BY DEF RequestWellFormed
  <2>. QED  BY <2>1, FilledRequest DEF SendingInv
<1>. QED  BY <1>1, SendingInvariant, FilledInvariant, PTL

=============================================================================
