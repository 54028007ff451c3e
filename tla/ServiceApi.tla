----------------------------- MODULE ServiceApi -----------------------------
(***************************************************************************)
(* How each service function of isds.c goes through a call, as rows of     *)
(* ServiceCalls.  A wrapper has the row of what it wraps.                  *)
(*                                                                         *)
(* "connects" says "first" also where a helper looks at the connection     *)
(* before it builds the request (build_send_check_message_request() and    *)
(* build_send_check_dbdummy_request()), and "early" also where the output  *)
(* is freed after its pointer was checked: both look the same from outside.*)
(***************************************************************************)

Plain == [resets |-> "early", connects |-> "first", faults |-> {"IE_ERROR"},
          builds |-> "code", checked |-> TRUE, reads |-> "element", writes |-> "asRead",
          frees |-> TRUE, loads |-> FALSE, refs |-> FALSE, codes |-> << >>, goesOn |-> {}]

\* Mutant: a list is not freed when one of its elements cannot be read.
Listing_NotFreed ==
  [Plain EXCEPT !.faults = {"IE_ERROR", "IE_DATE"}, !.reads = "list", !.frees = FALSE]

\* Asked with identifiers or dates, which may not fit; with descriptions of
\* boxes, users or documents, which may hold unknown values; with times.
Asking == [Plain EXCEPT !.faults = {"IE_ERROR", "IE_INVAL"}]
Describing == [Plain EXCEPT !.faults = {"IE_ERROR", "IE_INVAL", "IE_ENUM"}]
Listing == [Plain EXCEPT !.faults = {"IE_ERROR", "IE_DATE"}, !.reads = "list"]

(***************************************************************************)
(* The logged-in user and box                                              *)
(***************************************************************************)

\* build_send_check_dbdummy_request() casts the address of the code.
DbDummy == [Plain EXCEPT !.builds = "pointer"]

isds_GetOwnerInfoFromLogin == DbDummy
isds_GetOwnerInfoFromLogin2 == DbDummy
isds_GetUserInfoFromLogin == DbDummy
isds_GetUserInfoFromLogin2 == DbDummy
isds_get_password_expiration == DbDummy

(***************************************************************************)
(* Administration of boxes and users                                       *)
(***************************************************************************)

\* send_request_check_drop_response(): nothing to extract.
Command == [Describing EXCEPT !.connects = "late", !.reads = "nothing", !.refs = TRUE]

isds_add_pfoinfo == Command
isds_delete_box == Command
isds_UpdateDataBoxDescr == Command
isds_UpdateDataBoxDescr2 == Command
isds_UpdateDataBoxUser == Command
isds_UpdateDataBoxUser2 == Command
isds_DeleteDataBoxUser2 == [Command EXCEPT !.faults = {"IE_ERROR"}]
isds_switch_commercial_receiving == [Command EXCEPT !.connects = "first", !.faults = {"IE_ERROR"}]
isds_switch_box_accessibility_on_owner_request == Command
isds_disable_box_accessibility_externaly == Command

\* The result of send_destroy_request_check_response() is overwritten with
\* that of extract_credentials_delivery().
Unchecked == [Command EXCEPT !.checked = FALSE, !.reads = "value", !.frees = FALSE]

isds_add_box == Unchecked
isds_add_user == Unchecked
isds_AddDataBoxUser2 == [Unchecked EXCEPT !.resets = "reading"]

isds_reset_password == [Unchecked EXCEPT !.checked = TRUE]
isds_activate ==
  [Plain EXCEPT !.connects = "late", !.frees = FALSE, !.faults = {"IE_ERROR", "IE_TOO_BIG", "IE_TOO_SMALL"}]
isds_GetDataBoxUsers == [Plain EXCEPT !.connects = "late", !.reads = "list"]
isds_GetDataBoxUsers2 == isds_GetDataBoxUsers

(***************************************************************************)
(* Searching for boxes                                                     *)
(***************************************************************************)

isds_get_box_list_archive == [Plain EXCEPT !.reads = "value", !.writes = "whole", !.frees = FALSE]

isds_FindDataBox ==
  [Describing EXCEPT !.reads = "list", !.goesOn = {"0003"},
     !.codes = [c \in {"0002", "0003", "5001"} |->
                  IF c = "0003" THEN "IE_TOO_BIG" ELSE "IE_NONEXIST"]]
isds_FindDataBox2 == isds_FindDataBox

isds_find_box_by_fulltext ==
  [Plain EXCEPT !.faults = {"IE_ERROR", "IE_ENUM"},
     !.codes = [c \in {"1004", "1152", "1153", "1154", "1155", "1156", "9002"} |->
                  CASE c \in {"1004", "9002"} -> "IE_ISDS"
                    [] c = "1156" -> "IE_TOO_BIG"
                    [] OTHER -> "IE_INVAL"]]

isds_CheckDataBox ==
  [Plain EXCEPT !.resets = "never", !.writes = "whole", !.frees = FALSE,
     !.codes = [c \in {"5001", "1007", "2011"} |->
                  IF c = "5001" THEN "IE_NONEXIST" ELSE "IE_INVAL"]]

isds_get_box_state_history == [Listing EXCEPT !.reads = "element"]
isds_get_commercial_permissions == [Plain EXCEPT !.reads = "list"]
isds_PDZSendInfo == [Plain EXCEPT !.resets = "never", !.reads = "data", !.writes = "whole", !.frees = FALSE]

\* On error the list and the address are freed, the amount stays.
isds_get_commercial_credit ==
  [Plain EXCEPT !.frees = FALSE,
     !.codes = [c \in {"1004", "2011", "1093", "1137", "1058"} |->
                  CASE c = "1004" -> "IE_ISDS"
                    [] c = "2011" -> "IE_NONEXIST"
                    [] OTHER -> "IE_DATE"]]
isds_DTInfo == [Plain EXCEPT !.resets = "reading", !.reads = "data"]

(***************************************************************************)
(* Sending                                                                 *)
(***************************************************************************)

Sending == [Describing EXCEPT !.faults = @ \cup {"IE_TOO_BIG", "IE_TOO_SMALL"}]

\* The identifier in the message's envelope is replaced when it is read.
isds_send_message == [Sending EXCEPT !.resets = "reading", !.writes = "whole", !.frees = FALSE]
isds_CreateBigMessage == isds_send_message

\* One status for every copy; 0004 tells that some copies were refused.
isds_send_message_to_multiple_recipients ==
  [Sending EXCEPT !.resets = "reading", !.frees = FALSE, !.reads = "data", !.goesOn = {"0004"},
     !.codes = [c \in {"0004"} |-> "IE_PARTIAL_SUCCESS"]]

isds_UploadAttachment == [Describing EXCEPT !.reads = "data"]
isds_UploadAttachment_mtomxop == isds_UploadAttachment
isds_DownloadAttachment == [Asking EXCEPT !.reads = "data"]
isds_DownloadAttachment_mtomxop == isds_DownloadAttachment

(***************************************************************************)
(* Messages                                                                *)
(***************************************************************************)

isds_get_list_of_messages == [Listing EXCEPT !.faults = @ \cup {"IE_INVAL"}]
isds_get_list_of_sent_message_state_changes == Listing

\* build_send_check_message_request() casts the address of the code too.
OfMessage == [Asking EXCEPT !.builds = "pointer", !.reads = "data"]
Loading == [OfMessage EXCEPT !.loads = TRUE]

isds_get_received_envelope == OfMessage
isds_get_signed_delivery_info == Loading
isds_get_delivery_info == Loading
isds_get_received_message == OfMessage
isds_get_signed_message == Loading
isds_BigMessageDownload == OfMessage
isds_get_signed_big_message == Loading
isds_get_signed_big_message_mtomxop == Loading
isds_get_message_sender == [OfMessage EXCEPT !.reads = "element"]
isds_GetMessageAuthor2 == [OfMessage EXCEPT !.reads = "list", !.writes = "whole"]
isds_download_message_hash == OfMessage
isds_mark_message_read == [OfMessage EXCEPT !.reads = "nothing"]
isds_mark_message_received == isds_mark_message_read
isds_delete_message_from_storage ==
  [Asking EXCEPT !.reads = "nothing", !.codes = [c \in {"1211", "1219"} |-> "IE_INVAL"]]

\* isds_compute_message_hash() clears the status the download has built.
isds_verify_message_hash == [Loading EXCEPT !.reads = "verdict"]

isds_GetListOfErasedMessages_interval == [Asking EXCEPT !.writes = "whole", !.frees = FALSE]
isds_GetListOfErasedMessages_month == [isds_GetListOfErasedMessages_interval EXCEPT !.faults = {"IE_ERROR"}]
isds_GetListOfErasedMessages_year == isds_GetListOfErasedMessages_month

isds_PickUpAsyncResponse ==
  [Plain EXCEPT !.reads = "data", !.writes = "whole", !.frees = FALSE,
     !.codes = [c \in {"2351", "2352", "2353"} |->
                  IF c = "2352" THEN "IE_PARTIAL_SUCCESS" ELSE "IE_ISDS"]]

(***************************************************************************)
(* Authenticity                                                            *)
(***************************************************************************)

isds_authenticate_message == [Plain EXCEPT !.reads = "verdict"]
isds_AuthenticateBigMessage == isds_authenticate_message
isds_AuthenticateBigMessage_mtomxop == isds_authenticate_message

isds_resign_message ==
  [Plain EXCEPT !.reads = "data", !.frees = FALSE,
     !.codes = [c \in {"2200", "2201", "2204", "2207"} |->
                  CASE c = "2201" -> "IE_NOTUNIQ"
                    [] c = "2207" -> "IE_ISDS"
                    [] OTHER -> "IE_INVAL"]]
isds_ArchiveISDSDocument == [Plain EXCEPT !.reads = "data", !.frees = FALSE]
isds_ArchiveISDSDocument_mtomxop == isds_ArchiveISDSDocument

(***************************************************************************)
(* On contexts of their own                                                *)
(***************************************************************************)

\* The deposit's own status is part of what is extracted.
czp_convert_document == [Plain EXCEPT !.connects = "self", !.builds = "none", !.frees = FALSE]
isds_request_new_testing_box ==
  [Describing EXCEPT !.connects = "self", !.reads = "value", !.writes = "whole",
                     !.frees = FALSE, !.refs = TRUE]

=============================================================================
