----------------------------- MODULE MCServices -----------------------------
(***************************************************************************)
(* ServiceCalls with the functions of the library.                         *)
(***************************************************************************)
EXTENDS ServiceCalls, ServiceApi

LibraryApi ==
  [isds_GetOwnerInfoFromLogin |-> isds_GetOwnerInfoFromLogin,
   isds_GetOwnerInfoFromLogin2 |-> isds_GetOwnerInfoFromLogin2,
   isds_GetUserInfoFromLogin |-> isds_GetUserInfoFromLogin,
   isds_GetUserInfoFromLogin2 |-> isds_GetUserInfoFromLogin2,
   isds_get_password_expiration |-> isds_get_password_expiration,
   isds_add_pfoinfo |-> isds_add_pfoinfo,
   isds_delete_box |-> isds_delete_box,
   isds_UpdateDataBoxDescr |-> isds_UpdateDataBoxDescr,
   isds_UpdateDataBoxDescr2 |-> isds_UpdateDataBoxDescr2,
   isds_UpdateDataBoxUser |-> isds_UpdateDataBoxUser,
   isds_UpdateDataBoxUser2 |-> isds_UpdateDataBoxUser2,
   isds_DeleteDataBoxUser2 |-> isds_DeleteDataBoxUser2,
   isds_switch_commercial_receiving |-> isds_switch_commercial_receiving,
   isds_switch_box_accessibility_on_owner_request |-> isds_switch_box_accessibility_on_owner_request,
   isds_disable_box_accessibility_externaly |-> isds_disable_box_accessibility_externaly,
   isds_add_box |-> isds_add_box,
   isds_add_user |-> isds_add_user,
   isds_AddDataBoxUser2 |-> isds_AddDataBoxUser2,
   isds_reset_password |-> isds_reset_password,
   isds_activate |-> isds_activate,
   isds_GetDataBoxUsers |-> isds_GetDataBoxUsers,
   isds_GetDataBoxUsers2 |-> isds_GetDataBoxUsers2,
   isds_get_box_list_archive |-> isds_get_box_list_archive,
   isds_FindDataBox |-> isds_FindDataBox,
   isds_FindDataBox2 |-> isds_FindDataBox2,
   isds_find_box_by_fulltext |-> isds_find_box_by_fulltext,
   isds_CheckDataBox |-> isds_CheckDataBox,
   isds_get_box_state_history |-> isds_get_box_state_history,
   isds_get_commercial_permissions |-> isds_get_commercial_permissions,
   isds_PDZSendInfo |-> isds_PDZSendInfo,
   isds_get_commercial_credit |-> isds_get_commercial_credit,
   isds_DTInfo |-> isds_DTInfo,
   isds_send_message |-> isds_send_message,
   isds_CreateBigMessage |-> isds_CreateBigMessage,
   isds_send_message_to_multiple_recipients |-> isds_send_message_to_multiple_recipients,
   isds_UploadAttachment |-> isds_UploadAttachment,
   isds_UploadAttachment_mtomxop |-> isds_UploadAttachment_mtomxop,
   isds_DownloadAttachment |-> isds_DownloadAttachment,
   isds_DownloadAttachment_mtomxop |-> isds_DownloadAttachment_mtomxop,
   isds_get_list_of_messages |-> isds_get_list_of_messages,
   isds_get_list_of_sent_message_state_changes |-> isds_get_list_of_sent_message_state_changes,
   isds_get_received_envelope |-> isds_get_received_envelope,
   isds_get_signed_delivery_info |-> isds_get_signed_delivery_info,
   isds_get_delivery_info |-> isds_get_delivery_info,
   isds_get_received_message |-> isds_get_received_message,
   isds_get_signed_message |-> isds_get_signed_message,
   isds_BigMessageDownload |-> isds_BigMessageDownload,
   isds_get_signed_big_message |-> isds_get_signed_big_message,
   isds_get_signed_big_message_mtomxop |-> isds_get_signed_big_message_mtomxop,
   isds_get_message_sender |-> isds_get_message_sender,
   isds_GetMessageAuthor2 |-> isds_GetMessageAuthor2,
   isds_download_message_hash |-> isds_download_message_hash,
   isds_mark_message_read |-> isds_mark_message_read,
   isds_mark_message_received |-> isds_mark_message_received,
   isds_delete_message_from_storage |-> isds_delete_message_from_storage,
   isds_verify_message_hash |-> isds_verify_message_hash,
   isds_GetListOfErasedMessages_interval |-> isds_GetListOfErasedMessages_interval,
   isds_GetListOfErasedMessages_month |-> isds_GetListOfErasedMessages_month,
   isds_GetListOfErasedMessages_year |-> isds_GetListOfErasedMessages_year,
   isds_PickUpAsyncResponse |-> isds_PickUpAsyncResponse,
   isds_authenticate_message |-> isds_authenticate_message,
   isds_AuthenticateBigMessage |-> isds_AuthenticateBigMessage,
   isds_AuthenticateBigMessage_mtomxop |-> isds_AuthenticateBigMessage_mtomxop,
   isds_resign_message |-> isds_resign_message,
   isds_ArchiveISDSDocument |-> isds_ArchiveISDSDocument,
   isds_ArchiveISDSDocument_mtomxop |-> isds_ArchiveISDSDocument_mtomxop,
   czp_convert_document |-> czp_convert_document,
   isds_request_new_testing_box |-> isds_request_new_testing_box]

\* Functions that may leave an output half-written when they fail: those that
\* do not clean up on error at all, and isds_get_commercial_credit(), which
\* keeps the amount.
LeavesPartial ==
  {"isds_activate", "isds_add_box", "isds_add_user", "isds_AddDataBoxUser2",
   "isds_reset_password", "isds_get_commercial_credit",
   "isds_send_message_to_multiple_recipients", "isds_resign_message",
   "isds_ArchiveISDSDocument", "isds_ArchiveISDSDocument_mtomxop",
   "czp_convert_document"}

\* Whatever breaks off the extraction of an answer, no function but those
\* leaves the application an output of which only a part was read.
NothingPartial == Returned /\ out = "partial" => call.f \in LeavesPartial

=============================================================================
