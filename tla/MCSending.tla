----------------------------- MODULE MCSending -----------------------------
(***************************************************************************)
(* Small instances of Sending for TLC.                                     *)
(***************************************************************************)
EXTENDS Sending, TLC

CONSTANTS b1, b2, g1, g2

Doc(main, guid, up, fault) ==
    [kind |-> "dmFile", main |-> main, guid |-> guid, up |-> up, fault |-> fault]
Ext(main, guid, up, fault) ==
    [kind |-> "dmExtFile", main |-> main, guid |-> guid, up |-> up, fault |-> fault]

Main == Doc(TRUE, g1, Null, "IE_SUCCESS")
Enclosure == Doc(FALSE, g2, g1, "IE_SUCCESS")
Plain == Doc(FALSE, Null, Null, "IE_SUCCESS")
Uploaded == Ext(FALSE, g1, g2, "IE_SUCCESS")
Message(documents, extFiles) ==
    [fault |-> "IE_SUCCESS", documents |-> documents, extFiles |-> extFiles]

\* Well-formed messages, and each way to be malformed.
MCMessages ==
    { Message(<<Main>>, <<>>),
      Message(<<Plain, Enclosure, Main>>, <<>>),
      Message(<<Plain>>, <<Uploaded, Ext(TRUE, Null, Null, "IE_SUCCESS")>>),
      Message(<<>>, <<Ext(TRUE, Null, Null, "IE_SUCCESS"), Uploaded>>),
      Message(<<Main>>, <<Ext(FALSE, Null, Null, "IE_INVAL")>>),
      Message(<<>>, <<>>),
      Message(<<Plain>>, <<>>),
      Message(<<Main, Doc(TRUE, g2, Null, "IE_SUCCESS")>>, <<>>),
      Message(<<Main>>, <<Ext(TRUE, Null, Null, "IE_SUCCESS")>>),
      Message(<<Main, Doc(FALSE, g1, Null, "IE_SUCCESS")>>, <<>>),
      Message(<<Main, Doc(FALSE, Null, g2, "IE_SUCCESS")>>, <<>>),
      Message(<<Main, Doc(FALSE, g2, g2, "IE_SUCCESS")>>, <<>>),
      Message(<<Main, Null>>, <<>>),
      Message(<<Main, Doc(FALSE, Null, Null, "IE_ENUM")>>, <<>>) }
    \cup { [fault |-> f, documents |-> <<Main>>, extFiles |-> <<>>] :
             f \in {"IE_INVAL", "IE_TOO_BIG"} }

\* Nobody, one, two, one twice, and recipients the application forgot.
MCLists == { <<>>, <<Null>>, <<b1>>, <<b1, b2>>, <<b2, b2>>, <<b1, Null>>, <<Null, b2>> }

IdSymmetry == Permutations(MsgId)

=============================================================================
