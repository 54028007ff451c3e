------------------------------- MODULE MCAuth -------------------------------
(***************************************************************************)
(* Calls for AuthHeaders.                                                  *)
(***************************************************************************)
EXTENDS AuthHeaders

CONSTANTS MaxText   \* words and white space in a folded header

Sent == <<"authentication.info.totpSended">>
Blocked == <<"authentication.error.intruderDetected">>

MCWord == {"200", "w", Head(Sent), Head(Blocked)}
MCEncoded == {"=?e?="}
MCResolution == [c \in {Sent, Blocked} |-> IF c = Sent THEN "TOTP_SENT" ELSE "ACCESS_BLOCKED"]

Head_(name, text) == [kind |-> "header", name |-> name, text |-> <<Space>> \o text \o <<"EOL">>]
More(text) == [kind |-> "continuation", text |-> text \o <<"EOL">>]
End == [kind |-> "separator"]
Status == Head_("HTTP/1.1", <<"200">>)

Code(c) == Head_("X-Response-message-code", c)
Message(t) == Head_("X-Response-message-text", t)
Method == Head_("WWW-Authenticate", <<"w">>)
Other == Head_("Server", <<"w">>)

Texts == BoundedSeq({"w", "=?e?=", Space, "TAB"}, MaxText)

\* A message folded onto a second line between two texts.
Folded == {<<Status, Method, Message(t), More(u), Code(Sent), End>> : t \in Texts, u \in Texts}

Short == {<<Status, Code(Sent), End>>, <<Status, Method, Code(Blocked), Other, End>>,
          <<Status, Other, End>>, <<Status, Code(Sent), Code(Blocked), End>>,
          <<More(<<"w">>), Status, More(<<"w">>), Message(<<"w">>), End>>}

Single == {<< <<h>> >> : h \in Folded \cup Short}

\* Redirects: a second exchange in the call; proxies: two heads in one.
Several == {<< <<h>>, <<g>> >> : h \in Short, g \in Short}
             \cup {<< <<h, g>> >> : h \in Short, g \in Short}
             \cup {<< <<h, g>>, <<h>> >> : h \in Short, g \in Short}

MCCalls == Single \cup Several
=============================================================================
