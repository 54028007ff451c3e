-------------------------- MODULE SessionContract ---------------------------
(***************************************************************************)
(* What a libdatovka context promises its application about the            *)
(* connection, without how the library keeps the promise:                  *)
(*                                                                         *)
(*   closed       no connection                                            *)
(*   negotiating  a connection that is not authenticated (yet)             *)
(*   perRequest   every request is authenticated for itself (HTTP Basic,   *)
(*                certificate)                                             *)
(*   session      the server has opened a session for this connection      *)
(*   anonymous    a connection to a service that needs no log in           *)
(*   dangling     a connection nothing can be sent on, because a refused   *)
(*                isds_login_mep() has dropped the context's URL           *)
(*                                                                         *)
(* A connection becomes a session only by negotiation, a session ends only *)
(* with its connection, and the result of a call tells the truth about the *)
(* connection at the time the call returns.                                *)
(***************************************************************************)
CONSTANTS
    Results,    \* calls with their results: [op, err]
    Busy        \* a call is running

VARIABLES
    conn,       \* the connection
    result      \* the last call and its result, or Busy

Init == conn = "closed" /\ result \in Results

\* The result r may be reported when the connection is c.
Truthful(r, c) ==
    /\ r.op = "login" =>
        IF r.err = "SUCCESS" THEN c \in {"perRequest", "session"} ELSE c = "closed"
    /\ r.op = "loginMep" =>
        CASE r.err = "SUCCESS" -> c = "session"
          [] r.err = "PARTIAL" -> c = "negotiating"
          [] r.err = "INVAL"   -> c \in {"closed", "dangling"}
          [] OTHER             -> c = "closed"
    /\ r.op \in {"service", "vodz"} /\ r.err = "SUCCESS" => c \in {"perRequest", "session"}
    /\ r.op \in {"CZP", "TESTING"} /\ r.err = "SUCCESS" => c = "anonymous"
    /\ r.op = "logout" /\ r.err = "SUCCESS" => c = "closed"

\* What a running call may do to the connection.
Proceeds == conn' \in {conn, "closed"} \/ (conn = "negotiating" /\ conn' = "session")

\* A log in may give the connection up and open a new one, or pick a dangling
\* one up again.
Begin ==
    /\ result # Busy /\ result' = Busy
    /\ \/ conn' \in {conn, "negotiating", "perRequest", "anonymous"}
       \/ conn = "dangling" /\ conn' = "session"

Work == result = Busy /\ result' = Busy /\ Proceeds

Return ==
    /\ result' \in Results
    /\ Proceeds \/ conn' = "dangling"
    /\ Truthful(result', conn')

Next == Begin \/ Work \/ Return

Spec == Init /\ [][Next]_<<conn, result>>

=============================================================================
