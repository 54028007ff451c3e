---------------------------- MODULE ServiceDocs -----------------------------
(***************************************************************************)
(* What isds.h says of isds_operation_status().                            *)
(***************************************************************************)
EXTENDS MCServices

\* isds_operation_status() returns the "status description of the last
\* performed ISDS operation", whose code is the "value of the *StatusCode
\* element" (isds.h): after a call the server answered it has that code.
StatusOfLast ==
  Returned /\ Answer /\ call.code # Missing /\ Row.builds # "none" =>
    status = Status(call.code)

=============================================================================
