---------------------------- MODULE SessionDocs ------------------------------
(***************************************************************************)
(* What a comment says of the end of a context and the code does not do.   *)
(***************************************************************************)
EXTENDS IsdsSession

\* isds_ctx_free(): "Discard credentials and close connection".  It ignores
\* that isds_logout() fails, as it does when the server has ended the session
\* already, and then nobody closes the CURL handle.
FreedMeansClosed == call.pc = "freed" => ~curl.open

=============================================================================
