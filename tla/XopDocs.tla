------------------------------ MODULE XopDocs ------------------------------
(***************************************************************************)
(* What comments and messages of the source say of multipart responses and *)
(* the program does not do.                                                *)
(***************************************************************************)
EXTENDS MCXop

\* soap.c:694 on the end of a parameter: "Past last printable character."  A
\* boundary is what stands between the parameter's name and that place.
BoundaryAsSent == parser # Null => parser.boundary = Delimiter(response.boundary)

\* soap.c:3115 answers a response without a start part with "Cannot localise
\* start part of multipart response."
RootlessIsAnswered == phase # "crashed"

=============================================================================
