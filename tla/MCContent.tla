----------------------------- MODULE MCContent -----------------------------
(***************************************************************************)
(* Small instances of ContentTransfer for TLC.                             *)
(***************************************************************************)
EXTENDS ContentTransfer, SequencesExt

CONSTANTS MaxContent    \* length of the contents made of all bytes below

\* Bytes whose halves and quarters differ, without bits and with all of them.
SomeBytes == {0, 27, 148, 255}
MCContents ==
    BoundedSeq(SomeBytes, MaxContent)
    \cup { [i \in 1 .. n |-> (i * 91) % 256] : n \in (MaxContent + 1) .. 13 }

\* White space, padding out of place, what precedes and follows the decoder's
\* table, and characters beyond 127, where subtracting 43 wraps.
MCForeign == {10, 32, 61, 42, 123, -85, -86, -128}

=============================================================================
