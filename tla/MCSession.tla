----------------------------- MODULE MCSession ------------------------------
(***************************************************************************)
(* Small instances of IsdsSession for TLC.                                 *)
(***************************************************************************)
EXTENDS IsdsSession, TLC

\* Cookies are only compared with each other.
CookieSymmetry == Permutations(Cookie)

=============================================================================
