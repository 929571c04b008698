--------------------------- MODULE MCSessionStore ---------------------------
(* Values of the constants of SessionStore for TLC. *)
EXTENDS SessionStore, TLC

\* Requests are only compared, here and in the properties.
RequestSymmetry == Permutations(Request)
=============================================================================
