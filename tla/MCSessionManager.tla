--------------------------- MODULE MCSessionManager ---------------------------
(* Instances of SessionManager for TLC. *)
EXTENDS SessionManager, TLC

RequestSymmetry == Permutations(Requests)
=============================================================================
