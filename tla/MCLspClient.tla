----------------------------- MODULE MCLspClient -----------------------------
(* LspClient on a small instance; calls, and clangd's requests, are alike. *)
EXTENDS LspClient, TLC

CallSymmetry == Permutations(Calls) \cup Permutations(Asks)
=============================================================================
