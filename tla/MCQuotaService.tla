--------------------------- MODULE MCQuotaService ---------------------------
(* Instances of QuotaService for TLC; calls and tokens are interchangeable. *)
EXTENDS QuotaService, TLC

Symmetry == Permutations(Call) \cup Permutations(Token)
=============================================================================
