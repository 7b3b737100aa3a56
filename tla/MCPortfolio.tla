----------------------------- MODULE MCPortfolio -----------------------------
(* An instance of Portfolio for TLC; it checks liveness, so no symmetry. *)
EXTENDS Portfolio
=============================================================================
