----------------------------- MODULE MCVerifier -----------------------------
(* The verifier on one case, whose own orphaned runs compete with it.      *)
EXTENDS Verifier
=============================================================================
