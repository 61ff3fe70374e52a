----------------------------- MODULE MCEvidence -----------------------------
(* Evidence on small instances. *)
EXTENDS Evidence

MCLevel == {1, 2}
=============================================================================
