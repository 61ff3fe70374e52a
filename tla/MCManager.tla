----------------------------- MODULE MCManager -----------------------------
(* Manager on a small instance: one connection, again and again. *)
EXTENDS Manager
=============================================================================
