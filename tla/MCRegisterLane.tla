---------------------------- MODULE MCRegisterLane ----------------------------
(* RegisterLane on small instances, with two values a register can say. *)
EXTENDS RegisterLane

CONSTANTS low, high

MCValue == {low, high}
=============================================================================
