----------------------------- MODULE MCPhases -----------------------------
(* Phases on a small instance: a charge point that can switch beside one   *)
(* that cannot, and a level of power on each side of every threshold.      *)
EXTENDS Phases

MCEvses == {"garage", "carport"}
MCWiring == [e \in MCEvses |-> IF e = "garage" THEN "switchable" ELSE "three"]
MCLevel == 0 .. 4
=============================================================================
