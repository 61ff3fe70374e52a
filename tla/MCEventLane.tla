---------------------------- MODULE MCEventLane ----------------------------
(* EventLane on small instances. *)
EXTENDS EventLane

SecondRefused == {2}
=============================================================================
