------------------------------ MODULE MCModbus ------------------------------
(* Modbus on a small instance: an inverter that can be curtailed, found on *)
(* the second base, and a map of two points.                               *)
EXTENDS Modbus

MCChain == <<"inverter", "controls">>
MCPolled == <<"inverter", "battery">>
=============================================================================
