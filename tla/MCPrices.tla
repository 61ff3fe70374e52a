------------------------------ MODULE MCPrices ------------------------------
EXTENDS Prices

(* The more trusted source restates at another resolution. *)
MCMinutes == [s \in {1, 2} |-> IF s = 2 THEN {15, 60} ELSE {15}]
=============================================================================
