------------------------------ MODULE MCGuard ------------------------------
EXTENDS Guard

(* 1.38 kW to the unit, six amperes on one conductor: a charge point of 11 *)
(* kW behind a cable of 12 A, a threshold and a ceiling of 4.2 kW.          *)
House     == {"car", "battery", "pv", "pump", "tank"}
HouseKind == [d \in House |-> CASE d = "car" -> "evse" [] d = "battery" -> "battery"
                                [] d = "pv" -> "roof"  [] OTHER -> d]
HouseOrder     == [d \in House |-> CASE d = "battery" -> 1 [] d = "car" -> 2
                                     [] d = "pump" -> 3 [] d = "pv" -> 4 [] OTHER -> 5]
HouseNameplate == [d \in House |-> CASE d = "car" -> 8 [] d = "pv" -> 6 [] d = "tank" -> 2 [] OTHER -> 4]
HouseConductor == [d \in House |-> CASE d = "car" -> 1 [] d = "battery" -> 2 [] OTHER -> 0]
HouseWeight    == [d \in House |-> IF d = "car" THEN 2 ELSE 1]
HouseWants     == {[d \in House \ {"pump"} |->
                     CASE d = "car" -> a[1] [] d = "battery" -> a[2] [] d = "tank" -> 1 [] OTHER -> -6] :
                     a \in {<<8, 4>>, <<8, -4>>, <<0, 4>>}}
HouseCircuits  == <<[below |-> House, meters |-> TRUE, limit |-> 12],
                    [below |-> {"car", "pump"}, meters |-> FALSE, limit |-> 9]>>
HouseLimits    == {[steuve |-> None, feedIn |-> None], [steuve |-> 3, feedIn |-> 1]}
=============================================================================
