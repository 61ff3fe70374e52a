---------------------------- MODULE MCControlLoop ----------------------------
EXTENDS ControlLoop

(* A charge point that can be on one conductor or on three, a battery that  *)
(* charges and discharges, and a hot-water tank of 3 that the guard leaves  *)
(* all of it or not.                                                        *)
HouseSettings == [car |-> {"Single", "Three"}, battery |-> {"None"}, tank |-> {"None"}]
HouseRating   == [car     |-> [floor |-> 0, ceiling |-> 7],
                  battery |-> [floor |-> -5, ceiling |-> 5],
                  tank    |-> [floor |-> 0, ceiling |-> 3]]
CarMin        == [car |-> [Single |-> 2, Three |-> 6]]
CarMax        == [car |-> [Single |-> 4, Three |-> 7]]
Asked(w, f, c, s) == [want |-> w, floor |-> f, ceiling |-> c, setting |-> s]
HouseAsks ==
    [car     |-> {Asked(7, 0, 7, "Single"), Asked(7, 0, 7, "Three"), Asked(7, 0, 5, "Three")},
     battery |-> {Asked(w, -5, 5, "None") : w \in {2, 3, 4}}
                   \cup {Asked(-4, -2, 5, "None"), Asked(4, -5, 3, "None")},
     tank    |-> {Asked(2, 0, 3, "None"), Asked(2, 0, 2, "None")}]
=============================================================================
