----------------------------- MODULE Allocation -----------------------------
(***************************************************************************)
(* Sharing a limited budget between devices that all want more:            *)
(* crates/hems-realtime/src/allocate.rs, weighted max-min fair water       *)
(* filling, and the variant that switches a device off rather than leave   *)
(* it below the least it can run at.                                       *)
(*                                                                         *)
(* Powers are naturals in one unit; where the code divides floating-point  *)
(* numbers the model rounds down, once, at the last pour.  `claims` is a   *)
(* function from the claiming devices to records [want, floor, weight] of   *)
(* naturals, the weight positive.                                          *)
(***************************************************************************)
EXTENDS Integers, FiniteSets, FiniteSetsExt

CONSTANTS
    Devices,    \* the devices that may claim
    Order       \* the order of their identifiers, the last tie-break

ASSUME AllocationAssumption ==
    /\ Order \in [Devices -> Int]
    /\ \A d, e \in Devices : Order[d] = Order[e] => d = e

(* The same function, its values computed once rather than at every use. *)
Table(f) == CHOOSE g \in {f} : g = f

Total(f, S) == MapThenSumSet(LAMBDA d : f[d], S)

(***************************************************************************)
(* Claim::sanitised: a floor counts for no more than the want above it.    *)
(***************************************************************************)
AtLeastZero(p) == Max({p, 0})

Wanted(claims) == [d \in DOMAIN claims |-> claims[d].want]
Floor(claims)  == [d \in DOMAIN claims |-> Min({claims[d].floor, claims[d].want})]
Room(claims)   == [d \in DOMAIN claims |-> claims[d].want - Floor(claims)[d]]
WeightOf(claims) == [d \in DOMAIN claims |-> claims[d].weight]

TotalWant(claims)  == Total(Wanted(claims), DOMAIN claims)
TotalFloor(claims) == Total(Floor(claims), DOMAIN claims)

(***************************************************************************)
(* Water filling above the floors.  While a claim would be satisfied       *)
(* before the water runs out, the tightest ones are filled and leave; what *)
(* is left is poured over the rest in proportion to their weights.         *)
(***************************************************************************)
Left(budget, claims, active) ==
    budget - TotalFloor(claims) - Total(Room(claims), DOMAIN claims \ active)

TotalWeight(claims, active) == Total(WeightOf(claims), active)

Tightest(claims, active) ==
    {d \in active : \A e \in active :
        Room(claims)[d] * claims[e].weight <= Room(claims)[e] * claims[d].weight}

Satisfied(budget, claims, active) ==
    {d \in Tightest(claims, active) :
        Room(claims)[d] * TotalWeight(claims, active)
            < Left(budget, claims, active) * claims[d].weight}

Pour(budget, claims, active) ==
    [d \in DOMAIN claims |->
        IF d \in active
        THEN Floor(claims)[d] + (Left(budget, claims, active) * claims[d].weight)
                                    \div TotalWeight(claims, active)
        ELSE claims[d].want]

Poured(budget, claims) ==
    LET pour[active \in SUBSET DOMAIN claims] ==
            IF Satisfied(budget, claims, active) # {}
            THEN pour[active \ Satisfied(budget, claims, active)]
            ELSE Table(Pour(budget, claims, active))
    IN  pour[DOMAIN claims]

(***************************************************************************)
(* allocate: everything that fits is served; floors that do not fit are    *)
(* scaled down together; otherwise the water is poured.                    *)
(***************************************************************************)
Allocate(budget, claims) ==
    IF TotalWant(claims) <= AtLeastZero(budget)
    THEN [d \in DOMAIN claims |-> claims[d].want]
    ELSE IF TotalFloor(claims) > AtLeastZero(budget)
    THEN [d \in DOMAIN claims |->
            (Floor(claims)[d] * AtLeastZero(budget)) \div TotalFloor(claims)]
    ELSE Poured(AtLeastZero(budget), claims)

FloorsDoNotFit(budget, claims) ==
    /\ TotalWant(claims) > AtLeastZero(budget)
    /\ TotalFloor(claims) > AtLeastZero(budget)

(***************************************************************************)
(* allocate_indivisible: while the floors do not fit and there is more     *)
(* than one device left, the lowest weight goes, then the largest floor,   *)
(* then the first identifier, and the rest is shared again.                *)
(***************************************************************************)
ShedFirst(claims, a, b) ==
    \/ claims[a].weight < claims[b].weight
    \/ /\ claims[a].weight = claims[b].weight
       /\ \/ claims[a].floor > claims[b].floor
          \/ /\ claims[a].floor = claims[b].floor
             /\ Order[a] <= Order[b]

Shed(claims, active) ==
    LET holding == {d \in active : claims[d].floor > 0}
    IN  CHOOSE d \in holding : \A e \in holding : ShedFirst(claims, d, e)

Only(claims, active) == Table([d \in active |-> claims[d]])

(* What the devices that are left get; those that were shed get nothing. *)
SharedBy(budget, claims, active) ==
    LET grants == Allocate(budget, Only(claims, active))
    IN  [d \in DOMAIN claims |-> IF d \in active THEN grants[d] ELSE 0]

AllocateIndivisible(budget, claims) ==
    LET shared[active \in SUBSET DOMAIN claims] ==
            IF Cardinality(active) > 1 /\ FloorsDoNotFit(budget, Only(claims, active))
            THEN shared[active \ {Shed(claims, active)}]
            ELSE Table(SharedBy(budget, claims, active))
    IN  shared[DOMAIN claims]
=============================================================================
