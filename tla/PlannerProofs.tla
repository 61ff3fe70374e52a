---------------------------- MODULE PlannerProofs ----------------------------
(***************************************************************************)
(* Rounds and what they publish.  First the planner and the control loop   *)
(* for every length of a quarter hour, of a round and of the planner's     *)
(* timer: their types, that a plan that is followed is fresh, and which    *)
(* registers can be lost.  Then tariffd, whose prices a round asks for,    *)
(* for any sources, resolutions and intervals: that the best price stands, *)
(* that nothing is unlearned, and that every source is asked in its turn.  *)
(***************************************************************************)
EXTENDS Planner, Prices, FiniteSetTheorems, TLAPS

-----------------------------------------------------------------------------
(* Arithmetic *)

(* The library's Max and Min of a pair. *)
LEMMA MaxOfTwo ==
  ASSUME NEW a \in Int, NEW b \in Int
  PROVE  Max({a, b}) = IF a >= b THEN a ELSE b
<1>1. PICK m \in {a, b} : \A y \in {a, b} : m >= y
  OBVIOUS
<1> QED BY <1>1 DEF Max

(* A product grows with its factor. *)
LEMMA Product ==
  ASSUME NEW n \in Nat, NEW p \in Int, NEW q \in Int, p <= q
  PROVE  n * p <= n * q /\ n * p \in Int /\ n * q \in Int
OBVIOUS

LEMMA Divided ==
  ASSUME NEW x \in Int, NEW n \in Nat \ {0}
  PROVE  /\ x \div n \in Int /\ x % n \in 0 .. n - 1
         /\ x = (n * (x \div n)) + (x % n)
OBVIOUS

(* How long ago the horizon of the oldest round that matters began. *)
Reach == Horizon * SlotLen

LEMMA Sizes ==
  /\ Reach \in Nat /\ 2 * SlotLen <= Reach
  /\ OldStack \in Nat /\ OldStack >= 1 /\ OldPlan \in Nat
<1>1. SlotLen * 2 <= SlotLen * Horizon
  BY PlannerAssumption, Product
<1> QED BY <1>1, PlannerAssumption DEF Reach, OldStack, OldPlan

LEMMA OlderIs ==
  ASSUME NEW age \in Nat, NEW most \in Nat
  PROVE  /\ Older(age, most) \in Nat /\ Older(age, most) <= age + 1
         /\ most >= 1 => Older(age, most) >= 1
BY DEF Older

-----------------------------------------------------------------------------
(* Which quarter hour an instant lies in *)

LEMMA SlotsAgoIs ==
  ASSUME into \in 0 .. SlotLen - 1, NEW age \in Nat
  PROVE  /\ SlotsAgo(age) \in Nat
         /\ age > into =>
              \E d \in Nat : /\ SlotsAgo(age) = d + 1
                             /\ SlotLen * d <= age - into - 1
                             /\ age - into - 1 < (SlotLen * d) + SlotLen
<1>1. CASE age <= into
  BY <1>1, PlannerAssumption DEF SlotsAgo
<1>2. CASE age > into
  <2> DEFINE x == age - into - 1
             d == x \div SlotLen
  <2>1. /\ SlotsAgo(age) = d + 1 /\ x \in Nat
        /\ d \in Int /\ x = (SlotLen * d) + (x % SlotLen) /\ x % SlotLen \in 0 .. SlotLen - 1
    BY <1>2, Divided, PlannerAssumption DEF SlotsAgo
  <2> HIDE DEF d, x
  <2>2. d >= 0
    <3>1. CASE d <= -1
      <4>1. SlotLen * d <= SlotLen * (-1)
        BY <2>1, <3>1, Product, PlannerAssumption
      <4>2. SlotLen * (-1) = -SlotLen
        BY PlannerAssumption
      <4> QED BY <2>1, <4>1, <4>2, PlannerAssumption
    <3> QED BY <2>1, <3>1
  <2>3. SlotLen * d \in Int
    BY <2>1, PlannerAssumption
  <2> QED BY <1>2, <2>1, <2>2, <2>3, PlannerAssumption DEF x
<1> QED BY <1>1, <1>2, PlannerAssumption

(* Prices that have the running quarter hour began with a recent one. *)
LEMMA CoversTheRunning ==
  ASSUME into \in 0 .. SlotLen - 1, NEW age \in Nat, Covers(age, 0)
  PROVE  age <= into + Reach - SlotLen
<1>1. CASE age <= into
  BY <1>1, Sizes, PlannerAssumption
<1>2. CASE age > into
  <2>1. PICK d \in Nat : /\ SlotsAgo(age) = d + 1
                         /\ age - into - 1 < (SlotLen * d) + SlotLen
    BY <1>2, SlotsAgoIs
  <2>2. d + 2 <= Horizon
    BY <2>1, PlannerAssumption DEF Covers
  <2>3. SlotLen * (d + 2) <= SlotLen * Horizon
    BY <2>2, Product, PlannerAssumption
  <2>4. SlotLen * (d + 2) = (SlotLen * d) + SlotLen + SlotLen /\ SlotLen * Horizon = Reach
    BY PlannerAssumption DEF Reach
  <2> QED BY <2>1, <2>3, <2>4, Sizes, PlannerAssumption
<1> QED BY <1>1, <1>2, PlannerAssumption

(* At the beginning of a quarter hour, prices that began before it and not *)
(* too long ago have the one that is over.                                 *)
LEMMA CoversTheLast ==
  ASSUME into = 0, NEW age \in Nat, 1 <= age, age <= Reach
  PROVE  Covers(age, 1)
<1>1. into \in 0 .. SlotLen - 1
  BY PlannerAssumption
<1>2. PICK d \in Nat : SlotsAgo(age) = d + 1 /\ SlotLen * d <= age - into - 1
  BY <1>1, SlotsAgoIs
<1>3. CASE Horizon <= d
  <2>1. SlotLen * Horizon <= SlotLen * d /\ SlotLen * d \in Int
    BY <1>3, Product, PlannerAssumption
  <2>2. SlotLen * Horizon = Reach
    BY PlannerAssumption DEF Reach
  <2> QED BY <1>2, <2>1, <2>2, Sizes
<1>4. CASE d < Horizon
  BY <1>2, <1>4, PlannerAssumption DEF Covers
<1> QED BY <1>3, <1>4, PlannerAssumption

-----------------------------------------------------------------------------
(* The invariant *)

(* The loop has not had its turn yet when the last quarter hour is open,   *)
(* and only a round that makes for an upset has begun in the next one.     *)
Turns ==
    /\ open => into = 0 /\ ~ticked
    /\ open /\ ~upset /\ round # None => round.age >= 1

(* What a round reads it reads after it has begun. *)
ReadWithin ==
    /\ round # None => round.read = None \/ round.read <= round.age
    /\ round # None /\ round.stage = "solving" => round.read # None
    /\ plan # None => plan.read <= plan.age

(* Prices that stood at the last tick still have its quarter hour, and     *)
(* begin before its end, unless there was an upset.                        *)
OfferStands ==
    /\ offered /\ ~upset /\ ~open => stack # None /\ stack.age <= into + Reach - SlotLen
    /\ offered /\ ~upset /\ open => stack # None /\ stack.age <= Reach
    /\ open /\ ~upset => stack = None \/ stack.age >= 1

IInv == TypeOK /\ Turns /\ ReadWithin /\ OfferStands /\ LostOnlyToARound

LEMMA InitIInv == Init => IInv
<1> SUFFICES ASSUME Init PROVE IInv
  OBVIOUS
<1>1. timer \in 0 .. ReplanEvery - 1
  BY PlannerAssumption DEF Init
<1>2. TypeOK
  <2>1. {ticked, due, sky, open, metered, offered, upset} \subseteq BOOLEAN /\ {up, solvable} \subseteq BOOLEAN
    BY Zenon DEF Init
  <2>2. round = None /\ stack = None /\ plan = None /\ closed = None /\ curve = None
    BY DEF Init
  <2>3. into \in 0 .. SlotLen - 1 /\ timer \in 0 .. ReplanEvery - 1 /\ restarts \in 0 .. MaxRestarts
    BY <1>1, PlannerAssumption DEF Init
  <2> QED BY <2>1, <2>2, <2>3 DEF TypeOK
<1>3. Turns /\ ReadWithin
  BY DEF Init, Turns, ReadWithin
<1>4. OfferStands /\ LostOnlyToARound
  BY DEF Init, OfferStands, LostOnlyToARound
<1> QED BY <1>2, <1>3, <1>4 DEF IInv

LEMMA RoundIs ==
  ASSUME IInv, round # None
  PROVE  /\ round \in Round
         /\ round.stage \in {"asking", "asked", "solving"}
         /\ round.age \in Nat /\ round.age <= RoundMost
         /\ round.read \in Nat \cup {None}
BY DEF IInv, TypeOK, Round

LEMMA RoundBeginsIInv == IInv /\ RoundBegins => IInv'
<1> SUFFICES ASSUME IInv, RoundBegins PROVE IInv'
  OBVIOUS
<1> DEFINE r == [stage |-> "asking", age |-> 0, read |-> None]
<1>1. /\ round' = r /\ r \in Round /\ r # None
      /\ r.age = 0 /\ r.read = None /\ r.stage = "asking" /\ r.age <= RoundMost
  BY PlannerAssumption DEF RoundBegins, Round
<1>2. /\ due' = FALSE /\ upset' = (upset \/ open)
      /\ UNCHANGED <<into, ticked, timer, curve, sky, stack, plan, open, metered, offered,
                     closed, up, solvable, restarts>>
  BY DEF RoundBegins, cached, published, carried, world
<1> HIDE DEF r
<1>3. TypeOK'
  BY <1>1, <1>2, PlannerAssumption DEF IInv, TypeOK
<1>4. Turns'
  BY <1>1, <1>2 DEF IInv, Turns
<1>5. ReadWithin'
  BY <1>1, <1>2 DEF IInv, ReadWithin
<1>6. OfferStands' /\ LostOnlyToARound'
  BY <1>2 DEF IInv, OfferStands, LostOnlyToARound
<1> QED BY <1>3, <1>4, <1>5, <1>6 DEF IInv

LEMMA RefreshIInv == IInv /\ Refresh => IInv'
<1> SUFFICES ASSUME IInv, Refresh PROVE IInv'
  OBVIOUS
<1> DEFINE r == [stage |-> "asked", age |-> round.age, read |-> round.read]
<1>1. round # None /\ round.stage = "asking"
  BY DEF Refresh
<1>2. /\ round' = r /\ r \in Round /\ r # None /\ r.age = round.age /\ r.read = round.read
      /\ r.stage = "asked"
  BY <1>1, RoundIs, PlannerAssumption DEF Refresh, Round
<1>3. UNCHANGED <<into, ticked, due, timer, stack, plan, open, metered, offered, upset,
                  closed, up, solvable, restarts>>
  BY DEF Refresh, published, carried, world
<1> HIDE DEF r
<1>4. curve' \in -1 .. Horizon \cup {None}
  <2>1. CASE AskPrices
    <3>1. PICK n \in Answers : curve' = Max({n - SlotsAgo(round.age), -1})
      BY <2>1 DEF AskPrices
    <3>2. n \in 0 .. Horizon /\ SlotsAgo(round.age) \in Nat
      BY <1>1, RoundIs, SlotsAgoIs, PlannerAssumption DEF IInv, TypeOK
    <3>3. curve' = IF n - SlotsAgo(round.age) >= -1 THEN n - SlotsAgo(round.age) ELSE -1
      BY <3>1, <3>2, MaxOfTwo
    <3> QED BY <3>2, <3>3, PlannerAssumption
  <2>2. CASE UNCHANGED curve
    BY <2>2 DEF IInv, TypeOK
  <2> QED BY <2>1, <2>2 DEF Refresh
<1>5. sky' \in BOOLEAN
  BY DEF Refresh, IInv, TypeOK
<1>6. TypeOK'
  BY <1>1, <1>2, <1>3, <1>4, <1>5 DEF IInv, TypeOK
<1>7. Turns'
  BY <1>1, <1>2, <1>3 DEF IInv, Turns
<1>8. ReadWithin'
  BY <1>1, <1>2, <1>3 DEF IInv, ReadWithin
<1>9. OfferStands' /\ LostOnlyToARound'
  BY <1>3 DEF IInv, OfferStands, LostOnlyToARound
<1> QED BY <1>6, <1>7, <1>8, <1>9 DEF IInv

LEMMA AttemptIInv == IInv /\ Attempt => IInv'
<1> SUFFICES ASSUME IInv, Attempt PROVE IInv'
  OBVIOUS
<1>1. round # None
  BY DEF Attempt
<1>2. /\ upset' \in BOOLEAN /\ (~upset' => ~upset /\ (curve # None => ~HorizonOver))
      /\ UNCHANGED <<into, ticked, due, timer, curve, sky, plan, open, metered, offered,
                     closed, up, solvable, restarts>>
  BY DEF Attempt, cached, carried, world
<1>3. \/ round' = None
      \/ /\ round' \in Round /\ round' # None /\ round'.age = round.age /\ round'.read = 0
  <2> DEFINE r == [stage |-> "solving", age |-> round.age, read |-> 0]
  <2>1. r \in Round /\ r # None /\ r.age = round.age /\ r.read = 0
    BY <1>1, RoundIs, PlannerAssumption DEF Round
  <2>2. round' = None \/ round' = r
    BY DEF Attempt
  <2> HIDE DEF r
  <2> QED BY <2>1, <2>2
<1>4. \/ stack' = stack
      \/ /\ curve # None /\ stack' \in Stack /\ stack' # None /\ stack'.age = round.age
         /\ stack'.reach \in -1 .. Horizon
  BY <1>1, RoundIs, PlannerAssumption DEF Attempt, Stack, IInv, TypeOK
<1>5. TypeOK'
  BY <1>1, <1>2, <1>3, <1>4, RoundIs DEF IInv, TypeOK
<1>6. Turns'
  BY <1>1, <1>2, <1>3 DEF IInv, Turns
<1>7. ReadWithin'
  BY <1>1, <1>2, <1>3, RoundIs, PlannerAssumption DEF IInv, ReadWithin
<1>8. OfferStands'
  <2>1. into \in 0 .. SlotLen - 1 /\ round.age \in Nat
    BY <1>1, RoundIs DEF IInv, TypeOK
  <2>2. ~HorizonOver => round.age <= into + Reach - SlotLen
    <3> SUFFICES ASSUME ~HorizonOver PROVE Covers(round.age, 0)
      BY <2>1, CoversTheRunning
    <3> QED BY <2>1, SlotsAgoIs, PlannerAssumption DEF HorizonOver, Covers
  <2>3. open /\ ~upset => round.age >= 1 /\ into = 0
    BY <1>1 DEF IInv, Turns
  <2>4. Reach \in Nat /\ SlotLen \in Nat
    BY Sizes, PlannerAssumption
  <2>5. CASE stack' = stack
    BY <1>2, <2>5 DEF IInv, OfferStands
  <2>6. CASE curve # None /\ stack' # None /\ stack'.age = round.age
    BY <1>2, <2>1, <2>2, <2>3, <2>4, <2>6 DEF OfferStands
  <2> QED BY <1>4, <2>5, <2>6
<1>9. LostOnlyToARound'
  BY <1>2 DEF IInv, LostOnlyToARound
<1> QED BY <1>5, <1>6, <1>7, <1>8, <1>9 DEF IInv

LEMMA SolveEndsIInv == IInv /\ SolveEnds => IInv'
<1> SUFFICES ASSUME IInv, SolveEnds PROVE IInv'
  OBVIOUS
<1>1. round # None /\ round.stage = "solving" /\ round' = None
  BY DEF SolveEnds
<1>2. UNCHANGED <<into, ticked, due, timer, curve, sky, stack, open, metered, offered, upset,
                  closed, up, solvable, restarts>>
  BY DEF SolveEnds, cached, carried, world
<1>3. round.read \in Nat /\ round.read <= round.age
  BY <1>1, RoundIs DEF IInv, ReadWithin
<1>4. \/ plan' = plan
      \/ plan' \in Plan /\ plan'.age = round.age /\ plan'.read = round.read
  BY <1>1, <1>3, RoundIs DEF SolveEnds, Solved, Plan
<1>5. TypeOK'
  BY <1>1, <1>2, <1>4, RoundIs DEF IInv, TypeOK
<1>6. Turns'
  BY <1>1, <1>2 DEF IInv, Turns
<1>7. ReadWithin'
  BY <1>1, <1>3, <1>4 DEF IInv, ReadWithin
<1>8. OfferStands' /\ LostOnlyToARound'
  BY <1>2 DEF IInv, OfferStands, LostOnlyToARound
<1> QED BY <1>5, <1>6, <1>7, <1>8 DEF IInv

(* A quarter hour that was offered is closed while its prices are still    *)
(* those that have it, unless there was an upset since its last tick.      *)
LEMMA TickIInv == IInv /\ Tick => IInv'
<1> SUFFICES ASSUME IInv, Tick PROVE IInv'
  OBVIOUS
<1>1. /\ ticked' = TRUE /\ open' = FALSE /\ upset' = FALSE
      /\ UNCHANGED <<into, due, timer, round, curve, sky, stack, plan, up, solvable, restarts>>
      /\ metered' \in BOOLEAN /\ offered' \in BOOLEAN
      /\ offered' => stack # None /\ Covers(stack.age, 0)
  BY DEF Tick, cached, published, world
<1>2. into \in 0 .. SlotLen - 1 /\ (stack # None => stack.age \in Nat)
  BY DEF IInv, TypeOK, Stack
<1>3. \/ closed' = None
      \/ /\ open /\ closed' \in Closed /\ closed'.metered = metered
         /\ closed'.offered = offered /\ closed'.upset = upset
         /\ closed'.register = Registered
  <2>1. CASE open
    <3>1. Registered \in {"none", "priced", "fallback"}
      BY DEF Registered
    <3>2. {metered, offered, upset} \subseteq BOOLEAN
      BY DEF IInv, TypeOK
    <3> QED BY <2>1, <3>1, <3>2 DEF Tick, CloseTheQuarterHour, Closed
  <2>2. CASE ~open
    BY <2>2 DEF Tick, CloseTheQuarterHour
  <2> QED BY <2>1, <2>2
<1>4. TypeOK'
  BY <1>1, <1>3 DEF IInv, TypeOK
<1>5. Turns' /\ ReadWithin'
  BY <1>1 DEF IInv, Turns, ReadWithin
<1>6. OfferStands'
  BY <1>1, <1>2, CoversTheRunning DEF OfferStands
<1>7. LostOnlyToARound'
  <2> SUFFICES ASSUME open, metered, offered, ~upset PROVE Registered # "none"
    BY <1>1, <1>3 DEF IInv, LostOnlyToARound
  <2>1. into = 0 /\ stack # None /\ stack.age <= Reach /\ stack.age >= 1
    BY DEF IInv, Turns, OfferStands
  <2>2. Covers(stack.age, 1)
    BY <1>2, <2>1, CoversTheLast
  <2> QED BY <2>1, <2>2 DEF Registered
<1> QED BY <1>4, <1>5, <1>6, <1>7 DEF IInv

LEMMA OnePeriodOn ==
  ASSUME IInv, Advance
  PROVE  /\ into' \in 0 .. SlotLen - 1 /\ timer' \in 0 .. ReplanEvery - 1
         /\ into' # 0 => into' = into + 1
         /\ into' = 0 => into + 1 = SlotLen
<1>1. /\ into \in 0 .. SlotLen - 1 /\ into' = (into + 1) % SlotLen
      /\ timer \in 0 .. ReplanEvery - 1 /\ timer' = (timer + 1) % ReplanEvery
  BY DEF IInv, TypeOK, Advance
<1>2. \/ into + 1 < SlotLen /\ into' = into + 1
      \/ into + 1 = SlotLen /\ into' = 0
  BY <1>1, PlannerAssumption
<1> QED BY <1>1, <1>2, PlannerAssumption

LEMMA AdvanceIInv == IInv /\ Advance => IInv'
<1> SUFFICES ASSUME IInv, Advance PROVE IInv'
  OBVIOUS
<1>1. /\ ticked /\ ~(due /\ round = None) /\ ticked' = FALSE
      /\ due' = (due \/ timer' = 0) /\ open' = (into' = 0)
      /\ UNCHANGED <<sky, metered, offered, upset, closed, up, solvable, restarts>>
      /\ round # None => round.age < RoundMost
  BY DEF Advance, world
<1>2. ~open
  BY <1>1 DEF IInv, Turns
<1>3. /\ round = None => round' = None
      /\ round # None => /\ round' \in Round /\ round' # None
                         /\ round'.age = round.age + 1 /\ round'.stage = round.stage
                         /\ round'.read = IF round.read = None THEN None ELSE round.read + 1
  <2>1. round = None => round' = None
    BY DEF Advance
  <2>2. ASSUME round # None
        PROVE  /\ round' \in Round /\ round' # None
               /\ round'.age = round.age + 1 /\ round'.stage = round.stage
               /\ round'.read = IF round.read = None THEN None ELSE round.read + 1
    <3> DEFINE r == [stage |-> round.stage, age |-> round.age + 1, 
                   read |-> IF round.read = None THEN None ELSE round.read + 1]
    <3>1. round' = r
      BY <2>2, RoundIs DEF Advance, Round
    <3>2. r \in Round /\ r # None
      BY <2>2, RoundIs, PlannerAssumption DEF Round
    <3> QED BY <3>1, <3>2
  <2> QED BY <2>1, <2>2
<1>4. /\ plan = None => plan' = None
      /\ plan # None => /\ plan' \in Plan /\ plan' # None
                        /\ plan'.age = Older(plan.age, OldPlan) /\ plan'.read = Older(plan.read, OldPlan)
                        /\ plan.age \in Nat /\ plan.read \in Nat
  <2>1. plan = None => plan' = None
    BY DEF Advance
  <2>2. ASSUME plan # None
        PROVE  /\ plan' \in Plan /\ plan' # None
               /\ plan'.age = Older(plan.age, OldPlan) /\ plan'.read = Older(plan.read, OldPlan)
               /\ plan.age \in Nat /\ plan.read \in Nat
    <3> DEFINE p == [age |-> Older(plan.age, OldPlan), read |-> Older(plan.read, OldPlan)]
    <3>1. plan.age \in Nat /\ plan.read \in Nat
      BY <2>2 DEF IInv, TypeOK, Plan
    <3>2. plan' = p
      BY <2>2 DEF Advance
    <3>3. Older(plan.age, OldPlan) \in Nat /\ Older(plan.read, OldPlan) \in Nat
      BY <3>1, OlderIs, Sizes
    <3>4. p \in Plan
      BY <3>3 DEF Plan
    <3>5. p # None
      BY <3>4, PlannerAssumption
    <3> QED BY <3>1, <3>2, <3>4, <3>5
  <2> QED BY <2>1, <2>2
<1>5. /\ stack = None => stack' = None
      /\ stack # None => /\ stack' \in Stack /\ stack' # None
                         /\ stack'.age = Older(stack.age, OldStack) /\ stack.age \in Nat
                         /\ stack'.reach \in -1 .. Horizon
  <2>1. stack = None => stack' = None
    BY DEF Advance
  <2>2. ASSUME stack # None
        PROVE  /\ stack' \in Stack /\ stack' # None
               /\ stack'.age = Older(stack.age, OldStack) /\ stack.age \in Nat
               /\ stack'.reach \in -1 .. Horizon
    <3> DEFINE reach == IF into' = 0 THEN Max({stack.reach - 1, -1}) ELSE stack.reach
               k == [age |-> Older(stack.age, OldStack), reach |-> reach]
    <3>1. stack.age \in Nat /\ stack.reach \in -1 .. Horizon
      BY <2>2 DEF IInv, TypeOK, Stack
    <3>2. Max({stack.reach - 1, -1}) = IF stack.reach - 1 >= -1 THEN stack.reach - 1 ELSE -1
      BY <3>1, MaxOfTwo
    <3>3. reach \in -1 .. Horizon /\ reach \in Int
      BY <3>1, <3>2, PlannerAssumption
    <3>4. stack' = k
      BY <2>2 DEF Advance
    <3> HIDE DEF reach
    <3>5. Older(stack.age, OldStack) \in Nat
      BY <3>1, OlderIs, Sizes
    <3>6. k \in Stack
      BY <3>3, <3>5 DEF Stack
    <3>7. k # None
      BY <3>6, PlannerAssumption
    <3> QED BY <3>1, <3>3, <3>4, <3>6, <3>7
  <2> QED BY <2>1, <2>2
<1>6. curve' \in -1 .. Horizon \cup {None}
  <2>1. CASE curve = None \/ into' # 0
    BY <2>1 DEF Advance, IInv, TypeOK
  <2>2. CASE curve # None /\ into' = 0
    <3>1. curve \in -1 .. Horizon /\ curve' = Max({curve - 1, -1})
      BY <2>2 DEF Advance, IInv, TypeOK
    <3>2. curve' = IF curve - 1 >= -1 THEN curve - 1 ELSE -1
      BY <3>1, MaxOfTwo
    <3> QED BY <3>1, <3>2, PlannerAssumption
  <2> QED BY <2>1, <2>2
<1>7. TypeOK'
  <2>1. {ticked, due, sky, open, metered, offered, upset}' \subseteq BOOLEAN
    BY <1>1 DEF IInv, TypeOK
  <2>2. /\ round' = None \/ (round' \in Round /\ round'.age <= RoundMost)
        /\ plan' \in Plan \cup {None}
        /\ stack' = None \/ (stack' \in Stack /\ stack'.reach \in -1 .. Horizon)
    BY <1>1, <1>3, <1>4, <1>5, RoundIs, PlannerAssumption
  <2> QED BY <1>1, <1>6, <2>1, <2>2, OnePeriodOn DEF IInv, TypeOK
<1>8. Turns'
  <2>1. open' => into' = 0 /\ ~ticked'
    BY <1>1
  <2>2. round' # None => round'.age >= 1
    BY <1>3, RoundIs
  <2> QED BY <2>1, <2>2 DEF Turns
<1>9. ReadWithin'
  <2>1. ASSUME round # None
        PROVE  /\ round'.read = None \/ round'.read <= round'.age
               /\ round'.stage = "solving" => round'.read # None
    <3>1. CASE round.read = None
      BY <1>3, <2>1, <3>1 DEF IInv, ReadWithin
    <3>2. CASE round.read \in Nat
      BY <1>3, <2>1, <3>2, RoundIs, PlannerAssumption DEF IInv, ReadWithin
    <3> QED BY <2>1, <3>1, <3>2, RoundIs
  <2>2. plan # None => plan'.read <= plan'.age
    BY <1>4, PlannerAssumption DEF IInv, ReadWithin, Older, OldPlan
  <2> QED BY <1>3, <1>4, <2>1, <2>2 DEF ReadWithin
<1>10. OfferStands'
  <2>1. ASSUME offered, ~upset
        PROVE  stack # None /\ stack.age <= into + Reach - SlotLen
    BY <1>2, <2>1 DEF IInv, OfferStands
  <2>2. stack # None => /\ Older(stack.age, OldStack) \in Nat
                        /\ Older(stack.age, OldStack) <= stack.age + 1
                        /\ Older(stack.age, OldStack) >= 1
    BY <1>5, OlderIs, Sizes
  <2>3. into \in Int /\ SlotLen \in Int /\ Reach \in Int
    BY Sizes, PlannerAssumption DEF IInv, TypeOK
  <2>4. into' = 0 => into + 1 = SlotLen
    BY OnePeriodOn
  <2>5. into' # 0 => into' = into + 1
    BY OnePeriodOn
  <2>6. stack # None => stack.age \in Nat /\ stack'.age \in Int /\ stack'.age = Older(stack.age, OldStack)
    BY <1>5, <2>2
  <2>7. offered' = offered /\ upset' = upset /\ (open' <=> into' = 0)
    BY <1>1
  <2>8. ASSUME offered, ~upset
        PROVE  /\ stack' # None /\ stack'.age >= 1 /\ stack'.age <= into + 1 + Reach - SlotLen
               /\ stack'.age \in Int
    BY <1>5, <2>1, <2>2, <2>3, <2>6, <2>8
  <2>9. offered /\ ~upset /\ ~open' => stack' # None /\ stack'.age <= into' + Reach - SlotLen
    BY <2>3, <2>5, <2>7, <2>8
  <2>10. offered /\ ~upset /\ open' => stack' # None /\ stack'.age <= Reach
    BY <2>3, <2>4, <2>7, <2>8
  <2>11. stack' = None \/ stack'.age >= 1
    BY <1>5, <2>2, <2>6
  <2> QED BY <2>7, <2>9, <2>10, <2>11 DEF OfferStands
<1>11. LostOnlyToARound'
  BY <1>1 DEF IInv, LostOnlyToARound
<1> QED BY <1>7, <1>8, <1>9, <1>10, <1>11 DEF IInv

LEMMA RestartIInv == IInv /\ Restart => IInv'
<1> SUFFICES ASSUME IInv, Restart PROVE IInv'
  OBVIOUS
<1>1. /\ round' = None /\ curve' = None /\ stack' = None /\ plan' = None /\ closed' = None
      /\ due' = TRUE /\ ticked' = FALSE /\ sky' = FALSE
      /\ open' = FALSE /\ metered' = FALSE /\ offered' = FALSE /\ upset' = FALSE
      /\ timer' = 0 /\ restarts < MaxRestarts /\ restarts' = restarts + 1
      /\ UNCHANGED <<into, up, solvable>>
  BY DEF Restart
<1>2. into \in 0 .. SlotLen - 1 /\ timer' \in 0 .. ReplanEvery - 1
  BY <1>1, PlannerAssumption DEF IInv, TypeOK
<1>3. TypeOK'
  <2>1. {ticked, due, sky, open, metered, offered, upset}' \subseteq BOOLEAN
    BY <1>1, Zenon
  <2>2. {up, solvable}' \subseteq BOOLEAN /\ restarts' \in 0 .. MaxRestarts
    BY <1>1, PlannerAssumption DEF IInv, TypeOK
  <2> QED BY <1>1, <1>2, <2>1, <2>2 DEF TypeOK
<1>4. Turns' /\ ReadWithin'
  BY <1>1 DEF Turns, ReadWithin
<1>5. OfferStands' /\ LostOnlyToARound'
  BY <1>1 DEF OfferStands, LostOnlyToARound
<1> QED BY <1>3, <1>4, <1>5 DEF IInv

(* What changes neither of the two tasks changes nothing of this. *)
LEMMA WorldIInv == IInv /\ (FleetChanges \/ ProblemChanges) => IInv'
<1> SUFFICES ASSUME IInv, FleetChanges \/ ProblemChanges PROVE IInv'
  OBVIOUS
<1>1. /\ UNCHANGED <<into, ticked, due, timer, round, curve, sky, stack, plan, open, metered,
                     offered, upset, closed, restarts>>
      /\ up' \in BOOLEAN /\ solvable' \in BOOLEAN
  BY DEF FleetChanges, ProblemChanges, cached, published, carried, IInv, TypeOK
<1>2. TypeOK'
  BY <1>1 DEF IInv, TypeOK
<1> QED BY <1>1, <1>2 DEF IInv, Turns, ReadWithin, OfferStands, LostOnlyToARound

(* Readings are no older than their round, and what was offered stands     *)
(* until it is closed, unless there was an upset.                          *)
THEOREM Invariance == Spec => []IInv
<1>1. ASSUME IInv, [Next]_vars
      PROVE  IInv'
  <2>1. CASE Next
    BY <1>1, <2>1, RoundBeginsIInv, RefreshIInv, AttemptIInv, SolveEndsIInv, TickIInv,
       AdvanceIInv, RestartIInv, WorldIInv DEF Next, PlannerStep
  <2>2. CASE UNCHANGED vars
    BY <1>1, <2>2 DEF vars, IInv, TypeOK, Turns, ReadWithin, OfferStands, LostOnlyToARound
  <2> QED BY <1>1, <2>1, <2>2
<1> QED BY <1>1, InitIInv, PTL DEF Spec

-----------------------------------------------------------------------------
(* The theorems *)

(* The planner's rounds and what they publish, and the loop's quarter hour, *)
(* are what their types say, for every length of either.                   *)
THEOREM TypeCorrect == Spec => []TypeOK
<1>1. IInv => TypeOK
  BY DEF IInv
<1> QED BY <1>1, Invariance, PTL

(* No plan is followed with readings older than a plan may be, however long *)
(* its round took: created_at is the instant the round began with, and what *)
(* it read it read later.                                                  *)
THEOREM FollowedAreFresh == Spec => []FollowedIsFresh
<1>1. ASSUME IInv, Follows
      PROVE  plan.read <= MaxAge
  <2>1. plan # None /\ plan.age <= MaxAge /\ plan.read <= plan.age
    BY <1>1 DEF Follows, IInv, ReadWithin
  <2>2. plan.age \in Int /\ plan.read \in Int /\ MaxAge \in Int
    BY <1>1, <2>1, PlannerAssumption DEF IInv, TypeOK, Plan
  <2> QED BY <2>1, <2>2
<1> QED BY <1>1, Invariance, PTL DEF FollowedIsFresh

(* A measured quarter hour whose prices stood when it was last ticked has a *)
(* register, except where a round began in the next one before the loop    *)
(* closed it: close_the_quarter_hour reads the prices of before that.      *)
(* Nothing is assumed of the planner's timer against the quarter hour, nor *)
(* of how long a round lasts: one whose horizon is over when it publishes  *)
(* is the other exception.                                                 *)
THEOREM LostOnlyToRounds == Spec => []LostOnlyToARound
<1>1. IInv => LostOnlyToARound
  BY DEF IInv
<1> QED BY <1>1, Invariance, PTL
-----------------------------------------------------------------------------
(***************************************************************************)
(* The prices a round asks for: tariffd is another process, with a clock,  *)
(* rounds and restarts of its own.                                         *)
(***************************************************************************)

(* What the cache has it was told. *)
Told == \A k \in Slots : cache[k] # Nothing => cache[k] \in seen[k]

PricesInv == PricesTypeOK /\ Told /\ overtaken = {} /\ TheBestSeen /\ NothingIsUnlearned

LEMMA ReadingIs ==
  ASSUME NEW o \in Reading
  PROVE  o # Nothing /\ o.source \in Nat /\ o.minutes \in Nat
<1>1. UNION {Minutes[s] : s \in Sources} \subseteq Nat
  BY PricesAssumption
<1>2. o \in [source : Nat, minutes : Nat]
  BY <1>1, PricesAssumption DEF Reading
<1> QED BY <1>2, PricesAssumption

(* The order in which readings take each other's place: a linear one. *)
Best(k) == \A o \in seen[k] : \/ o.source < cache[k].source
                              \/ o.source = cache[k].source /\ o.minutes >= cache[k].minutes

LEMMA IInvIs ==
  ASSUME PricesInv, NEW k \in Slots
  PROVE  /\ seen[k] \subseteq Reading /\ cache[k] \in Reading \cup {Nothing}
         /\ cache[k] # Nothing => cache[k] \in seen[k] /\ cache[k] \in Reading
         /\ cache[k] = Nothing => seen[k] = {}
         /\ Best(k)
<1>1. seen[k] \subseteq Reading /\ cache[k] \in Reading \cup {Nothing}
  BY DEF PricesInv, PricesTypeOK
<1>2. cache[k] # Nothing => cache[k] \in seen[k] /\ cache[k] \in Reading
  BY <1>1 DEF PricesInv, Told
<1>3. cache[k] = Nothing => seen[k] = {}
  BY <1>1, ReadingIs DEF PricesInv, TheBestSeen
<1> QED BY <1>1, <1>2, <1>3 DEF PricesInv, TheBestSeen, Best

(* Whoever is asked when, a merge leaves the best of what has been said.   *)
LEMMA MergeKeepsTheBest ==
  ASSUME PricesInv, NEW new \in Reading, NEW slots \in SUBSET Slots, Merge(new, slots)
  PROVE  /\ cache' \in [Slots -> Reading \cup {Nothing}] /\ seen' \in [Slots -> SUBSET Reading]
         /\ overtaken' = {} /\ Told' /\ TheBestSeen' /\ Priced \subseteq Priced'
<1>1. new # Nothing /\ new.source \in Nat /\ new.minutes \in Nat
  BY ReadingIs
<1>2. /\ cache' = [k \in Slots |-> IF k \in slots /\ Taken(k, new) THEN new ELSE cache[k]]
      /\ seen' = [k \in Slots |-> IF k \in slots THEN seen[k] \cup {new} ELSE seen[k]]
  BY DEF Merge
<1>3. cache' \in [Slots -> Reading \cup {Nothing}] /\ seen' \in [Slots -> SUBSET Reading]
  BY <1>2, IInvIs
<1>4. overtaken' = {}
  <2>1. ASSUME NEW k \in slots, cache[k] = new PROVE Taken(k, new)
    BY <1>1, <2>1 DEF Taken, SupersededBy
  <2> QED BY <2>1 DEF Merge, PricesInv
<1>5. ASSUME NEW k \in Slots
      PROVE  /\ cache'[k] # Nothing => cache'[k] \in seen'[k]
             /\ seen'[k] # {} => cache'[k] \in seen'[k]
             /\ Best(k)'
             /\ cache[k] # Nothing => cache'[k] # Nothing
  <2>1. CASE k \notin slots
    <3>1. cache'[k] = cache[k] /\ seen'[k] = seen[k]
      BY <1>2, <2>1
    <3> QED BY <3>1, IInvIs DEF Best
  <2>2. CASE k \in slots /\ Taken(k, new)
    <3>1. cache'[k] = new /\ seen'[k] = seen[k] \cup {new}
      BY <1>2, <2>2
    <3>2. ASSUME NEW o \in seen[k]
          PROVE  o.source < new.source \/ (o.source = new.source /\ o.minutes >= new.minutes)
      <4>1. cache[k] # Nothing /\ cache[k] \in Reading /\ o \in Reading
        BY IInvIs
      <4>2. SupersededBy(cache[k], new)
        BY <2>2, <4>1 DEF Taken
      <4>3. \/ o.source < cache[k].source
            \/ o.source = cache[k].source /\ o.minutes >= cache[k].minutes
        BY IInvIs DEF Best
      <4> QED BY <1>1, <4>1, <4>2, <4>3, ReadingIs DEF SupersededBy
    <3> QED BY <1>1, <3>1, <3>2 DEF Best
  <2>3. CASE k \in slots /\ ~Taken(k, new)
    <3>1. cache'[k] = cache[k] /\ seen'[k] = seen[k] \cup {new}
      BY <1>2, <2>3
    <3>2. cache[k] # Nothing /\ cache[k] \in Reading /\ cache[k] \in seen[k]
          /\ ~SupersededBy(cache[k], new)
      BY <2>3, IInvIs DEF Taken
    <3>3. \/ new.source < cache[k].source
          \/ new.source = cache[k].source /\ new.minutes >= cache[k].minutes
      BY <1>1, <3>2, ReadingIs DEF SupersededBy
    <3> QED BY <3>1, <3>2, <3>3, IInvIs DEF Best
  <2> QED BY <2>1, <2>2, <2>3
<1>6. Told' /\ Priced \subseteq Priced'
  BY <1>5 DEF Told, Priced
<1>7. TheBestSeen'
  BY <1>4, <1>5 DEF TheBestSeen, Best
<1> QED BY <1>3, <1>4, <1>6, <1>7

-----------------------------------------------------------------------------
(* The invariant, step by step *)

LEMMA InitPricesInv == PricesInit => PricesInv
<1> SUFFICES ASSUME PricesInit PROVE PricesInv
  OBVIOUS
<1>1. PricesTypeOK
  <2>1. restarted \in BOOLEAN
    BY DEF PricesInit
  <2>2. failures \in [Sources -> 0 .. Doublings]
    BY PricesAssumption DEF PricesInit
  <2>3. cache \in [Slots -> Reading \cup {Nothing}] /\ seen \in [Slots -> SUBSET Reading]
    BY DEF PricesInit
  <2> QED BY <2>1, <2>2, <2>3, PricesAssumption DEF PricesInit, PricesTypeOK
<1>2. Told /\ overtaken = {} /\ TheBestSeen /\ NothingIsUnlearned
  BY DEF PricesInit, Told, TheBestSeen, NothingIsUnlearned
<1> QED BY <1>1, <1>2 DEF PricesInv

(* What touches none of the prices. *)
LEMMA PricesUnchanged ==
  ASSUME PricesInv, PricesTypeOK', UNCHANGED <<cache, seen, overtaken, kept, restarted>>
  PROVE  PricesInv'
BY DEF PricesInv, Told, TheBestSeen, NothingIsUnlearned, Priced

LEMMA RoundBeginsPricesInv == PricesInv /\ AskingBegins => PricesInv'
<1> SUFFICES ASSUME PricesInv, AskingBegins PROVE PricesInv'
  OBVIOUS
<1>1. asking' \in Asking
  BY PricesAssumption DEF AskingBegins, Asking, Due
<1>2. PricesTypeOK' /\ UNCHANGED <<cache, seen, overtaken, kept, restarted>>
  BY <1>1 DEF PricesInv, PricesTypeOK, AskingBegins, schedule, history, box
<1> QED BY <1>2, PricesUnchanged

LEMMA FetchPricesInv == PricesInv /\ Fetch => PricesInv'
<1> SUFFICES ASSUME PricesInv, Fetch PROVE PricesInv'
  OBVIOUS
<1>1. asking \in Asking /\ UNCHANGED <<elapsed, sleep, kept, restarted, reliable, resets>>
  BY DEF PricesInv, PricesTypeOK, Fetch, box
<1>2. PICK s \in asking.left : /\ Answered(s) \/ Failed(s)
                              /\ asking' = [asking EXCEPT !.left = @ \ {s}]
  BY DEF Fetch
<1>3. s \in Sources /\ asking' \in Asking
  BY <1>1, <1>2 DEF Asking
<1>4. failures' \in [Sources -> 0 .. Doublings]
  <2>1. PICK f : f \in 0 .. Doublings /\ Scheduled(s, f)
    <3>1. CASE Answered(s)
      BY <3>1, PricesAssumption DEF Answered
    <3>2. CASE Failed(s)
      <4>1. failures[s] \in 0 .. Doublings
        BY <1>3 DEF PricesInv, PricesTypeOK
      <4>2. Min({failures[s] + 1, Doublings}) \in 0 .. Doublings
        <5>1. PICK m \in {failures[s] + 1, Doublings} :
                     \A y \in {failures[s] + 1, Doublings} : m <= y
          BY <4>1, PricesAssumption
        <5> QED BY <4>1, <5>1, PricesAssumption DEF Min
      <4> QED BY <3>2, <4>2 DEF Failed
    <3> QED BY <1>2, <3>1, <3>2
  <2> QED BY <2>1 DEF Scheduled, PricesInv, PricesTypeOK
<1>5. CASE Answered(s)
  <2>1. PICK m \in Minutes[s], slots \in SUBSET Slots : Merge([source |-> s, minutes |-> m], slots)
    BY <1>5 DEF Answered
  <2>2. [source |-> s, minutes |-> m] \in Reading
    BY <1>3, <2>1 DEF Reading
  <2>3. /\ cache' \in [Slots -> Reading \cup {Nothing}] /\ seen' \in [Slots -> SUBSET Reading]
        /\ overtaken' = {} /\ Told' /\ TheBestSeen' /\ Priced \subseteq Priced'
    BY <2>1, <2>2, MergeKeepsTheBest
  <2>4. PricesTypeOK'
    BY <1>1, <1>3, <1>4, <2>3 DEF PricesInv, PricesTypeOK
  <2>5. NothingIsUnlearned'
    BY <1>1, <2>3 DEF PricesInv, NothingIsUnlearned
  <2> QED BY <2>3, <2>4, <2>5 DEF PricesInv
<1>6. CASE Failed(s)
  <2>1. UNCHANGED <<cache, seen, overtaken, kept, restarted>>
    BY <1>1, <1>6 DEF Failed, history
  <2>2. PricesTypeOK'
    BY <1>1, <1>3, <1>4, <2>1 DEF PricesInv, PricesTypeOK
  <2> QED BY <2>1, <2>2, PricesUnchanged
<1> QED BY <1>2, <1>5, <1>6

(* No published quarter hour is old enough to be pruned. *)
LEMMA NothingIsPruned ==
  ASSUME PricesInv, asking # Nothing, NEW k \in Slots
  PROVE  Retains(k)
<1>1. /\ k \in Nat /\ k <= Ahead /\ Ahead \in Nat /\ PriceLen \in Nat
      /\ elapsed \in Nat /\ asking.age \in Nat /\ asking.age <= AskingMost
  BY PricesAssumption DEF PricesInv, PricesTypeOK, Slots, Asking
<1>2. k * PriceLen <= Ahead * PriceLen /\ k * PriceLen \in Int /\ Ahead * PriceLen \in Int
  <2>1. (Ahead - k) * PriceLen >= 0
    BY <1>1
  <2>2. (Ahead - k) * PriceLen = (Ahead * PriceLen) - (k * PriceLen)
    BY <1>1
  <2> QED BY <1>1, <2>1, <2>2
<1> QED BY <1>1, <1>2, PricesAssumption DEF Retains

LEMMA RoundEndsPricesInv == PricesInv /\ AskingEnds => PricesInv'
<1> SUFFICES ASSUME PricesInv, AskingEnds PROVE PricesInv'
  OBVIOUS
<1>1. asking' = Nothing /\ UNCHANGED <<elapsed, wait, failures, seen, overtaken, kept, restarted, reliable, resets>>
  BY DEF AskingEnds, schedule, history, box
<1>2. cache' = cache
  <2>1. cache' = [k \in Slots |-> IF Retains(k) THEN cache[k] ELSE Nothing] /\ asking # Nothing
    BY DEF AskingEnds
  <2>2. cache' = [k \in Slots |-> cache[k]]
    BY <2>1, NothingIsPruned
  <2> QED BY <2>2 DEF PricesInv, PricesTypeOK
<1>3. PricesTypeOK'
  BY <1>1, <1>2 DEF PricesInv, PricesTypeOK
<1> QED BY <1>1, <1>2, <1>3, PricesUnchanged

LEMMA BoxAsksPricesInv == PricesInv /\ BoxAsks => PricesInv'
<1> SUFFICES ASSUME PricesInv, BoxAsks PROVE PricesInv'
  OBVIOUS
<1>1. /\ kept' = Priced /\ restarted' = FALSE
      /\ UNCHANGED <<elapsed, wait, failures, asking, sleep, cache, seen, overtaken, reliable, resets>>
  BY DEF BoxAsks, schedule, history
<1>2. PricesTypeOK'
  BY <1>1 DEF PricesInv, PricesTypeOK, Priced
<1>3. NothingIsUnlearned' /\ Told' /\ TheBestSeen'
  BY <1>1 DEF PricesInv, NothingIsUnlearned, Priced, Told, TheBestSeen
<1> QED BY <1>1, <1>2, <1>3 DEF PricesInv

(* A quarter hour on, what is known of the next one is known of the        *)
(* running one.                                                            *)
LEMMA AdvancePricesInv == PricesInv /\ TimePasses => PricesInv'
<1> SUFFICES ASSUME PricesInv, TimePasses PROVE PricesInv'
  OBVIOUS
<1>1. UNCHANGED <<failures, restarted, reliable, resets>> /\ elapsed' \in 0 .. PriceLen - 1
  <2>1. elapsed \in Int /\ elapsed' = (elapsed + 1) % PriceLen
    BY DEF PricesInv, PricesTypeOK, TimePasses
  <2> QED BY <2>1, PricesAssumption DEF TimePasses
<1>2. asking' = Nothing \/ asking' \in Asking
  <2>1. CASE asking = Nothing
    BY <2>1 DEF TimePasses
  <2>2. CASE asking # Nothing
    BY <2>2, PricesAssumption DEF TimePasses, PricesInv, PricesTypeOK, Asking
  <2> QED BY <2>1, <2>2
<1>3. CASE elapsed' # 0
  <2>1. UNCHANGED <<cache, seen, overtaken, kept>>
    BY <1>3 DEF TimePasses, history
  <2>2. PricesTypeOK'
    BY <1>1, <1>2, <2>1 DEF PricesInv, PricesTypeOK
  <2> QED BY <1>1, <2>1, <2>2, PricesUnchanged
<1>4. CASE elapsed' = 0
  <2>1. /\ cache' = [k \in Slots |-> IF k < Ahead THEN cache[k + 1] ELSE Nothing]
        /\ seen' = [k \in Slots |-> IF k < Ahead THEN seen[k + 1] ELSE {}]
        /\ overtaken' = {k \in Slots : k + 1 \in overtaken}
        /\ kept' = {k \in Slots : k + 1 \in kept}
    BY <1>4 DEF TimePasses, Shifted, Nearer
  <2>2. ASSUME NEW k \in Slots, k < Ahead
        PROVE  k + 1 \in Slots /\ cache'[k] = cache[k + 1] /\ seen'[k] = seen[k + 1]
    BY <2>1, <2>2, PricesAssumption DEF Slots
  <2>3. ASSUME NEW k \in Slots, ~(k < Ahead)
        PROVE  k + 1 \notin Slots /\ cache'[k] = Nothing /\ seen'[k] = {}
    BY <2>1, <2>3, PricesAssumption DEF Slots
  <2>4. PricesTypeOK'
    <3>1. cache' \in [Slots -> Reading \cup {Nothing}]
      BY <2>1, <2>2, IInvIs
    <3>2. seen' \in [Slots -> SUBSET Reading]
      BY <2>1, <2>2, IInvIs
    <3> QED BY <1>1, <1>2, <2>1, <3>1, <3>2 DEF PricesInv, PricesTypeOK
  <2>5. overtaken' = {}
    BY <2>1 DEF PricesInv
  <2>6. Told'
    BY <2>2, <2>3 DEF PricesInv, Told
  <2>7. TheBestSeen'
    BY <2>2, <2>3, <2>5 DEF PricesInv, TheBestSeen
  <2>8. NothingIsUnlearned'
    <3> SUFFICES ASSUME ~restarted, NEW k \in Slots, k + 1 \in kept PROVE cache'[k] # Nothing
      BY <1>1, <2>1 DEF NothingIsUnlearned, Priced
    <3>1. k + 1 \in Slots /\ cache[k + 1] # Nothing
      BY DEF PricesInv, NothingIsUnlearned, Priced
    <3> QED BY <2>2, <2>3, <3>1
  <2> QED BY <2>4, <2>5, <2>6, <2>7, <2>8 DEF PricesInv
<1> QED BY <1>3, <1>4

LEMMA SourceChangesPricesInv == PricesInv /\ SourceChanges => PricesInv'
<1> SUFFICES ASSUME PricesInv, SourceChanges PROVE PricesInv'
  OBVIOUS
<1>1. /\ reliable' \in SUBSET Sources
      /\ UNCHANGED <<elapsed, wait, failures, asking, sleep, cache, seen, overtaken, kept, restarted, resets>>
  BY DEF SourceChanges, schedule, history, box, PricesInv, PricesTypeOK
<1>2. PricesTypeOK'
  BY <1>1 DEF PricesInv, PricesTypeOK
<1> QED BY <1>1, <1>2, PricesUnchanged

LEMMA RestartPricesInv == PricesInv /\ ServiceRestarts => PricesInv'
<1> SUFFICES ASSUME PricesInv, ServiceRestarts PROVE PricesInv'
  OBVIOUS
<1>1. /\ asking' = Nothing /\ overtaken' = {} /\ restarted' = TRUE /\ UNCHANGED <<elapsed, kept, reliable>>
      /\ cache' = [k \in Slots |-> Nothing] /\ seen' = [k \in Slots |-> {}]
      /\ failures' = [s \in Sources |-> 0]
      /\ resets < MaxResets /\ resets' = resets + 1
  BY DEF ServiceRestarts
<1>2. PricesTypeOK'
  <2>1. failures' \in [Sources -> 0 .. Doublings] /\ resets' \in 0 .. MaxResets
    BY <1>1, PricesAssumption DEF PricesInv, PricesTypeOK
  <2>2. cache' \in [Slots -> Reading \cup {Nothing}] /\ seen' \in [Slots -> SUBSET Reading]
    BY <1>1
  <2>3. restarted' \in BOOLEAN
    BY <1>1
  <2> QED BY <1>1, <2>1, <2>2, <2>3 DEF PricesInv, PricesTypeOK
<1>3. Told' /\ TheBestSeen' /\ NothingIsUnlearned'
  BY <1>1 DEF Told, TheBestSeen, NothingIsUnlearned
<1> QED BY <1>1, <1>2, <1>3 DEF PricesInv

(* The cache has what it was told, the best and the last of it stands, and *)
(* the box has no quarter hour tariffd has lost, in every state they reach.*)
THEOREM PricesInvariance == PricesSpec => []PricesInv
<1>1. ASSUME PricesInv, [PricesNext]_pricesVars
      PROVE  PricesInv'
  <2>1. CASE PricesNext
    BY <1>1, <2>1, RoundBeginsPricesInv, FetchPricesInv, RoundEndsPricesInv, BoxAsksPricesInv, AdvancePricesInv,
       SourceChangesPricesInv, RestartPricesInv DEF PricesNext, Poll
  <2>2. CASE UNCHANGED pricesVars
    <3>1. PricesTypeOK' /\ UNCHANGED <<cache, seen, overtaken, kept, restarted>>
      BY <1>1, <2>2 DEF pricesVars, PricesInv, PricesTypeOK
    <3> QED BY <1>1, <3>1, PricesUnchanged
  <2> QED BY <1>1, <2>1, <2>2
<1> QED BY <1>1, InitPricesInv, PTL DEF PricesSpec

-----------------------------------------------------------------------------
(* The theorems *)

(* tariffd's cache, its rounds and the box's curve are what their types say, *)
(* for any sources and any resolutions.                                    *)
THEOREM PricesTypeCorrect == PricesSpec => []PricesTypeOK
<1>1. PricesInv => PricesTypeOK
  BY DEF PricesInv
<1> QED BY <1>1, PricesInvariance, PTL

(* In whatever order the sources are asked and answer, merge leaves a       *)
(* quarter hour with the price of the most trusted one, at the finest.     *)
THEOREM TheBestIsKept == PricesSpec => []TheBestSeen
<1>1. PricesInv => TheBestSeen
  BY DEF PricesInv
<1> QED BY <1>1, PricesInvariance, PTL

(* An answer takes no quarter hour from a box, unless tariffd has restarted: *)
(* superseding replaces a price and pruning reaches none that is published. *)
THEOREM NothingsUnlearned == PricesSpec => []NothingIsUnlearned
<1>1. PricesInv => NothingIsUnlearned
  BY DEF PricesInv
<1> QED BY <1>1, PricesInvariance, PTL

-----------------------------------------------------------------------------
(* In its turn *)

Longest == Max({Interval, MaxBackoff})

(* How overdue a source can be: between rounds, by less than a round more  *)
(* than the loop still sleeps; during one, the sources left to ask by a    *)
(* round and what this one has taken, the others not at all since it began.*)
TurnInv ==
  /\ wait \in [Sources -> Int] /\ sleep \in Nat
  /\ \A s \in Sources : wait[s] <= Longest
  /\ asking = Nothing => \A s \in Sources : wait[s] >= sleep - AskingMost
  /\ asking # Nothing => \A s \in Sources :
       wait[s] >= (IF s \in asking.left THEN -AskingMost ELSE 1) - asking.age

(* Every subset has its own of the powers of two. *)
LEMMA PowersArePositive ==
  ASSUME NEW f \in Nat
  PROVE  2^f \in Nat \ {0}
<1>1. IsFiniteSet(1 .. f) /\ Cardinality(1 .. f) = f
  BY FS_Interval
<1>2. IsFiniteSet(SUBSET (1 .. f)) /\ Cardinality(SUBSET (1 .. f)) = 2^f
  BY <1>1, FS_SUBSET
<1>3. SUBSET (1 .. f) # {}
  OBVIOUS
<1> QED BY <1>2, <1>3, FS_CardinalityType, FS_EmptySet

LEMMA OfTwo ==
  ASSUME NEW a \in Int, NEW b \in Int
  PROVE  /\ Min({a, b}) \in {a, b} /\ Min({a, b}) <= a /\ Min({a, b}) <= b
         /\ Max({a, b}) \in {a, b} /\ Max({a, b}) >= a /\ Max({a, b}) >= b
<1>1. PICK m \in {a, b} : \A y \in {a, b} : m <= y
  OBVIOUS
<1>2. PICK n \in {a, b} : \A y \in {a, b} : n >= y
  OBVIOUS
<1> QED BY <1>1, <1>2 DEF Min, Max

(* Of waits that have a bound below there is a least. *)
LEMMA LeastOf ==
  ASSUME NEW S \in SUBSET Int, S # {}, NEW b \in Int, \A x \in S : x >= b
  PROVE  Min(S) \in S /\ \A x \in S : Min(S) <= x
<1> DEFINE T == {n \in Nat : n + b \in S}
<1>1. T \subseteq Nat /\ T # {}
  <2>1. PICK x \in S : TRUE
    OBVIOUS
  <2>2. x - b \in Nat /\ (x - b) + b = x
    BY <2>1
  <2> QED BY <2>1, <2>2
<1>2. \E n \in T : \A k \in T : ~(<<k, n>> \in OpToRel(<, Nat))
  <2> HIDE DEF T
  <2> QED BY <1>1, WFMin, NatLessThanWellFounded
<1>3. PICK n \in T : \A k \in T : ~(k < n)
  BY <1>1, <1>2 DEF OpToRel
<1>4. n + b \in S /\ \A x \in S : n + b <= x
  <2>1. ASSUME NEW x \in S PROVE n + b <= x
    <3>1. x - b \in Nat /\ (x - b) + b = x
      OBVIOUS
    <3>2. x - b \in T
      BY <3>1
    <3> QED BY <1>3, <3>2
  <2> QED BY <2>1
<1> QED BY <1>4 DEF Min

(* A source is put off for at least an instant and at most the longest. *)
LEMMA BackoffIs ==
  ASSUME NEW f \in Nat
  PROVE  Backoff(f) \in 1 .. Longest /\ Longest \in Nat
<1>1. Interval \in Nat \ {0} /\ MaxBackoff \in Nat \ {0}
  BY PricesAssumption
<1>2. Longest \in Nat /\ Interval <= Longest /\ MaxBackoff <= Longest
  BY <1>1, OfTwo DEF Longest
<1>3. Interval * 2^f \in Nat \ {0}
  <2>1. PICK p \in Nat \ {0} : p = 2^f
    BY PowersArePositive
  <2>2. Interval * p \in Nat /\ Interval * p >= Interval
    <3>1. p - 1 \in Nat /\ Interval * (p - 1) \in Nat
      BY <1>1
    <3>2. Interval * p = Interval * (p - 1) + Interval
      BY <1>1
    <3> QED BY <1>1, <3>1, <3>2
  <2> QED BY <1>1, <2>1, <2>2
<1>4. PICK p \in Nat \ {0} : p = Interval * 2^f
  BY <1>3
<1>5. Min({p, MaxBackoff}) \in 1 .. MaxBackoff
  BY <1>1, OfTwo
<1> QED BY <1>1, <1>2, <1>4, <1>5 DEF Backoff

LEMMA InitTurn == PricesInit => TurnInv
<1>1. Longest \in Nat /\ AskingMost \in Nat
  BY BackoffIs, PricesAssumption
<1>2. Nothing \notin Asking
  BY PricesAssumption
<1> QED BY <1>1, <1>2 DEF PricesInit, TurnInv

LEMMA FetchTurn == ASSUME PricesInv, TurnInv, Fetch PROVE TurnInv'
<1>1. asking # Nothing /\ asking \in Asking /\ asking.age \in Nat /\ UNCHANGED sleep
  BY PricesAssumption DEF PricesInv, PricesTypeOK, Fetch, Asking
<1>2. PICK s \in asking.left : /\ Answered(s) \/ Failed(s)
                              /\ asking' = [asking EXCEPT !.left = @ \ {s}]
  BY DEF Fetch
<1>3. s \in Sources /\ asking' \in Asking /\ asking' # Nothing
      /\ asking'.left = asking.left \ {s} /\ asking'.age = asking.age
  BY <1>1, <1>2, PricesAssumption DEF Asking
<1>4. PICK f \in Nat : Scheduled(s, f)
  <2>1. CASE Answered(s)
    BY <2>1 DEF Answered
  <2>2. CASE Failed(s)
    <3>1. PICK a \in Nat : a = failures[s] + 1
      BY <1>3, PricesAssumption DEF PricesInv, PricesTypeOK
    <3>2. Doublings \in Nat
      BY PricesAssumption
    <3>3. Min({a, Doublings}) \in {a, Doublings}
      BY <3>2, OfTwo
    <3> QED BY <2>2, <3>1, <3>2, <3>3 DEF Failed
  <2> QED BY <1>2, <2>1, <2>2
<1>5. wait' = [wait EXCEPT ![s] = Backoff(f) - asking.age] /\ Backoff(f) \in 1 .. Longest
  BY <1>4, BackoffIs DEF Scheduled
<1>6. ASSUME NEW t \in Sources
      PROVE  /\ wait'[t] \in Int /\ wait'[t] <= Longest
             /\ wait'[t] >= (IF t \in asking'.left THEN -AskingMost ELSE 1) - asking'.age
  <2>1. Longest \in Int /\ AskingMost \in Nat
    BY BackoffIs, PricesAssumption
  <2>2. CASE t = s
    <3>1. wait'[t] = Backoff(f) - asking.age /\ t \notin asking'.left
      BY <1>3, <1>5, <2>2 DEF TurnInv
    <3> QED BY <1>1, <1>3, <1>5, <2>1, <3>1
  <2>3. CASE t # s
    <3>1. wait'[t] = wait[t] /\ (t \in asking'.left <=> t \in asking.left)
      BY <1>3, <1>5, <2>3 DEF TurnInv
    <3> QED BY <1>1, <1>3, <3>1 DEF TurnInv
  <2> QED BY <2>2, <2>3
<1>7. wait' \in [Sources -> Int]
  BY <1>3, <1>5, <1>6 DEF TurnInv
<1> QED BY <1>1, <1>3, <1>6, <1>7 DEF TurnInv, Longest

LEMMA RoundEndsTurn == ASSUME PricesInv, TurnInv, AskingEnds PROVE TurnInv'
<1> DEFINE waits == {wait[s] : s \in Sources}
<1>1. /\ asking # Nothing /\ asking.left = {} /\ asking.age \in Nat /\ asking.age <= AskingMost
      /\ asking' = Nothing /\ UNCHANGED wait /\ sleep' = NextDue /\ AskingMost \in Nat
  BY PricesAssumption DEF AskingEnds, schedule, PricesInv, PricesTypeOK, Asking
<1>2. waits \in SUBSET Int /\ waits # {} /\ \A x \in waits : x >= 1 - asking.age
  <2>1. \A s \in Sources : wait[s] \in Int /\ wait[s] >= 1 - asking.age
    BY <1>1 DEF TurnInv
  <2>2. Sources # {}
    BY PricesAssumption
  <2> QED BY <2>1, <2>2
<1> HIDE DEF waits
<1>3. Min(waits) \in waits /\ \A x \in waits : Min(waits) <= x
  <2>1. PICK b \in Int : b = 1 - asking.age
    BY <1>1
  <2>2. \A x \in waits : x >= b
    BY <1>2, <2>1
  <2> QED BY <1>2, <2>2, LeastOf
<1>4. PICK m \in Int : m = Min(waits) /\ m >= 1 - asking.age /\ \A s \in Sources : m <= wait[s]
  BY <1>2, <1>3 DEF waits
<1>5. NextDue = m + asking.age
  <2>1. PICK k \in Int : k = m + asking.age /\ k >= 1
    BY <1>1, <1>4
  <2>2. Max({k, 1}) \in {k, 1} /\ Max({k, 1}) >= k
    <3>1. \A a, b \in Int : Max({a, b}) \in {a, b} /\ Max({a, b}) >= a
      BY OfTwo
    <3> QED BY <3>1
  <2> QED BY <1>4, <2>1, <2>2 DEF NextDue, waits
<1> QED BY <1>1, <1>4, <1>5 DEF TurnInv

LEMMA StepTurn == ASSUME PricesInv, TurnInv, [PricesNext]_pricesVars PROVE TurnInv'
<1>0. AskingMost \in Nat /\ Longest \in Nat /\ Nothing \notin Asking
  BY BackoffIs, PricesAssumption
<1>1. CASE AskingBegins
  <2>1. /\ asking = Nothing /\ sleep = 0 /\ asking' = [left |-> Due, age |-> 0]
        /\ UNCHANGED <<wait, sleep>>
    BY <1>1 DEF AskingBegins, schedule
  <2>2. asking' # Nothing
    BY <1>0, <2>1 DEF Asking, Due
  <2>3. \A s \in Sources : wait[s] \in Int /\ wait[s] >= -AskingMost /\ (s \notin Due => wait[s] >= 1)
    BY <1>0, <2>1 DEF TurnInv, Due
  <2> QED BY <1>0, <2>1, <2>2, <2>3 DEF TurnInv
<1>2. CASE Fetch
  BY <1>2, FetchTurn
<1>3. CASE AskingEnds
  BY <1>3, RoundEndsTurn
<1>4. CASE TimePasses
  <2>1. wait' = [s \in Sources |-> wait[s] - 1]
    BY <1>4 DEF TimePasses
  <2>2. \A s \in Sources : wait'[s] = wait[s] - 1 /\ wait[s] \in Int /\ wait'[s] <= Longest
    BY <1>0, <2>1 DEF TurnInv
  <2>3. wait' \in [Sources -> Int]
    BY <2>1, <2>2
  <2>4. CASE asking = Nothing
    <3>1. asking' = Nothing /\ sleep' \in Nat /\ sleep' = sleep - 1
      BY <1>4, <2>4 DEF TimePasses, TurnInv
    <3> QED BY <1>0, <2>2, <2>3, <2>4, <3>1 DEF TurnInv, Longest
  <2>5. CASE asking # Nothing
    <3>1. /\ asking \in Asking /\ UNCHANGED sleep
          /\ asking' = [asking EXCEPT !.age = @ + 1] /\ asking.age < AskingMost
      BY <1>4, <2>5 DEF TimePasses, PricesInv, PricesTypeOK
    <3>2. /\ asking'.left = asking.left /\ asking'.age = asking.age + 1 /\ asking.age \in Nat
          /\ asking' \in Asking /\ asking' # Nothing
      BY <1>0, <3>1 DEF Asking
    <3>3. \A t \in Sources :
            wait'[t] >= (IF t \in asking'.left THEN -AskingMost ELSE 1) - asking'.age
      <4>1. \A t \in Sources :
              wait[t] >= (IF t \in asking.left THEN -AskingMost ELSE 1) - asking.age
        BY <2>5 DEF TurnInv
      <4> QED BY <1>0, <2>2, <3>2, <4>1
    <3>4. sleep' \in Nat /\ Longest' = Longest
      BY <3>1 DEF TurnInv, Longest
    <3> QED BY <2>2, <2>3, <3>2, <3>3, <3>4 DEF TurnInv
  <2> QED BY <2>4, <2>5
<1>5. CASE ServiceRestarts
  <2>1. asking' = Nothing /\ sleep' = 0 /\ wait' = [s \in Sources |-> 0]
    BY <1>5 DEF ServiceRestarts
  <2> QED BY <1>0, <2>1 DEF TurnInv, Longest
<1>6. CASE BoxAsks \/ SourceChanges \/ UNCHANGED pricesVars
  <2>1. UNCHANGED <<wait, sleep, asking>>
    BY <1>6 DEF BoxAsks, SourceChanges, pricesVars, schedule
  <2> QED BY <2>1 DEF TurnInv, Longest
<1> QED BY <1>1, <1>2, <1>3, <1>4, <1>5, <1>6 DEF PricesNext, Poll

(* No source is asked later than its turn by more than two rounds, nor put *)
(* off for longer than the backoff, for any sources, any interval and any  *)
(* cap, however often the others fail.                                     *)
THEOREM AskedInItsTurn == PricesSpec => []InItsTurn
<1>1. PricesInit => PricesInv /\ TurnInv
  BY InitPricesInv, InitTurn
<1>2. PricesInv /\ PricesInv' /\ TurnInv /\ [PricesNext]_pricesVars => TurnInv'
  BY StepTurn
<1>3. PricesInv /\ TurnInv => InItsTurn
  <2> SUFFICES ASSUME PricesInv, TurnInv, NEW s \in Sources
               PROVE  wait[s] \in -2 * AskingMost .. Longest
    BY DEF InItsTurn, Longest
  <2>1. AskingMost \in Nat /\ Longest \in Nat /\ wait[s] \in Int /\ wait[s] <= Longest
    BY BackoffIs, PricesAssumption DEF TurnInv
  <2>2. CASE asking = Nothing
    BY <2>1, <2>2 DEF TurnInv
  <2>3. CASE asking # Nothing
    <3>1. asking.age \in Nat /\ asking.age <= AskingMost
      BY <2>1, <2>3 DEF PricesInv, PricesTypeOK, Asking
    <3> QED BY <2>1, <2>3, <3>1 DEF TurnInv
  <2> QED BY <2>2, <2>3
<1> QED BY <1>1, <1>2, <1>3, PricesInvariance, PTL DEF PricesSpec
=============================================================================
