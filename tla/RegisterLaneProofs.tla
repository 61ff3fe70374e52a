------------------------ MODULE RegisterLaneProofs ------------------------
(***************************************************************************)
(* What the register lane guarantees for every number of quarter hours,    *)
(* every batch size, every retention and every number of lost calls.       *)
(***************************************************************************)
EXTENDS RegisterLane, FiniteSetTheorems, TLAPS

USE RegisterLaneAssumption

(* A row of a batch is a value. *)
LEMMA HeldIsValue ==
  ASSUME NEW rows \in Rows, NEW s \in Held(rows)
  PROVE  s \in Slots /\ rows[s] \in Value
BY DEF Held, Rows

LEMMA NoBatchType == NoBatch \in Rows /\ Idle \in [at : Stage, batch : Rows]
BY DEF NoBatch, Rows, Idle, Stage

LEMMA PendingType ==
  ASSUME TypeOK
  PROVE  /\ PendingQuarterHours \in Rows
         /\ \A s \in Held(PendingQuarterHours) :
               /\ s \in owed
               /\ registers[s] # NoRow
               /\ PendingQuarterHours[s] = registers[s]
BY DEF TypeOK, PendingQuarterHours, Rows, Held, Oldest

LEMMA PlacedType ==
  ASSUME TypeOK, NEW batch \in Rows
  PROVE  Placed(batch) \in [Slots -> Seq(Value)]
<1> SUFFICES ASSUME NEW s \in Slots
             PROVE  (IF batch[s] = NoRow THEN quarterHour[s]
                     ELSE Append(quarterHour[s], batch[s])) \in Seq(Value)
  BY DEF Placed
<1>1. quarterHour[s] \in Seq(Value)
  BY DEF TypeOK
<1>2. CASE batch[s] = NoRow
  BY <1>1, <1>2
<1>3. CASE batch[s] # NoRow
  <2>1. batch[s] \in Value
    BY <1>3 DEF Rows
  <2> QED BY <1>1, <1>3, <2>1
<1> QED BY <1>2, <1>3

LEMMA InitType == Init => TypeOK
BY NoBatchType DEF Init, TypeOK, Slots, Rows, NoBatch

LEMMA StepType == TypeOK /\ [Next]_vars => TypeOK'
<1> SUFFICES ASSUME TypeOK, [Next]_vars PROVE TypeOK'
  OBVIOUS
<1> USE DEF TypeOK, clocks, tables
<1>1. CASE Advance
  BY <1>1 DEF Advance, Slots
<1>2. ASSUME NEW c \in Slots, SetClock(c) PROVE TypeOK'
  BY <1>2 DEF SetClock
<1>3. CASE Meter
  BY <1>3 DEF Meter
<1>4. ASSUME NEW v \in Value, NEW metered \in BOOLEAN, CloseQuarterHour(v, metered)
      PROVE  TypeOK'
  <2>1. carried' \in [slot : Slots, metered : BOOLEAN]
    BY <1>4 DEF CloseQuarterHour, Register
  <2>2. CASE carried.metered /\ PutQuarterHour(carried.slot, v)
    BY <1>4, <2>1, <2>2 DEF CloseQuarterHour, Register, PutQuarterHour, Rows
  <2>3. CASE UNCHANGED tables
    BY <1>4, <2>1, <2>3 DEF CloseQuarterHour, Register
  <2> QED BY <1>4, <2>2, <2>3 DEF CloseQuarterHour, Register
<1>5. ASSUME NEW cut \in Slots, SweepRegisters(cut) PROVE TypeOK'
  BY <1>5 DEF SweepRegisters, Rows
<1>6. CASE PostBatch
  BY <1>6, PendingType DEF PostBatch, Stage
<1>7. CASE PostFails
  BY <1>7, NoBatchType DEF PostFails
<1>8. CASE PostStraggles
  BY <1>8, NoBatchType DEF PostStraggles
<1>9. CASE AnswerArrives
  BY <1>9 DEF AnswerArrives, Stage
<1>10. CASE AnswerLost
  BY <1>10, NoBatchType DEF AnswerLost
<1>11. CASE MarkForwarded
  BY <1>11, NoBatchType DEF MarkForwarded, Held
<1>12. CASE MarkFails
  BY <1>12, NoBatchType DEF MarkFails
<1>13. CASE Restart
  BY <1>13, NoBatchType DEF Restart
<1>14. CASE FleetTakes
  BY <1>14, PlacedType DEF FleetTakes, Stage
<1>15. ASSUME NEW batch \in strays, FleetTakesStray(batch) PROVE TypeOK'
  BY <1>15, PlacedType DEF FleetTakesStray
<1>16. ASSUME NEW batch \in strays, StrayVanishes(batch) PROVE TypeOK'
  BY <1>16 DEF StrayVanishes
<1>17. CASE FleetPrunes
  <2>1. << >> \in Seq(Value)
    OBVIOUS
  <2> QED BY <1>17, <2>1 DEF FleetPrunes
<1>18. CASE UNCHANGED vars
  BY <1>18 DEF vars
<1> QED
  BY <1>1, <1>2, <1>3, <1>4, <1>5, <1>6, <1>7, <1>8, <1>9, <1>10, <1>11,
     <1>12, <1>13, <1>14, <1>15, <1>16, <1>17, <1>18 DEF Next

(***************************************************************************)
(* Every variable keeps its type: in particular the outbox only ever holds *)
(* a batch of rows, and the fleet only ever keeps values the box can state.*)
(***************************************************************************)
THEOREM TypeCorrect == Spec => []TypeOK
BY InitType, StepType, PTL DEF Spec
-----------------------------------------------------------------------------
(* What the outbox has posted and the fleet has handled, the fleet has.    *)
HandledIsHeld ==
  outbox.at \in {"handled", "accepted"} =>
    \A s \in Held(outbox.batch) : quarterHour[s] # << >> \/ ReleasedByTheFleet(s)

(* Inductive whatever the clocks do.  ForwardedIsHeld alone is not: the    *)
(* mark is taken on the strength of what the batch in flight has reached.  *)
ReachInv == TypeOK /\ TablesAgree /\ ForwardedIsHeld /\ HandledIsHeld

LEMMA PlacedHolds ==
  ASSUME TypeOK, NEW batch \in Rows, NEW s \in Slots, quarterHour' = Placed(batch)
  PROVE  /\ quarterHour[s] # << >> => quarterHour'[s] # << >>
         /\ s \in Held(batch) => quarterHour'[s] # << >>
<1>1. quarterHour[s] \in Seq(Value)
  BY DEF TypeOK
<1>2. CASE batch[s] = NoRow
  BY <1>2 DEF Placed, Held
<1>3. CASE batch[s] # NoRow
  <2>1. batch[s] \in Value
    BY <1>3 DEF Rows
  <2>2. quarterHour'[s] = Append(quarterHour[s], batch[s])
    BY <1>3 DEF Placed
  <2>3. Append(quarterHour[s], batch[s]) # << >>
    BY <1>1, <2>1
  <2> QED BY <2>2, <2>3
<1> QED BY <1>2, <1>3

LEMMA InitReach == Init => ReachInv
BY InitType
   DEF Init, ReachInv, TablesAgree, ForwardedIsHeld, HandledIsHeld, Held, NoBatch, Idle

LEMMA StepReach == ReachInv /\ [Next]_vars => ReachInv'
<1> SUFFICES ASSUME ReachInv, [Next]_vars PROVE ReachInv'
  OBVIOUS
<1>0. TypeOK /\ TypeOK'
  BY StepType DEF ReachInv
<1> USE DEF clocks, tables
<1>idle. Held(NoBatch) = {} /\ Idle.at = "idle"
  BY DEF Held, NoBatch, Idle
<1>1. CASE Advance
  BY <1>0, <1>1
     DEF Advance, ReachInv, TypeOK, TablesAgree, ForwardedIsHeld, HandledIsHeld,
         ReleasedByTheFleet, Held, Slots
<1>2. ASSUME NEW c \in Slots, SetClock(c) PROVE ReachInv'
  BY <1>0, <1>2
     DEF SetClock, ReachInv, TablesAgree, ForwardedIsHeld, HandledIsHeld,
         ReleasedByTheFleet
<1>3. CASE Meter
  BY <1>0, <1>3
     DEF Meter, ReachInv, TablesAgree, ForwardedIsHeld, HandledIsHeld, ReleasedByTheFleet
<1>4. ASSUME NEW v \in Value, NEW metered \in BOOLEAN, CloseQuarterHour(v, metered)
      PROVE  ReachInv'
  <2>1. HandledIsHeld'
    BY <1>4 DEF CloseQuarterHour, Register, ReachInv, HandledIsHeld, ReleasedByTheFleet
  <2>2. CASE UNCHANGED tables
    BY <1>0, <1>4, <2>1, <2>2
       DEF CloseQuarterHour, Register, ReachInv, TablesAgree, ForwardedIsHeld, ReleasedByTheFleet
  <2>3. CASE PutQuarterHour(carried.slot, v)
    <3>1. Held(registers') = Held(registers) \cup {carried.slot}
      BY <1>0, <2>3 DEF PutQuarterHour, TypeOK, Held, Rows
    <3>2. TablesAgree'
      BY <1>0, <2>3, <3>1 DEF PutQuarterHour, ReachInv, TablesAgree, Held
    <3>3. ForwardedIsHeld'
      BY <1>4, <2>3, <3>1
         DEF CloseQuarterHour, Register, PutQuarterHour, ReachInv, ForwardedIsHeld,
             ReleasedByTheFleet, Held
    <3> QED BY <1>0, <2>1, <3>2, <3>3 DEF ReachInv
  <2> QED BY <1>4, <2>2, <2>3 DEF CloseQuarterHour, Register
<1>5. ASSUME NEW cut \in Slots, SweepRegisters(cut) PROVE ReachInv'
  <2>1. Held(registers') = Held(registers) \ {s \in Slots : s <= cut}
    BY <1>5 DEF SweepRegisters, Held
  <2>2. HandledIsHeld'
    BY <1>5 DEF SweepRegisters, ReachInv, HandledIsHeld, ReleasedByTheFleet
  <2>3. TablesAgree' /\ ForwardedIsHeld'
    BY <1>5, <2>1
       DEF SweepRegisters, ReachInv, TablesAgree, ForwardedIsHeld,
           ReleasedByTheFleet, Held
  <2> QED BY <1>0, <2>2, <2>3 DEF ReachInv
<1>6. CASE PostBatch
  BY <1>0, <1>6
     DEF PostBatch, ReachInv, TablesAgree, ForwardedIsHeld, HandledIsHeld, ReleasedByTheFleet
<1>7. CASE PostFails
  BY <1>0, <1>7, <1>idle
     DEF PostFails, ReachInv, TablesAgree, ForwardedIsHeld, HandledIsHeld, ReleasedByTheFleet
<1>8. CASE PostStraggles
  BY <1>0, <1>8, <1>idle
     DEF PostStraggles, ReachInv, TablesAgree, ForwardedIsHeld, HandledIsHeld, ReleasedByTheFleet
<1>9. CASE AnswerArrives
  <2>1. outbox.at = "handled" /\ outbox'.batch = outbox.batch
    BY <1>0, <1>9 DEF AnswerArrives, TypeOK
  <2> QED
    BY <1>0, <1>9, <2>1
       DEF AnswerArrives, ReachInv, TablesAgree, ForwardedIsHeld, HandledIsHeld, ReleasedByTheFleet
<1>10. CASE AnswerLost
  BY <1>0, <1>10, <1>idle
     DEF AnswerLost, ReachInv, TablesAgree, ForwardedIsHeld, HandledIsHeld, ReleasedByTheFleet
<1>11. CASE MarkForwarded
  <2>1. HandledIsHeld'
    BY <1>11, <1>idle DEF MarkForwarded, HandledIsHeld
  <2>2. TablesAgree'
    BY <1>11 DEF MarkForwarded, ReachInv, TablesAgree, Held
  <2>3. ForwardedIsHeld'
    BY <1>11
       DEF MarkForwarded, ReachInv, ForwardedIsHeld, HandledIsHeld, ReleasedByTheFleet, Held
  <2> QED BY <1>0, <2>1, <2>2, <2>3 DEF ReachInv
<1>12. CASE MarkFails
  BY <1>0, <1>12, <1>idle
     DEF MarkFails, ReachInv, TablesAgree, ForwardedIsHeld, HandledIsHeld, ReleasedByTheFleet
<1>13. CASE Restart
  BY <1>0, <1>13, <1>idle
     DEF Restart, ReachInv, TablesAgree, ForwardedIsHeld, HandledIsHeld, ReleasedByTheFleet
<1>14. CASE FleetTakes
  <2>1. outbox.batch \in Rows /\ outbox'.batch = outbox.batch
    BY <1>0, <1>14 DEF FleetTakes, TypeOK
  <2>2. \A s \in Slots : /\ quarterHour[s] # << >> => quarterHour'[s] # << >>
                         /\ s \in Held(outbox.batch) => quarterHour'[s] # << >>
    BY <1>0, <1>14, <2>1, PlacedHolds DEF FleetTakes
  <2> QED
    BY <1>0, <1>14, <2>1, <2>2
       DEF FleetTakes, ReachInv, TablesAgree, ForwardedIsHeld, HandledIsHeld,
           ReleasedByTheFleet, Held
<1>15. ASSUME NEW batch \in strays, FleetTakesStray(batch) PROVE ReachInv'
  <2>1. \A s \in Slots : quarterHour[s] # << >> => quarterHour'[s] # << >>
    BY <1>0, <1>15, PlacedHolds DEF FleetTakesStray, TypeOK
  <2> QED
    BY <1>0, <1>15, <2>1
       DEF FleetTakesStray, ReachInv, TablesAgree, ForwardedIsHeld, HandledIsHeld,
           ReleasedByTheFleet, Held
<1>16. ASSUME NEW batch \in strays, StrayVanishes(batch) PROVE ReachInv'
  BY <1>0, <1>16
     DEF StrayVanishes, ReachInv, TablesAgree, ForwardedIsHeld, HandledIsHeld, ReleasedByTheFleet
<1>17. CASE FleetPrunes
  <2>1. \A s \in Slots : quarterHour'[s] = quarterHour[s] \/ ReleasedByTheFleet(s)
    BY <1>17 DEF FleetPrunes, ReleasedByTheFleet
  <2> QED
    BY <1>0, <1>17, <2>1
       DEF FleetPrunes, ReachInv, TablesAgree, ForwardedIsHeld, HandledIsHeld,
           ReleasedByTheFleet, Held
<1>18. CASE UNCHANGED vars
  BY <1>0, <1>18
     DEF vars, ReachInv, TablesAgree, ForwardedIsHeld, HandledIsHeld, ReleasedByTheFleet
<1> QED
  BY <1>1, <1>2, <1>3, <1>4, <1>5, <1>6, <1>7, <1>8, <1>9, <1>10, <1>11,
     <1>12, <1>13, <1>14, <1>15, <1>16, <1>17, <1>18 DEF Next

(***************************************************************************)
(* The owed set is the backlog: a register is owed exactly while it is     *)
(* held and not marked forwarded.                                          *)
(***************************************************************************)
THEOREM TablesAlwaysAgree == Spec => []TablesAgree
<1>1. ReachInv => TablesAgree
  BY DEF ReachInv
<1> QED
  BY <1>1, InitReach, StepReach, PTL DEF Spec

(***************************************************************************)
(* Nothing is marked forwarded that the fleet has not taken, whatever is   *)
(* lost, late, restarted or restated, and however the clocks are set.      *)
(***************************************************************************)
THEOREM ForwardedAlwaysHeld == Spec => []ForwardedIsHeld
<1>1. ReachInv => ForwardedIsHeld
  BY DEF ReachInv
<1> QED
  BY <1>1, InitReach, StepReach, PTL DEF Spec
-----------------------------------------------------------------------------
(***************************************************************************)
(* A box whose clock was never set states every register once.             *)
(***************************************************************************)
(* What is written is over. *)
PastIsClosed == /\ steps = 0
                /\ carried.slot <= clock
                /\ \A s \in Held(registers) : s < carried.slot

(* A batch says of a register what the register says. *)
Faithful(batch) ==
  \A s \in Held(batch) : s < carried.slot /\ registers[s] \in {NoRow, batch[s]}

(* So does every version the fleet holds. *)
FaithfulHistory ==
  \A s \in Slots : \A i \in 1 .. Len(quarterHour[s]) :
     s < carried.slot /\ registers[s] \in {NoRow, quarterHour[s][i]}

(* The batch in the outbox's hands is the oldest of what is owed. *)
OldestFirst ==
  \A s \in Held(outbox.batch), t \in owed : t \in Held(outbox.batch) \/ s < t

(* Preserved by every step that does not set the clock. *)
SteadyInv == /\ ReachInv
             /\ PastIsClosed
             /\ Faithful(outbox.batch)
             /\ \A batch \in strays : Faithful(batch)
             /\ FaithfulHistory
             /\ OldestFirst
             /\ NoHoleBehindTheMark

LEMMA PendingIsOldest ==
  ASSUME TypeOK, NEW s \in Held(PendingQuarterHours), NEW t \in owed \cap Held(registers)
  PROVE  t \in Held(PendingQuarterHours) \/ s < t
<1> DEFINE S == owed \cap Held(registers)
<1>1. S \subseteq Slots /\ IsFiniteSet(Slots)
  BY FS_Interval DEF Held, Slots
<1>2. SUFFICES ASSUME t <= s PROVE t \in Held(PendingQuarterHours)
  BY <1>1 DEF Held, Slots
<1>3. s \in S /\ Cardinality({u \in S : u < s}) < Batch
  BY DEF PendingQuarterHours, Held, Oldest
<1>4. {u \in S : u < t} \subseteq {u \in S : u < s}
  BY <1>1, <1>2, <1>3 DEF Slots
<1>5. IsFiniteSet({u \in S : u < s})
  BY <1>1, FS_Subset
<1>6. /\ Cardinality({u \in S : u < t}) <= Cardinality({u \in S : u < s})
      /\ Cardinality({u \in S : u < t}) \in Nat
      /\ Cardinality({u \in S : u < s}) \in Nat
  BY <1>4, <1>5, FS_Subset, FS_CardinalityType
<1>7. Cardinality({u \in S : u < t}) < Batch
  BY <1>3, <1>6
<1>8. t \in Oldest(S, Batch)
  BY <1>7 DEF Oldest
<1> QED
  BY <1>8 DEF PendingQuarterHours, Held

(* A faithful batch leaves the history faithful. *)
LEMMA PlacedFaithful ==
  ASSUME TypeOK, NEW batch \in Rows, Faithful(batch), FaithfulHistory,
         quarterHour' = Placed(batch), UNCHANGED <<carried, registers>>
  PROVE  FaithfulHistory'
<1> SUFFICES ASSUME NEW s \in Slots, NEW i \in 1 .. Len(quarterHour'[s])
             PROVE  s < carried.slot /\ registers[s] \in {NoRow, quarterHour'[s][i]}
  BY DEF FaithfulHistory
<1>1. quarterHour[s] \in Seq(Value)
  BY DEF TypeOK
<1>2. CASE batch[s] = NoRow
  <2>1. quarterHour'[s] = quarterHour[s]
    BY <1>2 DEF Placed
  <2> QED BY <2>1 DEF FaithfulHistory
<1>3. CASE batch[s] # NoRow
  <2>1. batch[s] \in Value
    BY <1>3 DEF Rows
  <2>2. quarterHour'[s] = Append(quarterHour[s], batch[s])
    BY <1>3 DEF Placed
  <2>3. s \in Held(batch)
    BY <1>3 DEF Held
  <2>4. CASE i \in 1 .. Len(quarterHour[s])
    <3>1. quarterHour'[s][i] = quarterHour[s][i]
      BY <1>1, <2>1, <2>2, <2>4
    <3> QED BY <2>4, <3>1 DEF FaithfulHistory
  <2>5. CASE i = Len(quarterHour[s]) + 1
    <3>1. quarterHour'[s][i] = batch[s]
      BY <1>1, <2>1, <2>2, <2>5
    <3> QED BY <2>3, <3>1 DEF Faithful
  <2> QED BY <1>1, <2>1, <2>2, <2>4, <2>5
<1> QED BY <1>2, <1>3

LEMMA InitSteady == Init => SteadyInv
BY InitReach
   DEF Init, SteadyInv, PastIsClosed, Faithful, FaithfulHistory, OldestFirst,
       NoHoleBehindTheMark, Held, NoBatch, Idle

(* The steps that leave alone everything SteadyInv speaks of.              *)
LEMMA SteadyUntouched ==
  ASSUME SteadyInv, ReachInv',
         UNCHANGED <<carried, registers, owed, strays, quarterHour, steps>>,
         carried.slot <= clock',
         Held(outbox'.batch) = {} \/ outbox'.batch = outbox.batch
  PROVE  SteadyInv'
BY DEF SteadyInv, PastIsClosed, Faithful, FaithfulHistory, OldestFirst, NoHoleBehindTheMark

LEMMA StepSteady ==
  ASSUME SteadyInv, [Next]_vars, steps' = 0
  PROVE  SteadyInv'
<1>0. TypeOK /\ TypeOK' /\ ReachInv /\ ReachInv'
  BY StepReach DEF SteadyInv, ReachInv
<1> USE DEF clocks, tables
<1>idle. Held(NoBatch) = {} /\ Held(Idle.batch) = {}
  BY DEF Held, NoBatch, Idle
<1>1. CASE Advance
  BY <1>0, <1>1, SteadyUntouched DEF Advance, SteadyInv, PastIsClosed, TypeOK, Slots
<1>2. ASSUME NEW c \in Slots, SetClock(c) PROVE FALSE
  BY <1>2 DEF SetClock, SteadyInv, PastIsClosed
<1>3. CASE Meter
  <2>1. carried'.slot = carried.slot
    BY <1>0, <1>3 DEF Meter, TypeOK
  <2> QED
    BY <1>0, <1>3, <2>1
       DEF Meter, SteadyInv, PastIsClosed, Faithful, FaithfulHistory, OldestFirst,
           NoHoleBehindTheMark
<1>4. ASSUME NEW v \in Value, NEW metered \in BOOLEAN, CloseQuarterHour(v, metered)
      PROVE  SteadyInv'
  <2>1. /\ carried.slot \in Slots /\ clock \in Slots
        /\ carried.slot < clock /\ carried'.slot = clock
        /\ steps' = 0 /\ clock' = clock
    BY <1>0, <1>4 DEF CloseQuarterHour, Register, SteadyInv, PastIsClosed, TypeOK, Slots
  <2>2. CASE UNCHANGED tables
    BY <1>0, <1>4, <2>1, <2>2
       DEF CloseQuarterHour, Register, SteadyInv, PastIsClosed, Faithful, FaithfulHistory,
           OldestFirst, NoHoleBehindTheMark, Slots, Held
  <2>3. CASE PutQuarterHour(carried.slot, v)
    <3>1. Held(registers') = Held(registers) \cup {carried.slot}
      BY <1>0, <2>1, <2>3 DEF PutQuarterHour, TypeOK, Held, Rows
    <3>2. \A s \in Slots : s < carried.slot => registers'[s] = registers[s]
      BY <1>0, <2>1, <2>3 DEF PutQuarterHour, TypeOK, Rows, Slots
    <3>3. PastIsClosed'
      BY <2>1, <3>1 DEF SteadyInv, PastIsClosed, Slots, Held
    <3>4. ASSUME NEW batch, Faithful(batch)
          PROVE  \A s \in Held(batch) : s < clock /\ registers'[s] \in {NoRow, batch[s]}
      BY <2>1, <3>2, <3>4 DEF Faithful, Slots, Held
    <3>5. Faithful(outbox.batch)' /\ (\A batch \in strays : Faithful(batch))'
      BY <1>4, <2>1, <3>4 DEF CloseQuarterHour, Register, SteadyInv, Faithful
    <3>6. FaithfulHistory'
      BY <1>4, <2>1, <3>2 DEF CloseQuarterHour, Register, SteadyInv, FaithfulHistory, Slots
    <3>7. OldestFirst'
      BY <1>4, <2>3 DEF CloseQuarterHour, Register, PutQuarterHour, SteadyInv, OldestFirst, Faithful
    <3>8. NoHoleBehindTheMark'
      BY <2>1, <2>3, <3>1
         DEF PutQuarterHour, SteadyInv, NoHoleBehindTheMark, PastIsClosed, Slots, Held
    <3> QED BY <1>0, <3>3, <3>5, <3>6, <3>7, <3>8 DEF SteadyInv
  <2> QED BY <1>4, <2>2, <2>3 DEF CloseQuarterHour, Register
<1>5. ASSUME NEW cut \in Slots, SweepRegisters(cut) PROVE SteadyInv'
  <2>1. Held(registers') = Held(registers) \ {s \in Slots : s <= cut}
    BY <1>5 DEF SweepRegisters, Held
  <2>2. \A s \in Slots : registers'[s] \in {NoRow, registers[s]}
    BY <1>5 DEF SweepRegisters
  <2>3. FaithfulHistory'
    BY <1>5, <2>2 DEF SweepRegisters, SteadyInv, FaithfulHistory
  <2>4. Faithful(outbox.batch)' /\ (\A batch \in strays : Faithful(batch))'
    BY <1>5, <2>2 DEF SweepRegisters, SteadyInv, Faithful, Held
  <2>5. PastIsClosed' /\ OldestFirst'
    BY <1>5, <2>1 DEF SweepRegisters, SteadyInv, PastIsClosed, OldestFirst
  <2>6. NoHoleBehindTheMark'
    BY <1>5, <2>1 DEF SweepRegisters, SteadyInv, NoHoleBehindTheMark, Held
  <2> QED BY <1>0, <2>3, <2>4, <2>5, <2>6 DEF SteadyInv
<1>6. CASE PostBatch
  <2>1. outbox'.batch = PendingQuarterHours /\ UNCHANGED <<clocks, carried, tables, strays, quarterHour>>
    BY <1>6 DEF PostBatch
  <2>2. \A s \in Held(PendingQuarterHours) :
           s \in Held(registers) /\ PendingQuarterHours[s] = registers[s]
    BY <1>0, PendingType DEF Held
  <2>3. Faithful(outbox.batch)'
    BY <2>1, <2>2 DEF Faithful, SteadyInv, PastIsClosed
  <2>4. owed \subseteq Held(registers)
    BY <1>0 DEF ReachInv, TablesAgree
  <2>5. OldestFirst'
    BY <1>0, <2>1, <2>4, PendingIsOldest DEF OldestFirst
  <2> QED
    BY <1>0, <2>1, <2>3, <2>5
       DEF SteadyInv, PastIsClosed, Faithful, FaithfulHistory, NoHoleBehindTheMark
<1>7. CASE PostFails
  BY <1>0, <1>7, <1>idle, SteadyUntouched DEF PostFails, SteadyInv, PastIsClosed
<1>8. CASE PostStraggles
  <2>1. \A batch \in strays' : Faithful(batch)
    BY <1>8 DEF PostStraggles, SteadyInv
  <2> QED
    BY <1>0, <1>8, <1>idle, <2>1
       DEF PostStraggles, SteadyInv, PastIsClosed, Faithful, FaithfulHistory, OldestFirst,
           NoHoleBehindTheMark
<1>9. CASE AnswerArrives
  <2>1. outbox'.batch = outbox.batch
    BY <1>0, <1>9 DEF AnswerArrives, TypeOK
  <2> QED
    BY <1>0, <1>9, <2>1, SteadyUntouched DEF AnswerArrives, SteadyInv, PastIsClosed
<1>10. CASE AnswerLost
  BY <1>0, <1>10, <1>idle, SteadyUntouched DEF AnswerLost, SteadyInv, PastIsClosed
<1>11. CASE MarkForwarded
  <2>1. NoHoleBehindTheMark'
    BY <1>11 DEF MarkForwarded, SteadyInv, OldestFirst, NoHoleBehindTheMark
  <2> QED
    BY <1>0, <1>11, <1>idle, <2>1
       DEF MarkForwarded, SteadyInv, PastIsClosed, Faithful, FaithfulHistory, OldestFirst
<1>12. CASE MarkFails
  BY <1>0, <1>12, <1>idle, SteadyUntouched DEF MarkFails, SteadyInv, PastIsClosed
<1>13. CASE Restart
  <2>1. /\ carried'.slot = clock /\ carried.slot <= clock /\ clock' = clock
        /\ carried.slot \in Int /\ clock \in Int
    BY <1>0, <1>13 DEF Restart, SteadyInv, PastIsClosed, TypeOK, Slots
  <2>2. \A batch \in strays' : Faithful(batch)
    BY <1>13 DEF Restart, SteadyInv
  <2>3. (\A batch \in strays : Faithful(batch))'
    BY <1>13, <2>1, <2>2 DEF Restart, Faithful, Held, Slots
  <2> QED
    BY <1>0, <1>13, <1>idle, <2>1, <2>3
       DEF Restart, SteadyInv, PastIsClosed, Faithful, FaithfulHistory, OldestFirst,
           NoHoleBehindTheMark, Held, Slots
<1>14. CASE FleetTakes
  <2>1. outbox.batch \in Rows /\ outbox'.batch = outbox.batch
    BY <1>0, <1>14 DEF FleetTakes, TypeOK
  <2>2. FaithfulHistory'
    BY <1>0, <1>14, <2>1, PlacedFaithful DEF FleetTakes, SteadyInv
  <2> QED
    BY <1>0, <1>14, <2>1, <2>2
       DEF FleetTakes, SteadyInv, PastIsClosed, Faithful, OldestFirst, NoHoleBehindTheMark
<1>15. ASSUME NEW batch \in strays, FleetTakesStray(batch) PROVE SteadyInv'
  <2>1. FaithfulHistory'
    BY <1>0, <1>15, PlacedFaithful DEF FleetTakesStray, SteadyInv, TypeOK
  <2> QED
    BY <1>0, <1>15, <2>1
       DEF FleetTakesStray, SteadyInv, PastIsClosed, Faithful, OldestFirst, NoHoleBehindTheMark
<1>16. ASSUME NEW batch \in strays, StrayVanishes(batch) PROVE SteadyInv'
  BY <1>0, <1>16
     DEF StrayVanishes, SteadyInv, PastIsClosed, Faithful, FaithfulHistory, OldestFirst,
         NoHoleBehindTheMark
<1>17. CASE FleetPrunes
  <2>1. FaithfulHistory'
    <3> SUFFICES ASSUME NEW s \in Slots, NEW i \in 1 .. Len(quarterHour'[s])
                 PROVE  s < carried.slot /\ registers[s] \in {NoRow, quarterHour'[s][i]}
      BY <1>17 DEF FleetPrunes, FaithfulHistory
    <3>1. quarterHour'[s] = << >> \/ quarterHour'[s] = quarterHour[s]
      BY <1>17 DEF FleetPrunes
    <3> QED BY <3>1 DEF SteadyInv, FaithfulHistory
  <2> QED
    BY <1>0, <1>17, <2>1
       DEF FleetPrunes, SteadyInv, PastIsClosed, Faithful, OldestFirst, NoHoleBehindTheMark
<1>18. CASE UNCHANGED vars
  BY <1>0, <1>18, SteadyUntouched DEF vars, SteadyInv, PastIsClosed
<1> QED
  BY <1>1, <1>2, <1>3, <1>4, <1>5, <1>6, <1>7, <1>8, <1>9, <1>10, <1>11,
     <1>12, <1>13, <1>14, <1>15, <1>16, <1>17, <1>18 DEF Next

(* Inductive: once the clock has been set nothing more is claimed, and it  *)
(* is never unset.                                                         *)
UntilSet == ReachInv /\ (steps = 0 => SteadyInv)

LEMMA InitUntilSet == Init => UntilSet
BY InitReach, InitSteady DEF UntilSet

LEMMA StepUntilSet == UntilSet /\ [Next]_vars => UntilSet'
<1> SUFFICES ASSUME UntilSet, [Next]_vars PROVE UntilSet'
  OBVIOUS
<1>1. ReachInv'
  BY StepReach DEF UntilSet
<1>2. steps \in Nat
  BY DEF UntilSet, ReachInv, TypeOK
<1>3. steps' = steps \/ steps' = steps + 1
  BY DEF Next, vars, clocks, tables, Advance, SetClock, Meter, CloseQuarterHour,
         SweepRegisters, PostBatch, PostFails, PostStraggles, AnswerArrives, AnswerLost,
         MarkForwarded, MarkFails, Restart, FleetTakes, FleetTakesStray, StrayVanishes,
         FleetPrunes
<1>4. steps' = 0 => steps = 0
  BY <1>2, <1>3
<1> QED
  BY <1>1, <1>4, StepSteady DEF UntilSet

(***************************************************************************)
(* While the box's clock only runs on, what the fleet settles with is what *)
(* the box holds, whatever is lost, late or restarted.                     *)
(***************************************************************************)
THEOREM NewestAlwaysCurrent == Spec => []NewestWhileSteady
<1>1. UntilSet => NewestWhileSteady
  <2> SUFFICES ASSUME SteadyInv, NEW s \in Held(registers) \ owed,
                      quarterHour[s] # << >>
               PROVE  Newest(s) = registers[s]
    BY DEF UntilSet, NewestWhileSteady, NewestIsCurrent, ReachInv, ForwardedIsHeld
  <2>1. s \in Slots /\ quarterHour[s] \in Seq(Value) /\ registers[s] # NoRow
    BY DEF SteadyInv, ReachInv, TypeOK, Held
  <2>2. Len(quarterHour[s]) \in 1 .. Len(quarterHour[s])
    BY <2>1
  <2> QED
    BY <2>1, <2>2 DEF SteadyInv, FaithfulHistory, Newest
<1> QED
  BY <1>1, InitUntilSet, StepUntilSet, PTL DEF Spec

(***************************************************************************)
(* While the box's clock only runs on, the fleet is served oldest first:   *)
(* what is owed is younger than everything that is not.                    *)
(***************************************************************************)
THEOREM NeverAHole == Spec => []NoHoleBehindTheMark
<1>1. UntilSet => NoHoleBehindTheMark
  BY DEF UntilSet, SteadyInv, NoHoleBehindTheMark
<1> QED
  BY <1>1, InitUntilSet, StepUntilSet, PTL DEF Spec
-----------------------------------------------------------------------------
(***************************************************************************)
(* The lane implements the at-least-once leg.                              *)
(***************************************************************************)
Due == {s \in Slots : s <= clock - Keep \/ ReleasedByTheFleet(s)}
Taken == {s \in Slots : quarterHour[s] # << >>}

LEMMA LegStep ==
  ASSUME ReachInv, [Next]_vars
  PROVE  [Leg!Next]_(Leg!vars)
<1>0. TypeOK /\ ForwardedIsHeld /\ HandledIsHeld
  BY DEF ReachInv
<1> USE DEF clocks, tables
<1>due. Due' \in SUBSET Slots
  BY DEF Due, Slots
<1> USE <1>due DEF Due
<1>elapse. ASSUME UNCHANGED <<owed, quarterHour>> PROVE Leg!Next
  BY <1>elapse DEF Leg!Next, Leg!Elapse
<1>1. CASE Advance
  BY <1>1, <1>elapse DEF Advance
<1>2. ASSUME NEW c \in Slots, SetClock(c) PROVE Leg!Next
  BY <1>2, <1>elapse DEF SetClock
<1>3. CASE Meter
  BY <1>3, <1>elapse DEF Meter
<1>4. ASSUME NEW v \in Value, NEW metered \in BOOLEAN, CloseQuarterHour(v, metered)
      PROVE  Leg!Next
  <2>1. CASE UNCHANGED tables
    BY <1>4, <2>1, <1>elapse DEF CloseQuarterHour, Register
  <2>2. CASE PutQuarterHour(carried.slot, v)
    <3>1. carried.slot \in Slots
      BY <1>0 DEF TypeOK
    <3>2. PICK new \in SUBSET Slots : new = {carried.slot}
      BY <3>1
    <3>3. Leg!Write(new, {})
      BY <1>4, <2>2, <3>2 DEF Leg!Write, CloseQuarterHour, Register, PutQuarterHour
    <3> QED BY <3>3 DEF Leg!Next
  <2> QED BY <1>4, <2>1, <2>2 DEF CloseQuarterHour, Register
<1>5. ASSUME NEW cut \in Slots, SweepRegisters(cut) PROVE Leg!Next
  <2> DEFINE swept == {s \in Slots : s <= cut}
  <2>1. swept \in SUBSET Slots /\ swept \subseteq Due
    BY <1>0, <1>5 DEF SweepRegisters, Due, TypeOK, Slots
  <2>2. Leg!Write({}, swept)
    BY <1>5, <2>1 DEF SweepRegisters, Leg!Write
  <2> QED BY <2>1, <2>2 DEF Leg!Next
<1>6. CASE PostBatch
  BY <1>6, <1>elapse DEF PostBatch
<1>7. CASE PostFails
  BY <1>7, <1>elapse DEF PostFails
<1>8. CASE PostStraggles
  BY <1>8, <1>elapse DEF PostStraggles
<1>9. CASE AnswerArrives
  BY <1>9, <1>elapse DEF AnswerArrives
<1>10. CASE AnswerLost
  BY <1>10, <1>elapse DEF AnswerLost
<1>11. CASE MarkForwarded
  <2> DEFINE slots == Held(outbox.batch)
  <2>1. slots \in SUBSET Slots
    BY DEF Held
  <2>2. slots \subseteq Taken \cup Due
    BY <1>0, <1>11 DEF MarkForwarded, HandledIsHeld, Held, Taken, Due
  <2>3. Leg!Acknowledge(slots)
    BY <1>11, <2>2
       DEF MarkForwarded, Leg!Acknowledge, Taken, Due, ReleasedByTheFleet
  <2> QED BY <2>1, <2>3 DEF Leg!Next
<1>12. CASE MarkFails
  BY <1>12, <1>elapse DEF MarkFails
<1>13. CASE Restart
  BY <1>13, <1>elapse DEF Restart
<1>14. ASSUME NEW batch \in Rows, quarterHour' = Placed(batch),
              UNCHANGED <<clocks, owed>>
       PROVE  Leg!Next
  <2>1. \A s \in Slots : quarterHour'[s] # << >> <=> s \in Taken \cup Held(batch)
    <3> SUFFICES ASSUME NEW s \in Slots
                 PROVE  quarterHour'[s] # << >> <=> s \in Taken \cup Held(batch)
      OBVIOUS
    <3>1. CASE batch[s] = NoRow
      BY <1>14, <3>1 DEF Placed, Held, Taken
    <3>2. CASE batch[s] # NoRow
      BY <1>0, <1>14, <3>2, PlacedHolds DEF Held
    <3> QED BY <3>1, <3>2
  <2>2. Leg!Take(Held(batch))
    BY <1>14, <2>1 DEF Leg!Take, Taken, Held, ReleasedByTheFleet
  <2>3. Held(batch) \in SUBSET Slots
    BY DEF Held
  <2> QED BY <2>2, <2>3 DEF Leg!Next
<1>15. CASE FleetTakes
  BY <1>0, <1>14, <1>15 DEF FleetTakes, TypeOK
<1>16. ASSUME NEW batch \in strays, FleetTakesStray(batch) PROVE Leg!Next
  BY <1>0, <1>14, <1>16 DEF FleetTakesStray, TypeOK
<1>17. ASSUME NEW batch \in strays, StrayVanishes(batch) PROVE Leg!Next
  BY <1>17, <1>elapse DEF StrayVanishes
<1>18. CASE FleetPrunes
  <2>1. PICK released \in SUBSET Slots :
              \A s \in Slots : s \in released <=> ReleasedByTheFleet(s)
    <3>1. {s \in Slots : ReleasedByTheFleet(s)} \in SUBSET Slots
      OBVIOUS
    <3> QED BY <3>1
  <2>2. \A s \in Slots : quarterHour'[s] # << >> <=> s \in Taken \ released
    BY <1>18, <2>1 DEF FleetPrunes, ReleasedByTheFleet, Taken
  <2>3. Leg!Release(released)
    BY <1>18, <2>1, <2>2
       DEF FleetPrunes, Leg!Release, Taken, Due, ReleasedByTheFleet
  <2> QED BY <2>3 DEF Leg!Next
<1>19. CASE UNCHANGED vars
  BY <1>19 DEF vars, Leg!vars, ReleasedByTheFleet
<1> QED
  BY <1>1, <1>2, <1>3, <1>4, <1>5, <1>6, <1>7, <1>8, <1>9, <1>10, <1>11,
     <1>12, <1>13, <1>15, <1>16, <1>17, <1>18, <1>19 DEF Next

(***************************************************************************)
(* A register stops being owed only once the fleet has taken it or the     *)
(* retention has released it: every step of the lane is a step of the      *)
(* at-least-once leg or leaves it alone.                                   *)
(***************************************************************************)
THEOREM LaneIsAtLeastOnce == Spec => ImplementsAtLeastOnce
<1>1. Init => Leg!Init
  BY DEF Init, Leg!Init
<1>2. ReachInv /\ [Next]_vars => [Leg!Next]_(Leg!vars)
  BY LegStep
<1> QED
  BY <1>1, <1>2, InitReach, StepReach, PTL
     DEF Spec, ImplementsAtLeastOnce, Leg!Spec
=============================================================================
