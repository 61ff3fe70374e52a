--------------------------- MODULE RegisterLane ---------------------------
(***************************************************************************)
(* The quarter-hour registers, from the control loop that measures them to *)
(* the history service that keeps them:                                    *)
(*                                                                         *)
(*   hemsd runtime/control.rs   closes a quarter hour and writes its       *)
(*                              register when the wall clock has left it   *)
(*   hemsd store.rs             REGISTERS and REGISTERS_OWED, one redb     *)
(*                              transaction per operation                  *)
(*   hemsd runtime/outbox.rs    snapshots what is owed, posts it without   *)
(*                              the store's lock, then marks it forwarded  *)
(*   histd api.rs, store.rs     append a version per POST, never overwrite *)
(*                                                                         *)
(* The control loop and the outbox are two tasks of one process: they      *)
(* share the store's mutex and nothing else, so every action below is what *)
(* one of them does between taking the lock and releasing it.              *)
(***************************************************************************)
EXTENDS Integers, Sequences, FiniteSets

CONSTANTS Value,      \* what a register can say
          NoRow,      \* no row in the table
          LastSlot,   \* bound: the last quarter hour of the run
          Keep,       \* RETENTION, in quarter hours
          Batch,      \* settings.histd.batch
          MaxSteps,   \* bound: how often the box's clock is set
          MaxLost     \* bound: calls whose outcome the box never learns

ASSUME RegisterLaneAssumption ==
  /\ NoRow \notin Value
  /\ LastSlot \in Nat
  /\ Keep \in Nat \ {0}
  /\ Batch \in Nat \ {0}
  /\ MaxSteps \in Nat
  /\ MaxLost \in Nat

Slots == 0 .. LastSlot

(* A batch of rows and the REGISTERS table have the same shape. *)
Rows == [Slots -> Value \cup {NoRow}]

Held(rows) == {s \in Slots : rows[s] # NoRow}

Stage == {"idle", "posting", "handled", "accepted"}

VARIABLES
  clock,        \* the quarter hour the box's wall clock is in
  fleetClock,   \* the quarter hour histd's wall clock is in
  carried,      \* delivered_slot, and whether anything was metered in it
  registers,    \* REGISTERS
  forwarded,    \* the rows whose forwarded_at is set
  owed,         \* REGISTERS_OWED
  outbox,       \* where the outbox is in a round, and the batch in its hands
  strays,       \* requests nobody waits for and the fleet may still handle
  quarterHour,  \* histd's quarter_hour, the versions in recorded_at order
  steps,        \* how often the box's clock has been set
  lost          \* how many calls came to nothing the box knows of

vars == <<clock, fleetClock, carried, registers, forwarded, owed, outbox,
          strays, quarterHour, steps, lost>>

clocks == <<clock, fleetClock, steps>>
tables == <<registers, forwarded, owed>>

NoBatch == [s \in Slots |-> NoRow]
Idle == [at |-> "idle", batch |-> NoBatch]

Init == /\ clock = 0
        /\ fleetClock = 0
        /\ carried = [slot |-> 0, metered |-> FALSE]
        /\ registers = NoBatch
        /\ forwarded = {}
        /\ owed = {}
        /\ outbox = Idle
        /\ strays = {}
        /\ quarterHour = [s \in Slots |-> << >>]
        /\ steps = 0
        /\ lost = 0
-----------------------------------------------------------------------------
(* The clocks *)

(* A quarter hour passes, for everybody. *)
Advance == /\ clock < LastSlot /\ fleetClock < LastSlot
           /\ clock' = clock + 1
           /\ fleetClock' = fleetClock + 1
           /\ UNCHANGED <<carried, tables, outbox, strays, quarterHour, steps, lost>>

(* The box's clock is corrected, in either direction. *)
SetClock(c) == /\ steps < MaxSteps
               /\ clock' = c
               /\ steps' = steps + 1
               /\ UNCHANGED <<fleetClock, carried, tables, outbox, strays, quarterHour, lost>>
-----------------------------------------------------------------------------
(* The control loop *)

(* A tick inside the quarter hour that metered the household. *)
Meter == /\ clock = carried.slot
         /\ carried' = [carried EXCEPT !.metered = TRUE]
         /\ UNCHANGED <<clocks, tables, outbox, strays, quarterHour, lost>>

(* put_quarter_hours: the row is replaced, and is owed whatever became of  *)
(* the one it replaces.                                                    *)
PutQuarterHour(s, v) == /\ registers' = [registers EXCEPT ![s] = v]
                        /\ forwarded' = forwarded \ {s}
                        /\ owed' = owed \cup {s}

(* register: the quarter hour that is over is written if anything metered  *)
(* it, there was a price for it and the store took it.                     *)
Register(v) == \/ carried.metered /\ PutQuarterHour(carried.slot, v)
               \/ UNCHANGED tables

(* The first tick of another quarter hour: the tallies start again whether *)
(* or not they were written, and this tick is the first to add to them.    *)
CloseQuarterHour(v, metered) ==
  /\ clock # carried.slot
  /\ Register(v)
  /\ carried' = [slot |-> clock, metered |-> metered]
  /\ UNCHANGED <<clocks, outbox, strays, quarterHour, lost>>

(* prune, called when a control event closes: the oldest rows go a batch a *)
(* transaction, up to the retention or up to the transaction that failed.  *)
SweepRegisters(cut) ==
  LET swept == {s \in Slots : s <= cut} IN
  /\ cut <= clock - Keep
  /\ registers' = [s \in Slots |-> IF s \in swept THEN NoRow ELSE registers[s]]
  /\ forwarded' = forwarded \ swept
  /\ owed' = owed \ swept
  /\ UNCHANGED <<clocks, carried, outbox, strays, quarterHour, lost>>
-----------------------------------------------------------------------------
(* The outbox *)

(* The first n slots of S, in the order of the table. *)
Oldest(S, n) == {s \in S : Cardinality({t \in S : t < s}) < n}

PendingQuarterHours ==
  [s \in Slots |-> IF s \in Oldest(owed \cap Held(registers), Batch)
                   THEN registers[s] ELSE NoRow]

(* Mutant: a batch is posted when it is full. *)
PostFullBatch == /\ outbox.at = "idle"
                 /\ Cardinality(Held(PendingQuarterHours)) = Batch
                 /\ outbox' = [at |-> "posting", batch |-> PendingQuarterHours]
                 /\ UNCHANGED <<clocks, carried, tables, strays, quarterHour, lost>>

(* Read under the lock what is owed; release the lock; post it. *)
PostBatch == /\ outbox.at = "idle"
             /\ PendingQuarterHours # NoBatch
             /\ outbox' = [at |-> "posting", batch |-> PendingQuarterHours]
             /\ UNCHANGED <<clocks, carried, tables, strays, quarterHour, lost>>

(* The fleet refused it, or was not there: the rows stay owed. *)
PostFails == /\ outbox.at = "posting"
             /\ outbox' = Idle
             /\ UNCHANGED <<clocks, carried, tables, strays, quarterHour, lost>>

(* No answer in time, and the request is still on its way. *)
PostStraggles == /\ outbox.at = "posting"
                 /\ lost < MaxLost
                 /\ strays' = strays \cup {outbox.batch}
                 /\ outbox' = Idle
                 /\ lost' = lost + 1
                 /\ UNCHANGED <<clocks, carried, tables, quarterHour>>

AnswerArrives == /\ outbox.at = "handled"
                 /\ outbox' = [outbox EXCEPT !.at = "accepted"]
                 /\ UNCHANGED <<clocks, carried, tables, strays, quarterHour, lost>>

(* The fleet took the batch, and the box never hears of it. *)
AnswerLost == /\ outbox.at = "handled"
              /\ lost < MaxLost
              /\ outbox' = Idle
              /\ lost' = lost + 1
              /\ UNCHANGED <<clocks, carried, tables, strays, quarterHour>>

(* Mutant: what is marked is read again, and not what was posted. *)
MarkPending ==
  /\ outbox.at = "accepted"
  /\ forwarded' = forwarded \cup Held(PendingQuarterHours)
  /\ owed' = owed \ Held(PendingQuarterHours)
  /\ outbox' = Idle
  /\ UNCHANGED <<clocks, carried, registers, strays, quarterHour, lost>>

(* Mutant: the mark begins one row late. *)
MarkAllButTheFirst ==
  LET slots == Held(outbox.batch) \ Oldest(Held(outbox.batch), 1) IN
  /\ outbox.at = "accepted"
  /\ forwarded' = forwarded \cup (slots \cap Held(registers))
  /\ owed' = owed \ slots
  /\ outbox' = Idle
  /\ UNCHANGED <<clocks, carried, registers, strays, quarterHour, lost>>

(* mark_forwarded, under the lock again: whatever row each slot holds now. *)
MarkForwarded ==
  LET slots == Held(outbox.batch) IN
  /\ outbox.at = "accepted"
  /\ forwarded' = forwarded \cup (slots \cap Held(registers))
  /\ owed' = owed \ slots
  /\ outbox' = Idle
  /\ UNCHANGED <<clocks, carried, registers, strays, quarterHour, lost>>

(* The store could not be written: the round ends with an error. *)
MarkFails == /\ outbox.at = "accepted"
             /\ lost < MaxLost
             /\ outbox' = Idle
             /\ lost' = lost + 1
             /\ UNCHANGED <<clocks, carried, tables, strays, quarterHour>>

(* The process dies and starts again.  The store is what its transactions  *)
(* committed; the tallies and the outbox's batch are gone, and a request   *)
(* that was out stays out.                                                 *)
Restart == /\ \/ outbox.at = "idle" /\ UNCHANGED <<lost, strays>>
              \/ /\ outbox.at # "idle"
                 /\ lost < MaxLost
                 /\ lost' = lost + 1
                 /\ strays' = IF outbox.at = "posting"
                              THEN strays \cup {outbox.batch} ELSE strays
           /\ carried' = [slot |-> clock, metered |-> FALSE]
           /\ outbox' = Idle
           /\ UNCHANGED <<clocks, tables, quarterHour>>
-----------------------------------------------------------------------------
(* histd *)

(* Mutant: only the first of a batch. *)
PlacedFirst(batch) ==
  [s \in Slots |-> IF s \in Oldest(Held(batch), 1) THEN Append(quarterHour[s], batch[s])
                   ELSE quarterHour[s]]

(* One INSERT for the whole batch.  recorded_at is the instant the request *)
(* is handled and part of the key, so every handled request appends.       *)
Placed(batch) ==
  [s \in Slots |-> IF batch[s] = NoRow THEN quarterHour[s]
                   ELSE Append(quarterHour[s], batch[s])]

FleetTakes == /\ outbox.at = "posting"
              /\ quarterHour' = Placed(outbox.batch)
              /\ outbox' = [outbox EXCEPT !.at = "handled"]
              /\ UNCHANGED <<clocks, carried, tables, strays, lost>>

FleetTakesStray(batch) == /\ quarterHour' = Placed(batch)
                          /\ strays' = strays \ {batch}
                          /\ UNCHANGED <<clocks, carried, tables, outbox, lost>>

StrayVanishes(batch) == /\ strays' = strays \ {batch}
                        /\ UNCHANGED <<clocks, carried, tables, outbox, quarterHour, lost>>

(* The daily sweep. *)
FleetPrunes == /\ quarterHour' = [s \in Slots |-> IF s <= fleetClock - Keep
                                                  THEN << >> ELSE quarterHour[s]]
               /\ UNCHANGED <<clocks, carried, tables, outbox, strays, lost>>
-----------------------------------------------------------------------------
Next == \/ Advance
        \/ \E c \in Slots : SetClock(c)
        \/ Meter
        \/ \E v \in Value, metered \in BOOLEAN : CloseQuarterHour(v, metered)
        \/ \E cut \in Slots : SweepRegisters(cut)
        \/ PostBatch
        \/ PostFails
        \/ PostStraggles
        \/ AnswerArrives
        \/ AnswerLost
        \/ MarkForwarded
        \/ MarkFails
        \/ Restart
        \/ FleetTakes
        \/ \E batch \in strays : FleetTakesStray(batch) \/ StrayVanishes(batch)
        \/ FleetPrunes

Spec == Init /\ [][Next]_vars

(* The outbox is a timer that always fires again, and a household's WAN    *)
(* that fails a call does not fail every call: whatever is tried again and *)
(* again succeeds in the end.                                              *)
Fairness == /\ WF_vars(PostBatch)
            /\ SF_vars(FleetTakes)
            /\ SF_vars(AnswerArrives)
            /\ SF_vars(MarkForwarded)

FairSpec == Spec /\ Fairness
-----------------------------------------------------------------------------
TypeOK == /\ clock \in Slots
          /\ fleetClock \in Slots
          /\ carried \in [slot : Slots, metered : BOOLEAN]
          /\ registers \in Rows
          /\ forwarded \subseteq Slots
          /\ owed \subseteq Slots
          /\ outbox \in [at : Stage, batch : Rows]
          /\ strays \subseteq Rows
          /\ quarterHour \in [Slots -> Seq(Value)]
          /\ steps \in Nat
          /\ lost \in Nat

Newest(s) == quarterHour[s][Len(quarterHour[s])]

ReleasedByTheFleet(s) == s <= fleetClock - Keep

(* The owed set and the rows tell the same story: a register is owed       *)
(* exactly while it is held and carries no forwarded_at.  It is what makes *)
(* the length of the owed set the size of the backlog.                     *)
TablesAgree == owed = Held(registers) \ forwarded /\ forwarded \subseteq Held(registers)

(* A register the box no longer owes is one the fleet has a version of,    *)
(* until the fleet's own retention releases it: across a lost answer, a    *)
(* late request, a crash between the POST and the mark, and a restatement. *)
ForwardedIsHeld ==
  \A s \in Held(registers) \ owed : quarterHour[s] # << >> \/ ReleasedByTheFleet(s)

(* What the fleet settles with is what the box holds: the newest version   *)
(* of a register that is no longer owed is the register.  put_quarter_hours*)
(* promises it of a restated register too ("it is a different number from  *)
(* the one they were given"), and a batch that was in flight while the     *)
(* register was restated is where that promise is broken.                  *)
NewestIsCurrent ==
  \A s \in Held(registers) \ owed :
     \/ quarterHour[s] # << >> /\ Newest(s) = registers[s]
     \/ ReleasedByTheFleet(s)

(* While the box's clock only runs on, no register is restated, and what   *)
(* the fleet settles with is what the box holds.                           *)
NewestWhileSteady == steps = 0 => NewestIsCurrent

(* The fleet's record of a household has no hole the box could still fill: *)
(* while the clock only runs on, what is owed is younger than everything   *)
(* that is not, whatever was lost, posted late or cut short by a crash.    *)
NoHoleBehindTheMark ==
  steps = 0 => \A s \in Held(registers) \ owed, t \in owed : s < t

(* Whatever is owed is forwarded in the end, or its retention runs out.    *)
EventuallyForwarded == \A s \in Slots : s \in owed ~> s \notin owed

(* The lane is an at-least-once leg. *)
Leg == INSTANCE AtLeastOnce
         WITH Item  <- Slots,
              taken <- {s \in Slots : quarterHour[s] # << >>},
              due   <- {s \in Slots : s <= clock - Keep \/ ReleasedByTheFleet(s)}

(* Every step of the lane is a step of the leg: an item stays owed until   *)
(* the fleet has it or its retention is over, across loss and crash.       *)
ImplementsAtLeastOnce == Leg!Spec
=============================================================================
