----------------------------- MODULE ControlLoop -----------------------------
(***************************************************************************)
(* What a tick of the control loop does with a decision:                   *)
(*                                                                         *)
(*   hems-realtime arbiter.rs  Arbiter::tick: the ramp, what the device    *)
(*                             can hold, the deadband, the messages        *)
(*   hems-device command.rs    realisable, commands_for                    *)
(*   hemsd runtime/control.rs  tick_once: keep_the_failsafe, deliver, and  *)
(*                             what is carried to the next tick            *)
(*   hemsd runtime/mod.rs      failsafe_in_force, at the start             *)
(*                                                                         *)
(* What is asked of a device and what the guard leaves of it is `ask`,     *)
(* which changes as it likes: Guard and Phases model where it comes from.  *)
(* A message is the device's setting (the conductors of a charge point,    *)
(* the direction of a reversible heat pump) and then its power, and either *)
(* may be refused.  The names are kept apart from those of Phases, beside  *)
(* which the proofs take this module.                                      *)
(***************************************************************************)
EXTENDS Integers, FiniteSets, FiniteSetsExt

CONSTANTS
    Chargers, Tanks, Pumps, Others,  \* the devices that are commanded, by kind
    Settings,               \* [device -> the set of its settings]
    Rating,                 \* [device -> its own [floor, ceiling]]
    MinPower, MaxPower,     \* [Evses -> [setting -> Nat]]
    ByContact,              \* the pumps told a contact or a start, not a power
    Deadband,               \* a smaller change is not sent
    Ramp,                   \* the most a value moves in a tick, None for freely
    Asks,                   \* [device -> the set of what may be asked of it]
    MaxChanges,             \* bound: how often what is asked changes
    MaxWrites,              \* bound: how often the operator writes a failsafe
    MaxFaults,              \* bound: refusals, failed writes and restarts
    None

Devices == Chargers \cup Tanks \cup Pumps \cup Others

Setting == UNION {Settings[d] : d \in Devices}

(* What is asked: the power wanted, the guard's bounds, the setting. *)
Ask == [want : Int, floor : Int, ceiling : Int, setting : Setting]

(* What a device was told. *)
Word == [power : Int, setting : Setting, limited : BOOLEAN]

(* The guard leaves what may be off no less than nothing. *)
ASSUME ControlLoopAssumption ==
    /\ \A d \in Devices :
          /\ Rating[d].floor \in Int /\ Rating[d].ceiling \in Nat
          /\ Asks[d] \subseteq Ask
          /\ \A a \in Asks[d] : a.floor <= a.ceiling /\ a.setting \in Settings[d]
    /\ \A e \in Chargers :
          /\ \A s \in Settings[e] :
                {MinPower[e][s], MaxPower[e][s]} \subseteq Nat /\ MinPower[e][s] <= MaxPower[e][s]
    /\ Chargers \cap Tanks = {}
    /\ \A d \in Chargers \cup Tanks : \A a \in Asks[d] : a.ceiling >= 0
    /\ Deadband \in Nat /\ Ramp \in Nat \cup {None} /\ ByContact \subseteq Pumps
    /\ MaxChanges \in Nat /\ MaxWrites \in Nat /\ MaxFaults \in Nat
    /\ None \notin Int \cup Word

VARIABLES
    ask,        \* what is asked of every device
    previous,   \* carried.previous: what it was decided last tick
    told,       \* what the device was last told and took
    missed,     \* history: the devices that refused some of their last message
    crept,      \* history: changes since a device's last message
    inForce,    \* the failsafe the LPC driver holds: the number of its write, or 0
    reported,   \* registry.failsafe: written in this process
    remembered, \* carried.failsafe
    kept,       \* the store's record
    unwritten,  \* history: the writes the store failed to take
    writes,     \* how often the operator has written
    changes, faults

loopVars == <<ask, previous, told, missed, crept, inForce, reported, remembered,
              kept, unwritten, writes, changes, faults>>

commands == <<previous, told, missed, crept>>
failsafe == <<inForce, reported, remembered, kept, unwritten, writes>>

-----------------------------------------------------------------------------
(* The value of a tick *)

Lesser(p, q)   == IF p <= q THEN p ELSE q
Greater(p, q)  == IF p >= q THEN p ELSE q
Clamp(p, a)    == Lesser(Greater(p, a.floor), a.ceiling)
Distance(p, q) == IF p >= q THEN p - q ELSE q - p

(* Mutant: a change inside the deadband is not even decided. *)
RampedOutsideTheDeadband(p, before, a) ==
    IF before # None /\ Distance(p, before) <= Deadband THEN before
    ELSE IF Ramp = None \/ before = None THEN p
    ELSE LET step == Lesser(Distance(p, before), Ramp)
         IN  Clamp(IF p >= before THEN before + step ELSE before - step, a)

(* Arbiter::smooth. *)
Ramped(p, before, a) ==
    IF Ramp = None \/ before = None THEN p
    ELSE LET step == Lesser(Distance(p, before), Ramp)
         IN  Clamp(IF p >= before THEN before + step ELSE before - step, a)

(* realisable: a charge point is off, or at its least or above it; a       *)
(* hot-water tank is off, or on where it is left its whole rating and that *)
(* is the nearer of the two.                                               *)
Started(e, p, a) ==
    LET candidate == Min({p, MaxPower[e][a.setting], a.ceiling})
    IN  IF candidate < MinPower[e][a.setting] THEN 0 ELSE candidate

Heating(t, p, a) ==
    LET full == Rating[t].ceiling
    IN  IF a.ceiling >= full /\ 2 * p >= full THEN full ELSE 0

Realisable(d, p, a) ==
    CASE d \in Chargers -> Started(d, p, a)
      [] d \in Tanks    -> Heating(d, p, a)
      [] OTHER          -> Clamp(p, a)

DecidedFor(d) ==
    Realisable(d, Ramped(Clamp(ask[d].want, ask[d]), previous[d], ask[d]), ask[d])

(* GuardVerdict::binding_at.  The ratings of a device that can draw are a  *)
(* rule like any other at its ceiling, and none at its floor.              *)
Held(d, value) ==
    \/ value >= ask[d].ceiling /\ Rating[d].ceiling > 0
    \/ value <= ask[d].floor /\ ask[d].floor > Rating[d].floor

(* Mutant: a change of twice the deadband is not sent either. *)
MovedTwice(d, value) ==
    previous[d] = None \/ Distance(value, previous[d]) > 2 * Deadband

Moved(d, value) == previous[d] = None \/ Distance(value, previous[d]) > Deadband

(* Mutant: a value held by a rule is sent once. *)
SentOnceMoved(values) == {d \in Devices : Moved(d, values[d])}

Sent(values) ==
    {d \in Devices : Moved(d, values[d]) \/ Held(d, values[d])}

(* commands_for: a heat pump spoken to by contact is told to limit itself, *)
(* or to stop, wherever a rule of the guard's holds the value.             *)
Message(d, value) ==
    [power |-> value, setting |-> ask[d].setting,
     limited |-> d \in ByContact /\ Held(d, value)]

(* deliver: one command after the other, whatever came of the one before. *)
Parts(d) == IF Cardinality(Settings[d]) > 1 THEN {"setting", "power"} ELSE {"power"}

Taken(d, value, refused) ==
    LET now == Message(d, value)
        before == IF told[d] = None
                  THEN [power |-> 0, setting |-> now.setting, limited |-> FALSE]
                  ELSE told[d]
        ofPower   == IF <<d, "power">> \in refused THEN before ELSE now
        ofSetting == IF <<d, "setting">> \in refused THEN before ELSE now
    IN  [power |-> ofPower.power, limited |-> ofPower.limited,
         setting |-> ofSetting.setting]

(* At most one driver refuses in a tick: one of the two commands, or both. *)
Refusals(sent) ==
    {{}} \cup UNION {{{d} \X P : P \in SUBSET Parts(d) \ {{}}} : d \in sent}

-----------------------------------------------------------------------------
(* The failsafe *)

(* Mutant: only the first write is kept. *)
KeepTheFirst(taken) ==
    IF reported # None /\ kept = None
    THEN /\ remembered' = reported
         /\ kept' = IF taken THEN reported ELSE kept
         /\ unwritten' = IF taken THEN unwritten ELSE unwritten \cup {reported}
    ELSE /\ taken
         /\ remembered' = IF reported = None THEN remembered ELSE reported
         /\ UNCHANGED <<kept, unwritten>>

(* keep_the_failsafe: written on change, and remembered before it is. *)
KeepTheFailsafe(taken) ==
    IF reported # None /\ remembered # reported
    THEN /\ remembered' = reported
         /\ kept' = IF taken THEN reported ELSE kept
         /\ unwritten' = IF taken THEN unwritten ELSE unwritten \cup {reported}
    ELSE taken /\ UNCHANGED <<remembered, kept, unwritten>>

(* failsafe_in_force: what was written down, else what is configured. *)
FailsafeInForce == IF kept = None THEN 0 ELSE kept

-----------------------------------------------------------------------------
(* The loop *)

Deliver(values, sent, refused) ==
    /\ previous' = values
    /\ told' = [d \in Devices |->
          IF d \in sent THEN Taken(d, values[d], refused) ELSE told[d]]
    /\ missed' = (missed \ sent) \cup {r[1] : r \in refused}
    /\ crept' = [d \in Devices |->
          IF d \in sent THEN 0
          ELSE IF values[d] = previous[d] THEN crept[d] ELSE crept[d] + 1]

TickWith(refusals(_), answers) ==
    \E values \in {[d \in Devices |-> DecidedFor(d)]} :
    \E sent \in {Sent(values)} :
    \E refused \in refusals(sent), taken \in answers :
        /\ Deliver(values, sent, refused)
        /\ KeepTheFailsafe(taken)
        /\ faults' = faults + (IF refused = {} THEN 0 ELSE 1) + (IF taken THEN 0 ELSE 1)
        /\ faults' <= MaxFaults
        /\ UNCHANGED <<ask, inForce, reported, writes, changes>>

LoopTick == TickWith(Refusals, BOOLEAN)

(* A tick in which nothing goes wrong. *)
GoodTick == TickWith(LAMBDA sent : {{}}, {TRUE})

(* A plan, a person, the sun, the guard: something else is asked. *)
AskChanges(d, a) ==
    /\ changes < MaxChanges
    /\ a # ask[d]
    /\ ask' = [ask EXCEPT ![d] = a]
    /\ changes' = changes + 1
    /\ UNCHANGED <<commands, failsafe, faults>>

OperatorWrites ==
    /\ writes < MaxWrites
    /\ writes' = writes + 1
    /\ inForce' = writes'
    /\ reported' = writes'
    /\ UNCHANGED <<ask, commands, remembered, kept, unwritten, changes, faults>>

(* Everything carried is in memory; the devices keep what they were told. *)
LoopRestart ==
    /\ faults < MaxFaults
    /\ faults' = faults + 1
    /\ previous' = [d \in Devices |-> None]
    /\ inForce' = FailsafeInForce
    /\ reported' = None
    /\ remembered' = None
    /\ UNCHANGED <<ask, told, missed, crept, kept, unwritten, writes, changes>>

LoopInit ==
    /\ ask \in [Devices -> UNION {Asks[d] : d \in Devices}]
    /\ \A d \in Devices : ask[d] \in Asks[d]
    /\ previous = [d \in Devices |-> None]
    /\ told = [d \in Devices |-> None]
    /\ missed = {}
    /\ crept = [d \in Devices |-> 0]
    /\ inForce = 0 /\ reported = None /\ remembered = None /\ kept = None
    /\ unwritten = {} /\ writes = 0
    /\ changes = 0 /\ faults = 0

LoopNext ==
    \/ LoopTick
    \/ \E d \in Devices : \E a \in Asks[d] : AskChanges(d, a)
    \/ OperatorWrites
    \/ LoopRestart

(* The tick is on a timer; nothing else has to happen. *)
LoopSpec == LoopInit /\ [][LoopNext]_loopVars /\ WF_loopVars(GoodTick)

-----------------------------------------------------------------------------
(* Properties *)

(* The only step that changes neither what is asked nor what the operator  *)
(* has written, and leaves something decided.                              *)
Ticked == UNCHANGED <<ask, writes>> /\ \A d \in Devices : previous'[d] # None

(* What is decided is a value the device has: a charge point is off or at *)
(* least at what its least current makes of the conductors it is on, a    *)
(* tank off or on.                                                        *)
LoopTypeOK ==
    /\ ask \in [Devices -> Ask] /\ \A d \in Devices : ask[d] \in Asks[d]
    /\ previous \in [Devices -> Int \cup {None}] /\ told \in [Devices -> Word \cup {None}]
    /\ \A e \in Chargers : previous[e] = None \/ previous[e] = 0
          \/ \E s \in Settings[e] : previous[e] \in MinPower[e][s] .. MaxPower[e][s]
    /\ \A t \in Tanks : previous[t] \in {None, 0, Rating[t].ceiling}
    /\ missed \subseteq Devices /\ crept \in [Devices -> Nat]
    /\ {reported, remembered, kept} \subseteq 1 .. MaxWrites \cup {None}
    /\ inForce \in 0 .. MaxWrites /\ unwritten \subseteq 1 .. MaxWrites
    /\ writes \in 0 .. MaxWrites /\ changes \in 0 .. MaxChanges /\ faults \in 0 .. MaxFaults

(* What a device was told lags behind what was decided for it by no more    *)
(* than a deadband for every change since that was not sent.  It does lag:  *)
(* a change is measured from the last value decided, not from the last one  *)
(* sent, so that small changes add up unsent.                               *)
LagIsBounded ==
    \A d \in Devices \ missed : previous[d] # None =>
        Distance(told[d].power, previous[d]) <= crept[d] * Deadband

(* A tick never decides more than the guard leaves, ramp and steps          *)
(* included, and where what it decides is all the guard leaves, the device  *)
(* has been told just that by the end of the tick, changed or not.          *)
GuardHasTheLastWord ==
    [][Ticked => \A d \in Devices :
         /\ previous'[d] <= ask[d].ceiling
         /\ previous'[d] >= ask[d].floor \/ d \in Chargers \cup Tanks
         /\ previous'[d] = ask[d].ceiling /\ Rating[d].ceiling > 0 /\ d \notin missed'
              => /\ told'[d].power = ask[d].ceiling
                 /\ told'[d].setting = ask[d].setting]_loopVars

(* Restarts do not undo the operator's last write, unless it came in the    *)
(* same tick as the restart or the store failed on it: nothing tries again. *)
OperatorsWordSurvives ==
    [][LoopRestart /\ reported = remembered /\ inForce \notin unwritten
        => inForce' = inForce]_loopVars

(* Once nothing changes any more, the value a device is ramped to arrives.  *)
(* A charge point and a tank are left out: with less in a tick than they    *)
(* start at, the ramp begins again at zero every tick.                      *)
RampArrives ==
    \A d \in Pumps \cup Others : <>[](previous[d] = Clamp(ask[d].want, ask[d]))

=============================================================================
