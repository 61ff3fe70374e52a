--------------------------- MODULE RealtimeProofs ---------------------------
(***************************************************************************)
(* The real-time tier.  First the phase policy for any site, any           *)
(* thresholds and any windows: its types, the dwell, that what is not      *)
(* being waited out is the better mode, and that a switch is made exactly  *)
(* when it is due.  Then the tick that carries its answers out, for any    *)
(* devices, deadband and ramp: what a device has been told, the guard's    *)
(* ceiling and the operator's failsafe.                                    *)
(***************************************************************************)
EXTENDS Phases, ControlLoop, SequenceTheorems, TLAPS

Tick1 == [at : Times, available : Level, mode : Mode]

(* What a charge point's policy is given is a state, its own or a new one. *)
Given(e, now) == IF phases[e] = NoState THEN Entered(DefaultMode(e), now) ELSE phases[e]

LEMMA EnteredType ==
  ASSUME NEW mode \in Mode, NEW now \in Times
  PROVE  /\ Entered(mode, now) \in PhaseState
         /\ Entered(mode, now).mode = mode
         /\ Entered(mode, now).since = now
         /\ Entered(mode, now).wanted = NotWanted
BY DEF Entered, PhaseState

LEMMA DefaultIsAMode ==
  ASSUME NEW e \in Evses
  PROVE  DefaultMode(e) \in Mode /\ Supports(e, DefaultMode(e))
BY PhasesAssumption DEF DefaultMode, Mode, Supports

LEMMA FavouredIsAMode ==
  ASSUME NEW e \in Evses, NEW current \in Mode, NEW available \in Level
  PROVE  FavouredMode(e, current, available) \in Mode
BY DEF FavouredMode, Mode

(* What an argument comes to: the mode it was for, as of now, once the     *)
(* mode there is has had its turn; or the mode there is, with the argument *)
(* noted.                                                                  *)
LEMMA ArguedIs ==
  ASSUME NEW state \in PhaseState, NEW favoured \in Mode, NEW now \in Times
  PROVE  \/ Settled(state, now) /\ Argued(state, favoured, now) = Entered(favoured, now)
         \/ /\ Argued(state, favoured, now) \in PhaseState
            /\ Argued(state, favoured, now).mode = state.mode
            /\ Argued(state, favoured, now).since = state.since
            /\ Argued(state, favoured, now).wanted # NotWanted
<1> DEFINE wanted == IF state.wanted # NotWanted /\ state.wanted.mode = favoured
                     THEN state.wanted ELSE [mode |-> favoured, since |-> now]
<1>1. wanted \in Wanted /\ wanted # NotWanted
  BY NoStateAssumption DEF PhaseState, Wanted
<1>2. CASE now - wanted.since >= Window(favoured) /\ Settled(state, now)
  BY <1>2 DEF Argued
<1>3. CASE ~(now - wanted.since >= Window(favoured) /\ Settled(state, now))
  <2>1. Argued(state, favoured, now) = [state EXCEPT !.wanted = wanted]
    BY <1>3 DEF Argued
  <2> HIDE DEF wanted
  <2> QED BY <1>1, <2>1 DEF PhaseState
<1> QED BY <1>2, <1>3

(* What a tick makes of a charge point: it stays in the mode it is in and  *)
(* entered when it did, or it enters another one now, which it may only do *)
(* after the dwell or where the wiring cannot hold the mode.               *)
LEMMA DecideIs ==
  ASSUME NEW e \in Evses, NEW state \in PhaseState, NEW available \in Level, NEW now \in Times
  PROVE  /\ Decide(e, state, available, now) \in PhaseState
         /\ \/ /\ Decide(e, state, available, now).mode = state.mode
               /\ Decide(e, state, available, now).since = state.since
            \/ /\ Decide(e, state, available, now).since = now
               /\ Settled(state, now) \/ ~Supports(e, state.mode)
         /\ Supports(e, state.mode) => Supports(e, Decide(e, state, available, now).mode)
         /\ Enabled /\ Switchable(e) /\ Decide(e, state, available, now).wanted = NotWanted
              => Decide(e, state, available, now).mode
                   = FavouredMode(e, state.mode, available)
<1> DEFINE favoured == FavouredMode(e, state.mode, available)
           next == Decide(e, state, available, now)
<1>1. state.mode \in Mode /\ favoured \in Mode
  BY FavouredIsAMode DEF PhaseState
<1>2. CASE ~Supports(e, state.mode)
  <2>1. next = Entered(DefaultMode(e), now)
    BY <1>2 DEF Decide
  <2>2. ~Switchable(e)
    BY <1>1, <1>2 DEF Supports, Switchable
  <2> QED BY <1>2, <2>1, <2>2, DefaultIsAMode, EnteredType
<1>3. CASE Supports(e, state.mode) /\ (~Enabled \/ ~Switchable(e) \/ favoured = state.mode)
  <2>1. next = [state EXCEPT !.wanted = NotWanted]
    BY <1>3 DEF Decide, Agreed
  <2> QED BY <1>3, <2>1 DEF PhaseState
<1>4. CASE Supports(e, state.mode) /\ Enabled /\ Switchable(e) /\ favoured # state.mode
  <2>1. next = Argued(state, favoured, now)
    BY <1>4 DEF Decide
  <2>2. Supports(e, favoured)
    BY <1>4 DEF Supports, Switchable
  <2> HIDE DEF favoured
  <2> QED BY <1>1, <1>4, <2>1, <2>2, ArguedIs, EnteredType DEF favoured
<1> QED BY <1>2, <1>3, <1>4
-----------------------------------------------------------------------------
(* Type correctness *)

LEMMA GivenType ==
  ASSUME TypeOK, NEW e \in Evses, NEW now \in Times
  PROVE  Given(e, now) \in PhaseState
BY DefaultIsAMode, EnteredType DEF TypeOK, Given

(* A tick, charge point by charge point.                                   *)
LEMMA TickIs ==
  ASSUME TypeOK, NEW passed \in 1 .. Stride, NEW available \in [Evses -> Level],
         Tick(passed, available), NEW e \in Evses
  PROVE  /\ clock' = clock + passed /\ elapsed' = elapsed + passed
         /\ clock' \in Times /\ elapsed' \in Times
         /\ phases'[e] = Decide(e, Given(e, clock'), available[e], clock')
         /\ phases'[e] \in PhaseState
         /\ decided'[e] = IF decided[e] # NoState /\ decided[e].mode = phases'[e].mode
                          THEN decided[e]
                          ELSE [mode |-> phases'[e].mode, at |-> elapsed']
         /\ past'[e] = IF ~Switchable(e) THEN past[e]
                       ELSE Append(past[e], [at |-> elapsed', available |-> available[e],
                                             mode |-> phases'[e].mode])
<1>1. clock' = clock + passed /\ elapsed' = elapsed + passed /\ clock' \in Times /\ elapsed' \in Times
  BY DEF Tick
<1>2. phases'[e] = Decide(e, Given(e, clock'), available[e], clock')
  BY <1>1 DEF Tick, DecideNext, Given
<1>3. phases'[e] \in PhaseState
  BY <1>1, <1>2, GivenType, DecideIs
<1> QED BY <1>1, <1>2, <1>3 DEF Tick

LEMMA Extended == ASSUME NEW S, NEW s \in Seq(S), NEW x \in S PROVE Append(s, x) \in Seq(S)
OBVIOUS

LEMMA StepType == ASSUME TypeOK, [Next]_vars PROVE TypeOK'
<1>1. ASSUME NEW passed \in 1 .. Stride, NEW available \in [Evses -> Level],
             Tick(passed, available)
      PROVE  TypeOK'
  <2>0. \A e \in Evses :
        /\ clock' \in Times /\ elapsed' \in Times
        /\ phases'[e] \in PhaseState
        /\ decided'[e] \in {decided[e], [mode |-> phases'[e].mode, at |-> elapsed']}
        /\ past'[e] \in {past[e], Append(past[e], [at |-> elapsed', available |-> available[e],
                                                   mode |-> phases'[e].mode])}
    BY <1>1, TickIs
  <2>1. \A e \in Evses : phases'[e] \in PhaseState /\ decided'[e] \in Decided \cup {NoState}
    <3> SUFFICES ASSUME NEW e \in Evses
                 PROVE  phases'[e] \in PhaseState /\ decided'[e] \in Decided \cup {NoState}
      OBVIOUS
    <3>1. phases'[e].mode \in Mode /\ elapsed' \in Times
      BY <2>0 DEF PhaseState
    <3>2. decided[e] \in Decided \cup {NoState}
      BY DEF TypeOK
    <3>3. [mode |-> phases'[e].mode, at |-> elapsed'] \in Decided
      BY <3>1 DEF Decided
    <3> QED BY <2>0, <3>2, <3>3
  <2>2. \A e \in Evses : past'[e] \in Seq(Tick1)
    <3> SUFFICES ASSUME NEW e \in Evses PROVE past'[e] \in Seq(Tick1)
      OBVIOUS
    <3>1. [at |-> elapsed', available |-> available[e], mode |-> phases'[e].mode] \in Tick1
      BY <2>0 DEF Tick1, PhaseState
    <3>2. past[e] \in Seq(Tick1)
      BY DEF TypeOK, Tick1
    <3>3. Append(past[e], [at |-> elapsed', available |-> available[e],
                           mode |-> phases'[e].mode]) \in Seq(Tick1)
      BY <3>1, <3>2, Extended
    <3> QED BY <2>0, <3>2, <3>3, Zenon
  <2>3. /\ clock' \in Times /\ elapsed' \in Times
        /\ phases' = [e \in Evses |-> phases'[e]]
        /\ decided' = [e \in Evses |-> decided'[e]]
        /\ past' = [e \in Evses |-> past'[e]]
        /\ steps' = steps /\ restarts' = restarts
    BY <1>1 DEF Tick
  <2> QED BY <2>1, <2>2, <2>3 DEF TypeOK, Tick1
<1>2. ASSUME NEW c \in Times, SetClock(c) PROVE TypeOK'
  BY <1>2 DEF TypeOK, SetClock
<1>3. CASE Restart
  BY <1>3 DEF TypeOK, Restart
<1>4. CASE UNCHANGED vars
  BY <1>4 DEF TypeOK, vars
<1> QED BY <1>1, <1>2, <1>3, <1>4 DEF Next

LEMMA InitType == Init => TypeOK
BY PhasesAssumption DEF Init, TypeOK, Times

(* Every variable keeps its type, whatever the site and the windows are:   *)
(* what decide returns is always a state it can be given again.            *)
THEOREM TypeCorrect == Spec => []TypeOK
<1>1. Init => TypeOK
  BY InitType
<1>2. TypeOK /\ [Next]_vars => TypeOK'
  BY StepType
<1> QED BY <1>1, <1>2, PTL DEF Spec
-----------------------------------------------------------------------------
(* The dwell *)

(* What the policy remembers of a charge point is at least as recent as    *)
(* what the charge point was told, and the wiring can hold it.             *)
Remembers(e) ==
  phases[e] # NoState =>
    /\ decided[e] # NoState
    /\ decided[e].mode = phases[e].mode
    /\ decided[e].at <= phases[e].since
    /\ phases[e].since <= clock
    /\ Supports(e, phases[e].mode)

NothingIsAhead == \A e \in Evses : decided[e] # NoState => decided[e].at <= elapsed

DwellInv == /\ NothingIsAhead
            /\ steps = 0 => clock = elapsed /\ \A e \in Evses : Remembers(e)

LEMMA TickIsNotAhead ==
  ASSUME TypeOK, NothingIsAhead, NEW passed \in 1 .. Stride,
         NEW available \in [Evses -> Level], Tick(passed, available)
  PROVE  NothingIsAhead'
<1> SUFFICES ASSUME NEW e \in Evses, decided'[e] # NoState PROVE decided'[e].at <= elapsed'
  BY DEF NothingIsAhead
<1>1. elapsed \in Int /\ elapsed' \in Int /\ elapsed <= elapsed'
  <2>1. elapsed' = elapsed + passed
    BY TickIs
  <2> QED BY <2>1, PhasesAssumption DEF TypeOK, Times
<1>2. CASE decided'[e] = decided[e]
  <2>1. decided[e].at \in Int /\ decided[e].at <= elapsed
    BY <1>2 DEF TypeOK, Decided, Times, NothingIsAhead
  <2> QED BY <1>1, <1>2, <2>1
<1>3. CASE decided'[e] = [mode |-> phases'[e].mode, at |-> elapsed']
  BY <1>1, <1>3
<1> QED BY <1>2, <1>3, TickIs

LEMMA TickRemembers ==
  ASSUME TypeOK, DwellInv, steps = 0, NEW passed \in 1 .. Stride,
         NEW available \in [Evses -> Level], Tick(passed, available), NEW e \in Evses
  PROVE  Remembers(e)' /\ (phases[e] # NoState => ~Undone(e))
<1> DEFINE given == Given(e, clock')
<1>1. /\ clock' = elapsed'
      /\ phases'[e] = Decide(e, given, available[e], clock')
      /\ phases'[e] \in PhaseState
      /\ decided'[e] = IF decided[e] # NoState /\ decided[e].mode = phases'[e].mode
                       THEN decided[e]
                       ELSE [mode |-> phases'[e].mode, at |-> elapsed']
      /\ clock' \in Times /\ clock' = clock + passed
  <2>1. clock = elapsed
    BY DEF DwellInv
  <2> QED BY <2>1, TickIs
<1>2. given \in PhaseState
  BY <1>1, GivenType
<1>3. Supports(e, given.mode)
  BY <1>1, DefaultIsAMode, EnteredType DEF DwellInv, Remembers, Given
<1>4. /\ Supports(e, phases'[e].mode)
      /\ \/ phases'[e].mode = given.mode /\ phases'[e].since = given.since
         \/ phases'[e].since = clock' /\ Settled(given, clock')
  BY <1>1, <1>2, <1>3, DecideIs
<1>5. /\ decided'[e] # NoState
      /\ decided'[e].mode = phases'[e].mode
      /\ decided'[e].at <= elapsed'
  <2>1. decided'[e] # NoState /\ decided'[e].mode = phases'[e].mode
    BY <1>1, NoStateAssumption DEF Decided, PhaseState
  <2> QED BY <2>1, TickIsNotAhead DEF NothingIsAhead, DwellInv
<1>6. CASE phases[e] = NoState
  <2>1. phases'[e].since = clock'
    BY <1>1, <1>4, <1>6, DefaultIsAMode, EnteredType DEF Given
  <2> QED BY <1>1, <1>4, <1>5, <1>6, <2>1 DEF Remembers, Times
<1>7. CASE phases[e] # NoState
  <2>1. given = phases[e] /\ Remembers(e)
    BY <1>7 DEF Given, DwellInv
  <2>2. /\ decided[e] # NoState /\ decided[e].mode = phases[e].mode
        /\ decided[e].at \in Int /\ phases[e].since \in Int /\ clock \in Int
        /\ decided[e].at <= phases[e].since /\ phases[e].since <= clock
    BY <1>7, <2>1 DEF TypeOK, PhaseState, Remembers, Decided, Times
  <2>3. clock' \in Int /\ Dwell \in Int /\ clock < clock'
    BY <1>1, <2>2, PhasesAssumption DEF Times
  <2>4. phases'[e].since \in Int /\ phases'[e].since <= clock' /\ phases[e].since <= phases'[e].since
    BY <1>4, <2>1, <2>2, <2>3
  <2>5. CASE phases'[e].mode = phases[e].mode
    <3>1. decided'[e] = decided[e]
      BY <1>1, <2>2, <2>5
    <3> QED BY <1>4, <1>5, <2>2, <2>4, <3>1 DEF Remembers, Undone
  <2>6. CASE phases'[e].mode # phases[e].mode
    <3>1. decided'[e].at = clock' /\ phases'[e].since = clock' /\ clock' - phases[e].since >= Dwell
      BY <1>1, <1>4, <2>1, <2>2, <2>6 DEF Settled
    <3>2. ~Undone(e)
      BY <1>1, <2>2, <2>3, <3>1 DEF Undone
    <3> QED BY <1>4, <1>5, <2>3, <3>1, <3>2 DEF Remembers
  <2> QED BY <2>5, <2>6
<1> QED BY <1>6, <1>7

LEMMA InitDwell == Init => DwellInv
BY DEF Init, DwellInv, NothingIsAhead, Remembers

LEMMA StepDwell ==
  ASSUME TypeOK, DwellInv, [Next]_vars
  PROVE  DwellInv' /\ (steps' = 0 => \A e \in Evses : phases[e] # NoState => ~Undone(e))
<1>1. ASSUME NEW passed \in 1 .. Stride, NEW available \in [Evses -> Level],
             Tick(passed, available)
      PROVE  DwellInv' /\ (steps' = 0 => \A e \in Evses : phases[e] # NoState => ~Undone(e))
  <2>1. NothingIsAhead'
    BY <1>1, TickIsNotAhead DEF DwellInv
  <2>2. steps' = steps /\ (steps = 0 => clock' = elapsed')
    BY <1>1 DEF Tick, DwellInv
  <2> QED BY <1>1, <2>1, <2>2, TickRemembers DEF DwellInv
<1>2. ASSUME NEW c \in Times, SetClock(c)
      PROVE  DwellInv' /\ (steps' = 0 => \A e \in Evses : phases[e] # NoState => ~Undone(e))
  <2>1. steps' # 0
    BY <1>2 DEF SetClock, TypeOK
  <2> QED BY <1>2, <2>1 DEF SetClock, DwellInv, NothingIsAhead
<1>3. ASSUME Restart
      PROVE  DwellInv' /\ (steps' = 0 => \A e \in Evses : phases[e] # NoState => ~Undone(e))
  <2>1. decided' = decided /\ steps' = steps /\ clock' = clock /\ elapsed' = elapsed
        /\ \A e \in Evses : phases'[e] = NoState
    BY <1>3 DEF Restart
  <2> QED BY <2>1 DEF DwellInv, NothingIsAhead, Remembers, Undone
<1>4. ASSUME UNCHANGED vars
      PROVE  DwellInv' /\ (steps' = 0 => \A e \in Evses : phases[e] # NoState => ~Undone(e))
  BY <1>4 DEF vars, DwellInv, NothingIsAhead, Remembers, Undone
<1> QED BY <1>1, <1>2, <1>3, <1>4 DEF Next

(* A box that runs on and whose clock only runs on holds every mode for at *)
(* least the dwell, whatever the surplus does, for any windows and any     *)
(* margin.                                                                 *)
THEOREM ModesAreHeld == Spec => HeldForTheDwell
<1>1. Init => TypeOK /\ DwellInv
  BY InitType, InitDwell
<1>2. TypeOK /\ DwellInv /\ [Next]_vars => TypeOK' /\ DwellInv'
  BY StepType, StepDwell
<1>3. TypeOK /\ DwellInv /\ [Next]_vars
        => [steps' = 0 => \A e \in Evses : phases[e] # NoState => ~Undone(e)]_vars
  BY StepDwell
<1> QED BY <1>1, <1>2, <1>3, PTL DEF Spec, HeldForTheDwell
-----------------------------------------------------------------------------
(* The better mode *)

(* What is favoured delivers the most, but for the margin on the way up.   *)
LEMMA FavouredIsBest ==
  ASSUME NEW e \in Evses, Switchable(e), NEW current \in Mode, NEW available \in Level,
         NEW mode \in Mode, mode = FavouredMode(e, current, available)
  PROVE  \/ Delivers(mode, available) >= Delivers(Other(mode), available)
         \/ mode = "single" /\ available < MinThree + Hysteresis
<1>1. /\ available \in Int /\ MinSingle \in Int /\ MaxSingle \in Int /\ MinThree \in Int
      /\ Hysteresis \in Nat /\ MinSingle <= MaxSingle /\ MaxSingle <= MinThree
  BY PhasesAssumption
<1>2. Supports(e, "single") /\ Supports(e, "three")
  BY DEF Supports, Switchable
<1>3. mode \in {"single", "three"} /\ current \in {"single", "three"}
  BY DEF Mode
<1>4. CASE available >= ThreeThreshold(current)
  BY <1>1, <1>2, <1>4 DEF FavouredMode, ThreeThreshold, Delivers, Other
<1>5. CASE ~(available >= ThreeThreshold(current)) /\ available >= MinSingle
  BY <1>1, <1>2, <1>3, <1>5 DEF FavouredMode, ThreeThreshold
<1>6. CASE ~(available >= ThreeThreshold(current)) /\ ~(available >= MinSingle)
  <2>1. available < MinSingle /\ available < MinThree
    BY <1>1, <1>6
  <2>2. Delivers("single", available) = 0 /\ Delivers("three", available) = 0
    BY <2>1 DEF Delivers
  <2> QED BY <1>3, <2>2 DEF Other
<1> QED BY <1>4, <1>5, <1>6

(* The last tick of the history, where no switch is being waited out. *)
Best(e) ==
  LET n == Len(past[e]) IN
  n > 0 /\ phases[e].wanted = NotWanted =>
    LET tick == past[e][n] IN
      \/ Delivers(tick.mode, tick.available) >= Delivers(Other(tick.mode), tick.available)
      \/ tick.mode = "single" /\ tick.available < MinThree + Hysteresis

BestInv == \A e \in Evses : (~Switchable(e) => past[e] = << >>) /\ (Enabled => Best(e))

LEMMA TickIsBest ==
  ASSUME TypeOK, BestInv, NEW passed \in 1 .. Stride,
         NEW available \in [Evses -> Level], Tick(passed, available), NEW e \in Evses
  PROVE  (~Switchable(e) => past'[e] = << >>) /\ (Enabled => Best(e)')
<1>1. CASE ~Switchable(e)
  <2>1. past'[e] = << >>
    BY <1>1, TickIs DEF BestInv
  <2> QED BY <1>1, <2>1 DEF Best
<1>2. CASE Switchable(e)
  <2> DEFINE given == Given(e, clock')
             tick == [at |-> elapsed', available |-> available[e], mode |-> phases'[e].mode]
  <2>1. /\ clock' \in Times /\ elapsed' \in Times
        /\ phases'[e] = Decide(e, given, available[e], clock')
        /\ phases'[e] \in PhaseState
        /\ past'[e] = Append(past[e], tick)
    BY <1>2, TickIs
  <2>2. given \in PhaseState
    BY <2>1, GivenType
  <2>3. past[e] \in Seq(Tick1) /\ tick \in Tick1
    BY <2>1 DEF TypeOK, Tick1, PhaseState
  <2>4. Len(past'[e]) > 0 /\ past'[e][Len(past'[e])] = tick
    BY <2>1, <2>3
  <2>5. ASSUME Enabled, phases'[e].wanted = NotWanted
        PROVE  \/ Delivers(tick.mode, tick.available) >= Delivers(Other(tick.mode), tick.available)
               \/ tick.mode = "single" /\ tick.available < MinThree + Hysteresis
    <3>1. phases'[e].mode = FavouredMode(e, given.mode, available[e])
      BY <1>2, <2>1, <2>2, <2>5, DecideIs
    <3>2. given.mode \in Mode /\ phases'[e].mode \in Mode
      BY <2>1, <2>2 DEF PhaseState
    <3> QED BY <1>2, <3>1, <3>2, FavouredIsBest
  <2> HIDE DEF tick
  <2> QED BY <1>2, <2>4, <2>5 DEF Best
<1> QED BY <1>1, <1>2

LEMMA StepBest == ASSUME TypeOK, BestInv, [Next]_vars PROVE BestInv'
<1>1. ASSUME NEW passed \in 1 .. Stride, NEW available \in [Evses -> Level],
             Tick(passed, available)
      PROVE  BestInv'
  BY <1>1, TickIsBest DEF BestInv, Switchable
<1>2. ASSUME NEW c \in Times, SetClock(c) PROVE BestInv'
  BY <1>2 DEF SetClock, BestInv, Best, Switchable
<1>3. CASE Restart
  BY <1>3 DEF Restart, BestInv, Best, Switchable
<1>4. CASE UNCHANGED vars
  BY <1>4 DEF vars, BestInv, Best, Switchable
<1> QED BY <1>1, <1>2, <1>3, <1>4 DEF Next

(* Where no switch is being waited out, the mode is the one that charges   *)
(* the car fastest, but for the margin on the way up, for any thresholds.  *)
THEOREM PendingOrAlwaysBest == Spec => []PendingOrBest
<1>1. Init => TypeOK /\ BestInv
  BY InitType DEF Init, BestInv, Best
<1>2. TypeOK /\ BestInv /\ [Next]_vars => TypeOK' /\ BestInv'
  BY StepType, StepBest
<1>3. BestInv => PendingOrBest
  BY DEF BestInv, Best, PendingOrBest
<1> QED BY <1>1, <1>2, <1>3, PTL DEF Spec
-----------------------------------------------------------------------------
(* When a mode is left *)

(* Tick s of a history is the one at which the mode of tick n was entered. *)
Enters(ticks, s, n) ==
  /\ s \in 1 .. n
  /\ s = 1 \/ ticks[s].mode # ticks[s - 1].mode
  /\ \A i \in s .. n : ticks[i].mode = ticks[n].mode

(* Tick k of it, not before s, is the one since which every tick up to n   *)
(* spoke against the mode.                                                 *)
Confirms(ticks, s, k, n) ==
  /\ k \in s .. n
  /\ \A i \in k .. n : Against(ticks[n].mode, ticks[i].available)
  /\ k = s \/ ~Against(ticks[n].mode, ticks[k - 1].available)

Ordered(ticks) == \A i, j \in 1 .. Len(ticks) : i < j => ticks[i].at < ticks[j].at

(* The two instants the policy remembers are those of its history: when it *)
(* entered the mode, and since when it has been argued with.               *)
Recalls(ticks, state) ==
  LET n == Len(ticks) IN
  /\ state.mode = ticks[n].mode
  /\ \E s \in 1 .. n :
       /\ Enters(ticks, s, n)
       /\ state.since = ticks[s].at
       /\ IF state.wanted = NotWanted THEN ~Against(ticks[n].mode, ticks[n].available)
          ELSE /\ state.wanted.mode = Other(ticks[n].mode)
               /\ \E k \in s .. n : Confirms(ticks, s, k, n) /\ state.wanted.since = ticks[k].at

SwitchedWhenDue(ticks) ==
  LET n == Len(ticks) IN
  n > 1 => (ticks[n].mode # ticks[n - 1].mode <=> Due(ticks, n))

WindowInv ==
  Enabled /\ steps = 0 =>
    /\ clock = elapsed
    /\ \A e \in Evses :
         /\ Ordered(past[e]) /\ \A i \in 1 .. Len(past[e]) : past[e][i].at <= elapsed
         /\ SwitchedWhenDue(past[e])
         /\ IF Len(past[e]) = 0 THEN Switchable(e) => phases[e] = NoState
            ELSE Switchable(e) /\ phases[e] # NoState /\ Recalls(past[e], phases[e])

(* A switchable charge point is told to leave a mode exactly by what       *)
(* speaks against it, and what speaks against a mode does not speak        *)
(* against the other.                                                      *)
LEMMA FavouredIs ==
  ASSUME NEW e \in Evses, Switchable(e), NEW mode \in Mode, NEW available \in Level
  PROVE  /\ FavouredMode(e, mode, available) = IF Against(mode, available) THEN Other(mode) ELSE mode
         /\ Other(mode) \in Mode /\ Other(mode) # mode
         /\ Against(mode, available) => ~Against(Other(mode), available)
<1>1. /\ available \in Int /\ MinSingle \in Int /\ MaxSingle \in Int /\ MinThree \in Int
      /\ Hysteresis \in Nat /\ MinSingle <= MaxSingle /\ MaxSingle <= MinThree
  BY PhasesAssumption
<1>2. Supports(e, "single") /\ Supports(e, "three")
  BY DEF Supports, Switchable
<1>3. CASE mode = "single"
  BY <1>1, <1>2, <1>3 DEF FavouredMode, ThreeThreshold, Against, Other, Mode
<1>4. CASE mode = "three"
  BY <1>1, <1>2, <1>4 DEF FavouredMode, ThreeThreshold, Against, Other, Mode
<1> QED BY <1>3, <1>4 DEF Mode

LEMMA SinceIs ==
  ASSUME NEW ticks, NEW n \in Nat, n > 1, NEW s, Enters(ticks, s, n - 1)
  PROVE  Since(ticks, n) = s
<1> DEFINE Is(j) == /\ j = 1 \/ ticks[j].mode # ticks[j - 1].mode
                    /\ \A i \in j .. n - 1 : ticks[i].mode = ticks[n - 1].mode
<1>1. s \in 1 .. n - 1 /\ Is(s)
  BY DEF Enters
<1>2. ASSUME NEW j \in 1 .. n - 1, Is(j) PROVE j = s
  <2>1. CASE j < s
    <3>1. s \in j .. n - 1 /\ s - 1 \in j .. n - 1 /\ s # 1
      BY <1>1, <2>1
    <3> QED BY <1>1, <1>2, <3>1
  <2>2. CASE s < j
    <3>1. j \in s .. n - 1 /\ j - 1 \in s .. n - 1 /\ j # 1
      BY <1>1, <2>2
    <3> QED BY <1>1, <1>2, <3>1
  <2> QED BY <1>1, <2>1, <2>2
<1>3. Since(ticks, n) = CHOOSE j \in 1 .. n - 1 : Is(j)
  BY DEF Since
<1> HIDE DEF Is
<1> QED BY <1>1, <1>2, <1>3

(* One tick more: the history so far is kept, and the tick is its last.    *)
LEMMA OneMore ==
  ASSUME NEW ticks \in Seq(Tick1), NEW tick \in Tick1
  PROVE  /\ Append(ticks, tick) \in Seq(Tick1)
         /\ Len(ticks) \in Nat /\ Len(Append(ticks, tick)) = Len(ticks) + 1
         /\ Append(ticks, tick)[Len(ticks) + 1] = tick
         /\ \A i \in 1 .. Len(ticks) : Append(ticks, tick)[i] = ticks[i] /\ ticks[i] \in Tick1
OBVIOUS

(* What is due at one tick more: what spoke against the mode throughout    *)
(* the window is what has done so without a break, since its first tick.   *)
LEMMA DueIs ==
  ASSUME NEW ticks \in Seq(Tick1), Ordered(ticks), NEW n \in Nat, n > 0, Len(ticks) = n + 1,
         NEW s, Enters(ticks, s, n)
  PROVE  /\ ~Against(ticks[n].mode, ticks[n + 1].available) => ~Due(ticks, n + 1)
         /\ \A k \in s .. n + 1 :
              /\ \A i \in k .. n + 1 : Against(ticks[n].mode, ticks[i].available)
              /\ k = s \/ ~Against(ticks[n].mode, ticks[k - 1].available)
              => (Due(ticks, n + 1) <=>
                    /\ ticks[n + 1].at - ticks[s].at >= Dwell
                    /\ ticks[n + 1].at - ticks[k].at >= Window(Other(ticks[n].mode)))
<1> DEFINE m == ticks[n].mode
           window == Window(Other(m))
           t == n + 1
<1>1. s \in 1 .. n /\ t - 1 = n /\ t \in Nat /\ t > 1
  BY DEF Enters
<1>2. Since(ticks, t) = s
  BY <1>1, SinceIs
<1>3. Due(ticks, t) <=> /\ ticks[t].at - ticks[s].at >= Dwell
                        /\ \E k \in s .. t : /\ ticks[t].at - ticks[k].at >= window
                                             /\ \A i \in k .. t : Against(m, ticks[i].available)
  BY <1>1, <1>2 DEF Due
<1>4. ~Against(m, ticks[t].available) => ~Due(ticks, t)
  <2>1. \A k \in s .. t : t \in k .. t
    BY <1>1
  <2> QED BY <1>3, <2>1
<1>5. ASSUME NEW k \in s .. t, \A i \in k .. t : Against(m, ticks[i].available),
             k = s \/ ~Against(m, ticks[k - 1].available)
      PROVE  Due(ticks, t) <=> /\ ticks[t].at - ticks[s].at >= Dwell
                               /\ ticks[t].at - ticks[k].at >= window
  <2>1. ASSUME NEW k2 \in s .. t, ticks[t].at - ticks[k2].at >= window,
               \A i \in k2 .. t : Against(m, ticks[i].available)
        PROVE  ticks[t].at - ticks[k].at >= window
    <3>1. ~(k2 < k)
      <4>1. k2 < k => k - 1 \in k2 .. t /\ k # s
        BY <1>1, <1>5, <2>1
      <4> QED BY <1>5, <2>1, <4>1
    <3>2. k \in 1 .. t /\ k2 \in 1 .. t /\ k <= k2
      BY <1>1, <1>5, <2>1, <3>1
    <3>3. \A i \in 1 .. t : ticks[i].at \in Int
      <4>1. \A i \in 1 .. t : ticks[i] \in Tick1
        BY <1>1
      <4> QED BY <4>1, PhasesAssumption DEF Tick1, Times
    <3>4. window \in Int
      BY PhasesAssumption DEF Window
    <3>5. ticks[k].at <= ticks[k2].at
      BY <1>1, <3>2, <3>3 DEF Ordered
    <3> HIDE DEF window
    <3> QED BY <1>1, <2>1, <3>2, <3>3, <3>4, <3>5
  <2> HIDE DEF window, m, t
  <2> QED BY <1>3, <1>5, <2>1
<1> QED BY <1>4, <1>5

(* The tick of a switchable charge point whose history has begun: it       *)
(* leaves the mode if that is due, and recalls the history with the tick.  *)
LEMMA DecideRecalls ==
  ASSUME Enabled, NEW e \in Evses, Switchable(e), NEW ticks \in Seq(Tick1),
         NEW state \in PhaseState, NEW available \in Level, NEW now \in Times,
         Len(ticks) > 0, Ordered(ticks), \A i \in 1 .. Len(ticks) : ticks[i].at < now,
         Recalls(ticks, state),
         NEW next \in PhaseState, next = Decide(e, state, available, now),
         NEW more, more = Append(ticks, [at |-> now, available |-> available, mode |-> next.mode])
  PROVE  Ordered(more) /\ SwitchedWhenDue(more) /\ Recalls(more, next)
<1> DEFINE n == Len(ticks)
           m == ticks[n].mode
           tick == [at |-> now, available |-> available, mode |-> next.mode]
<1>0. tick \in Tick1 /\ n \in Nat /\ n > 0 /\ now \in Int /\ Dwell \in Int
      /\ state.mode \in Mode /\ state.since \in Int
  BY PhasesAssumption DEF Tick1, PhaseState, Times
<1>1. /\ more \in Seq(Tick1) /\ Len(more) = n + 1 /\ more[n + 1] = tick
      /\ \A i \in 1 .. n : more[i] = ticks[i] /\ ticks[i] \in Tick1
  BY <1>0, OneMore
<1>2. state.mode = m /\ m \in Mode /\ more[n].mode = m
  BY <1>0, <1>1 DEF Recalls
<1>3. PICK s \in 1 .. n :
        /\ Enters(ticks, s, n)
        /\ state.since = ticks[s].at
        /\ IF state.wanted = NotWanted THEN ~Against(m, ticks[n].available)
           ELSE /\ state.wanted.mode = Other(m)
                /\ \E k \in s .. n : Confirms(ticks, s, k, n) /\ state.wanted.since = ticks[k].at
  BY DEF Recalls
<1>4. Ordered(more)
  <2> SUFFICES ASSUME NEW i \in 1 .. n + 1, NEW j \in 1 .. n + 1, i < j
               PROVE  more[i].at < more[j].at
    BY <1>1 DEF Ordered
  <2>1. i \in 1 .. n
    BY <1>0
  <2>2. CASE j = n + 1
    BY <1>1, <2>1, <2>2
  <2>3. CASE j # n + 1
    <3>1. j \in 1 .. n
      BY <1>0, <2>3
    <3> QED BY <1>1, <2>1, <3>1 DEF Ordered
  <2> QED BY <2>2, <2>3
<1>5. Enters(more, s, n)
  <2>1. s \in 1 .. n /\ (s = 1 \/ s - 1 \in 1 .. n)
    BY <1>0
  <2>2. s = 1 \/ more[s].mode # more[s - 1].mode
    BY <1>1, <1>3, <2>1 DEF Enters
  <2>3. ASSUME NEW i \in s .. n PROVE more[i].mode = more[n].mode
    <3>1. i \in 1 .. n
      BY <1>0, <2>1
    <3> QED BY <1>1, <1>2, <1>3, <3>1 DEF Enters
  <2> QED BY <2>1, <2>2, <2>3 DEF Enters
<1>6. more[s].at = state.since
  BY <1>1, <1>3
<1>7. Supports(e, state.mode)
  BY DEF Supports, Switchable
<1> HIDE DEF n, tick
<1>8. next.mode = m => Enters(more, s, n + 1)
  <2> SUFFICES ASSUME next.mode = m PROVE Enters(more, s, n + 1)
    OBVIOUS
  <2>1. more[n + 1].mode = m
    BY <1>1 DEF tick
  <2>2. ASSUME NEW i \in s .. n + 1 PROVE more[i].mode = m
    <3>1. i = n + 1 \/ i \in s .. n
      BY <1>0
    <3> QED BY <1>2, <1>5, <2>1, <3>1 DEF Enters
  <2>3. s \in 1 .. n + 1
    BY <1>0 DEF n
  <2> HIDE DEF m
  <2> QED BY <1>5, <2>1, <2>2, <2>3 DEF Enters
<1>9. CASE ~Against(m, available)
  <2>1. FavouredMode(e, state.mode, available) = state.mode
    BY <1>2, <1>9, FavouredIs
  <2>2. next = [state EXCEPT !.wanted = NotWanted]
    BY <1>7, <2>1 DEF Decide, Agreed
  <2>3. next.mode = m /\ next.since = state.since /\ next.wanted = NotWanted
    BY <1>2, <2>2 DEF PhaseState
  <2>4. ~Due(more, n + 1)
    <3>1. more[n + 1].available = available
      BY <1>1 DEF tick
    <3>2. ~Against(more[n].mode, more[n + 1].available)
      BY <1>2, <1>9, <3>1, Zenon
    <3> HIDE DEF m
    <3> QED BY <1>0, <1>1, <1>4, <1>5, <3>2, DueIs
  <2>5. SwitchedWhenDue(more)
    <3>1. more[n + 1].mode = more[n].mode /\ (n + 1) - 1 = n
      BY <1>0, <1>1, <1>2, <2>3 DEF tick
    <3> QED BY <1>1, <2>4, <3>1 DEF SwitchedWhenDue
  <2>6. Recalls(more, next)
    <3>1. s \in 1 .. n + 1 /\ more[n + 1].mode = m /\ more[n + 1].available = available
      BY <1>0, <1>1, <2>3 DEF n, tick
    <3> QED BY <1>1, <1>6, <1>8, <1>9, <2>3, <3>1 DEF Recalls
  <2> QED BY <1>4, <2>5, <2>6
<1>10. CASE Against(m, available)
  <2> DEFINE wanted == IF state.wanted # NotWanted /\ state.wanted.mode = Other(m)
                       THEN state.wanted ELSE [mode |-> Other(m), since |-> now]
             switches == now - wanted.since >= Window(Other(m)) /\ Settled(state, now)
  <2>1. FavouredMode(e, state.mode, available) = Other(m) /\ Other(m) \in Mode /\ Other(m) # m
        /\ ~Against(Other(m), available)
    BY <1>2, <1>10, FavouredIs
  <2>2. next = Argued(state, Other(m), now)
    BY <1>2, <1>7, <2>1 DEF Decide
  <2>3. next = IF switches THEN Entered(Other(m), now) ELSE [state EXCEPT !.wanted = wanted]
    BY <2>2 DEF Argued
  <2>4. wanted.mode = Other(m) /\ wanted # NotWanted
    BY <2>1, NoStateAssumption DEF Wanted
  <2>5. \E k \in s .. n + 1 :
          /\ \A i \in k .. n + 1 : Against(m, more[i].available)
          /\ k = s \/ ~Against(m, more[k - 1].available)
          /\ wanted.since = more[k].at
    <3>1. more[n + 1].available = available /\ more[n + 1].at = now
      BY <1>1 DEF tick
    <3>2. CASE state.wanted = NotWanted
      <4>1. \A i \in n + 1 .. n + 1 : Against(m, more[i].available)
        <5>1. \A i \in n + 1 .. n + 1 : i = n + 1
          BY <1>0
        <5> QED BY <1>10, <3>1, <5>1
      <4>2. ~Against(m, more[(n + 1) - 1].available)
        <5>1. (n + 1) - 1 = n /\ more[n] = ticks[n]
          BY <1>0, <1>1
        <5> QED BY <1>3, <3>2, <5>1
      <4>3. wanted.since = more[n + 1].at
        BY <3>1, <3>2
      <4>4. n + 1 \in s .. n + 1
        BY <1>0
      <4> QED BY <4>1, <4>2, <4>3, <4>4
    <3>3. CASE state.wanted # NotWanted
      <4>1. PICK k \in s .. n : Confirms(ticks, s, k, n) /\ state.wanted.since = ticks[k].at
        BY <1>3, <3>3
      <4>2. k \in 1 .. n /\ k \in s .. n + 1
        BY <1>0
      <4>3. ASSUME NEW i \in k .. n + 1 PROVE Against(m, more[i].available)
        <5>1. CASE i = n + 1
          BY <1>10, <3>1, <5>1
        <5>2. CASE i # n + 1
          <6>1. i \in k .. n /\ i \in 1 .. n
            BY <1>0, <4>2, <5>2
          <6> QED BY <1>1, <4>1, <6>1 DEF Confirms
        <5> QED BY <5>1, <5>2
      <4>4. k = s \/ ~Against(m, more[k - 1].available)
        <5> SUFFICES ASSUME k # s PROVE ~Against(m, more[k - 1].available)
          OBVIOUS
        <5>1. k - 1 \in 1 .. n
          BY <1>0, <4>2
        <5> QED BY <1>1, <4>1, <5>1 DEF Confirms
      <4>5. wanted.since = more[k].at
        BY <1>1, <1>3, <3>3, <4>1, <4>2
      <4> QED BY <4>2, <4>3, <4>4, <4>5
    <3> QED BY <3>2, <3>3
  <2>6. PICK k \in s .. n + 1 :
          /\ \A i \in k .. n + 1 : Against(m, more[i].available)
          /\ k = s \/ ~Against(m, more[k - 1].available)
          /\ wanted.since = more[k].at
    BY <2>5
  <2> HIDE DEF wanted
  <2>7. Due(more, n + 1) <=> switches
    <3>1. Due(more, n + 1) <=> /\ more[n + 1].at - more[s].at >= Dwell
                               /\ more[n + 1].at - more[k].at >= Window(Other(m))
      BY <1>0, <1>1, <1>2, <1>4, <1>5, <2>6, DueIs
    <3>2. more[n + 1].at = now
      BY <1>1 DEF tick
    <3> QED BY <1>6, <2>6, <3>1, <3>2 DEF Settled
  <2> HIDE DEF switches, m
  <2>8. more[n + 1].mode = next.mode /\ more[n + 1].available = available /\ more[n + 1].at = now
    BY <1>1 DEF tick
  <2>9. next.mode # m <=> switches
    <3>1. CASE switches
      BY <2>1, <2>3, <3>1 DEF Entered
    <3>2. CASE ~switches
      BY <1>2, <2>3, <3>2 DEF PhaseState
    <3> QED BY <3>1, <3>2
  <2>10. SwitchedWhenDue(more)
    <3>1. (n + 1) - 1 = n
      BY <1>0
    <3> QED BY <1>1, <1>2, <2>7, <2>8, <2>9, <3>1 DEF SwitchedWhenDue
  <2>11. CASE switches
    <3>1. next.mode = Other(m) /\ next.since = now /\ next.wanted = NotWanted
      BY <2>3, <2>11 DEF Entered
    <3>2. Enters(more, n + 1, n + 1)
      <4>1. (n + 1) - 1 = n /\ n + 1 \in 1 .. n + 1 /\ \A i \in n + 1 .. n + 1 : i = n + 1
        BY <1>0
      <4> QED BY <1>2, <2>1, <2>8, <3>1, <4>1 DEF Enters
    <3>3. n + 1 \in 1 .. n + 1
      BY <1>0
    <3>4. Recalls(more, next)
      BY <1>1, <2>1, <2>8, <3>1, <3>2, <3>3 DEF Recalls
    <3> QED BY <1>4, <2>10, <3>4
  <2>12. CASE ~switches
    <3>1. next.mode = m /\ next.since = state.since /\ next.wanted = wanted
      BY <1>2, <2>3, <2>12 DEF PhaseState
    <3>2. Enters(more, s, n + 1) /\ s \in 1 .. n + 1
      BY <1>0, <1>8, <3>1 DEF n
    <3>3. Confirms(more, s, k, n + 1)
      BY <2>6, <2>8, <3>1 DEF Confirms
    <3>4. Recalls(more, next)
      BY <1>1, <1>6, <2>4, <2>6, <2>8, <3>1, <3>2, <3>3 DEF Recalls
    <3> QED BY <1>4, <2>10, <3>4
  <2> QED BY <2>11, <2>12
<1> QED BY <1>9, <1>10

(* The first tick of a switchable charge point's history: the policy       *)
(* starts in the mode of the wiring, now, and may leave it at once only    *)
(* where no window and no dwell hold it.                                   *)
LEMMA DecideBegins ==
  ASSUME Enabled, NEW e \in Evses, Switchable(e), NEW ticks \in Seq(Tick1), Len(ticks) = 0,
         NEW available \in Level, NEW now \in Times,
         NEW next \in PhaseState,
         next = Decide(e, Entered(DefaultMode(e), now), available, now),
         NEW more, more = Append(ticks, [at |-> now, available |-> available, mode |-> next.mode])
  PROVE  Ordered(more) /\ SwitchedWhenDue(more) /\ Recalls(more, next)
<1> DEFINE m == DefaultMode(e)
           state == Entered(m, now)
           tick == [at |-> now, available |-> available, mode |-> next.mode]
<1>0. tick \in Tick1 /\ now \in Int
  BY DEF Tick1, PhaseState, Times
<1>1. Len(more) = 1 /\ more[1] = tick
  BY <1>0, OneMore
<1>2. m \in Mode /\ Supports(e, m) /\ state.mode = m /\ state.since = now
      /\ state.wanted = NotWanted /\ state \in PhaseState
  BY DefaultIsAMode, EnteredType
<1> HIDE DEF m, state, tick
<1>3. Ordered(more) /\ SwitchedWhenDue(more)
  BY <1>1 DEF Ordered, SwitchedWhenDue
<1>4. next.since = now /\ more[1].mode = next.mode /\ more[1].available = available
      /\ more[1].at = now
      /\ IF next.wanted = NotWanted THEN ~Against(next.mode, available)
         ELSE /\ next.wanted.mode = Other(next.mode)
              /\ next.wanted.since = now
              /\ Against(next.mode, available)
  <2>1. more[1].mode = next.mode /\ more[1].available = available /\ more[1].at = now
    BY <1>1 DEF tick
  <2>2. next = Decide(e, state, available, now)
    BY DEF state, m
  <2>3. CASE ~Against(m, available)
    <3>1. FavouredMode(e, m, available) = m
      BY <1>2, <2>3, FavouredIs
    <3>2. next = [state EXCEPT !.wanted = NotWanted]
      BY <1>2, <2>2, <3>1 DEF Decide, Agreed
    <3> QED BY <1>2, <2>1, <2>3, <3>2 DEF PhaseState
  <2>4. CASE Against(m, available)
    <3>1. FavouredMode(e, m, available) = Other(m) /\ Other(m) \in Mode /\ Other(m) # m
          /\ ~Against(Other(m), available)
      BY <1>2, <2>4, FavouredIs
    <3>2. next = Argued(state, Other(m), now)
      BY <1>2, <2>2, <3>1 DEF Decide
    <3> DEFINE wanted == [mode |-> Other(m), since |-> now]
               switches == now - wanted.since >= Window(Other(m)) /\ Settled(state, now)
    <3>3. next = IF switches THEN Entered(Other(m), now) ELSE [state EXCEPT !.wanted = wanted]
      BY <1>2, <3>2 DEF Argued
    <3>4. wanted \in Wanted /\ wanted # NotWanted /\ wanted.mode = Other(m) /\ wanted.since = now
      BY <3>1, NoStateAssumption DEF Wanted
    <3> HIDE DEF wanted, switches
    <3>5. CASE switches
      BY <2>1, <3>1, <3>3, <3>5 DEF Entered
    <3>6. CASE ~switches
      BY <1>2, <2>1, <2>4, <3>3, <3>4, <3>6 DEF PhaseState
    <3> QED BY <3>5, <3>6
  <2> QED BY <2>3, <2>4
<1>5. \A i \in 1 .. 1 : i = 1
  OBVIOUS
<1>6. Enters(more, 1, 1)
  BY <1>5 DEF Enters
<1>7. Against(next.mode, available) => Confirms(more, 1, 1, 1)
  BY <1>4, <1>5 DEF Confirms
<1>8. Recalls(more, next)
  <2>1. 1 \in 1 .. 1
    OBVIOUS
  <2> QED BY <1>1, <1>4, <1>6, <1>7, <2>1 DEF Recalls
<1> QED BY <1>3, <1>8

LEMMA TickRecalls ==
  ASSUME TypeOK, WindowInv, Enabled, steps = 0, NEW passed \in 1 .. Stride,
         NEW available \in [Evses -> Level], Tick(passed, available), NEW e \in Evses
  PROVE  /\ Ordered(past[e])' /\ \A i \in 1 .. Len(past'[e]) : past'[e][i].at <= elapsed'
         /\ SwitchedWhenDue(past[e])'
         /\ IF Len(past'[e]) = 0 THEN Switchable(e) => phases'[e] = NoState
            ELSE Switchable(e) /\ phases'[e] # NoState /\ Recalls(past[e], phases[e])'
<1>1. /\ clock' = elapsed' /\ elapsed' = elapsed + passed /\ clock' \in Times
      /\ phases'[e] = Decide(e, Given(e, clock'), available[e], clock')
      /\ phases'[e] \in PhaseState
      /\ past'[e] = IF ~Switchable(e) THEN past[e]
                    ELSE Append(past[e], [at |-> elapsed', available |-> available[e],
                                          mode |-> phases'[e].mode])
  <2>1. clock = elapsed
    BY DEF WindowInv
  <2> QED BY <2>1, TickIs
<1>2. /\ Ordered(past[e]) /\ \A i \in 1 .. Len(past[e]) : past[e][i].at <= elapsed
      /\ SwitchedWhenDue(past[e])
      /\ IF Len(past[e]) = 0 THEN Switchable(e) => phases[e] = NoState
         ELSE Switchable(e) /\ phases[e] # NoState /\ Recalls(past[e], phases[e])
  BY DEF WindowInv
<1>3. past[e] \in Seq(Tick1) /\ available[e] \in Level
  BY DEF TypeOK, Tick1
<1>4. elapsed \in Int /\ elapsed' \in Int /\ elapsed < elapsed'
  BY <1>1, PhasesAssumption DEF TypeOK, Times
<1>5. \A i \in 1 .. Len(past[e]) : past[e][i].at \in Int /\ past[e][i].at < elapsed'
  <2>1. \A i \in 1 .. Len(past[e]) : past[e][i] \in Tick1
    BY <1>3
  <2>2. \A i \in 1 .. Len(past[e]) : past[e][i].at \in Int
    BY <2>1 DEF Tick1, Times
  <2> QED BY <1>2, <1>4, <2>2
<1>6. CASE ~Switchable(e)
  <2>1. past'[e] = past[e] /\ Len(past[e]) = 0
    BY <1>1, <1>2, <1>6
  <2> QED BY <1>2, <1>6, <2>1
<1>7. CASE Switchable(e)
  <2> DEFINE tick == [at |-> clock', available |-> available[e], mode |-> phases'[e].mode]
  <2>1. past'[e] = Append(past[e], tick) /\ tick \in Tick1
    BY <1>1, <1>3, <1>7 DEF Tick1, PhaseState
  <2>2. /\ Len(past'[e]) = Len(past[e]) + 1 /\ Len(past[e]) \in Nat
        /\ past'[e][Len(past[e]) + 1] = tick
        /\ \A i \in 1 .. Len(past[e]) : past'[e][i] = past[e][i]
    BY <1>3, <2>1, OneMore
  <2>3. \A i \in 1 .. Len(past'[e]) : past'[e][i].at <= elapsed'
    <3> SUFFICES ASSUME NEW i \in 1 .. Len(past'[e]) PROVE past'[e][i].at <= elapsed'
      OBVIOUS
    <3>1. CASE i = Len(past[e]) + 1
      BY <1>1, <1>4, <2>2, <3>1
    <3>2. CASE i # Len(past[e]) + 1
      <4>1. i \in 1 .. Len(past[e])
        BY <2>2, <3>2
      <4> QED BY <1>4, <1>5, <2>2, <4>1
    <3> QED BY <3>1, <3>2
  <2>4. phases'[e] # NoState
    BY <1>1, NoStateAssumption
  <2>5. Ordered(past'[e]) /\ SwitchedWhenDue(past'[e]) /\ Recalls(past'[e], phases'[e])
    <3>1. CASE Len(past[e]) = 0
      <4>1. Given(e, clock') = Entered(DefaultMode(e), clock')
        BY <1>2, <1>7, <3>1 DEF Given
      <4> QED BY <1>1, <1>3, <1>7, <2>1, <3>1, <4>1, DecideBegins
    <3>2. CASE Len(past[e]) # 0
      <4>1. Given(e, clock') = phases[e] /\ Recalls(past[e], phases[e])
        BY <1>2, <3>2 DEF Given
      <4>2. Given(e, clock') \in PhaseState /\ Len(past[e]) > 0
        BY <1>1, <2>2, <3>2, GivenType
      <4>3. \A i \in 1 .. Len(past[e]) : past[e][i].at < clock'
        BY <1>1, <1>5
      <4>4. /\ phases'[e] = Decide(e, phases[e], available[e], clock')
            /\ phases[e] \in PhaseState /\ phases'[e] \in PhaseState /\ clock' \in Times
        BY <1>1, <4>1, <4>2
      <4> QED BY <1>2, <1>3, <1>7, <2>1, <4>1, <4>2, <4>3, <4>4, DecideRecalls
    <3> QED BY <3>1, <3>2
  <2> QED BY <1>7, <2>2, <2>3, <2>4, <2>5
<1> QED BY <1>6, <1>7

LEMMA InitWindow == Init => WindowInv
BY DEF Init, WindowInv, Ordered, SwitchedWhenDue

LEMMA StepWindow == ASSUME TypeOK, WindowInv, [Next]_vars PROVE WindowInv'
<1>1. ASSUME NEW passed \in 1 .. Stride, NEW available \in [Evses -> Level],
             Tick(passed, available)
      PROVE  WindowInv'
  <2>1. steps' = steps /\ (clock = elapsed => clock' = elapsed')
    BY <1>1 DEF Tick
  <2> QED BY <1>1, <2>1, TickRecalls DEF WindowInv
<1>2. ASSUME NEW c \in Times, SetClock(c) PROVE WindowInv'
  <2>1. steps' # 0
    BY <1>2 DEF SetClock, TypeOK
  <2> QED BY <2>1 DEF WindowInv
<1>3. CASE Restart
  <2>1. /\ steps' = steps /\ clock' = clock /\ elapsed' = elapsed
        /\ \A e \in Evses : past'[e] = << >> /\ phases'[e] = NoState
    BY <1>3 DEF Restart
  <2> QED BY <2>1 DEF WindowInv, Ordered, SwitchedWhenDue
<1>4. CASE UNCHANGED vars
  BY <1>4 DEF vars, WindowInv, Ordered, SwitchedWhenDue, Recalls, Switchable
<1> QED BY <1>1, <1>2, <1>3, <1>4 DEF Next

(* A charge point is switched at a tick exactly if the roof has spoken     *)
(* against its mode throughout the confirmation window and the mode has    *)
(* had its turn, whatever the windows, the dwell and the thresholds are,   *)
(* and however the ticks fall: two remembered instants stand for the whole *)
(* history.                                                                *)
THEOREM SwitchedExactlyWhenDue == Spec => []SwitchesExactlyWhenDue
<1>1. Init => TypeOK /\ WindowInv
  BY InitType, InitWindow
<1>2. TypeOK /\ WindowInv /\ [Next]_vars => TypeOK' /\ WindowInv'
  BY StepType, StepWindow
<1>3. WindowInv => SwitchesExactlyWhenDue
  BY DEF WindowInv, SwitchedWhenDue, SwitchesExactlyWhenDue
<1> QED BY <1>1, <1>2, <1>3, PTL DEF Spec
-----------------------------------------------------------------------------
(***************************************************************************)
(* What a tick makes of it: what is decided of what the phases, the plan   *)
(* and the guard ask, and what of that a device is told.                   *)
(***************************************************************************)

(* A device that took its last message was told what was decided, but for  *)
(* what has crept since.                                                   *)
Lagging ==
    \A d \in Devices \ missed : previous[d] # None =>
        told[d] # None /\ Distance(told[d].power, previous[d]) <= crept[d] * Deadband

(* The failsafe in force is the last one written, or what the store had at *)
(* the start; and the one remembered is in the store unless that failed.   *)
WordKept ==
    /\ reported # None => inForce = reported
    /\ reported = None => inForce = FailsafeInForce
    /\ remembered # None => kept = remembered \/ remembered \in unwritten

LoopInv == LoopTypeOK /\ Lagging /\ WordKept

-----------------------------------------------------------------------------
(* Arithmetic *)

LEMMA MinOfThree ==
  ASSUME NEW a \in Int, NEW b \in Int, NEW c \in Int
  PROVE  Min({a, b, c}) \in Int /\ Min({a, b, c}) \in {a, b, c}
         /\ Min({a, b, c}) <= a /\ Min({a, b, c}) <= b /\ Min({a, b, c}) <= c
<1>1. PICK m \in {a, b, c} : \A y \in {a, b, c} : m <= y
  OBVIOUS
<1> QED BY <1>1 DEF Min

LEMMA DistanceIs ==
  ASSUME NEW p \in Int, NEW q \in Int
  PROVE  Distance(p, q) = IF p >= q THEN p - q ELSE q - p
BY DEF Distance

LEMMA ClampIs ==
  ASSUME NEW p \in Int, NEW a \in Ask, a.floor <= a.ceiling
  PROVE  Clamp(p, a) \in Int /\ Clamp(p, a) >= a.floor /\ Clamp(p, a) <= a.ceiling
<1>1. a.floor \in Int /\ a.ceiling \in Int
  BY DEF Ask
<1> QED BY <1>1 DEF Clamp, Lesser, Greater

-----------------------------------------------------------------------------
(* What a tick decides, and what a device is told of it *)

LEMMA AskIs ==
  ASSUME LoopTypeOK, NEW d \in Devices
  PROVE  /\ ask[d] \in Ask /\ ask[d].floor <= ask[d].ceiling
         /\ ask[d].want \in Int /\ ask[d].floor \in Int /\ ask[d].ceiling \in Int
         /\ ask[d].setting \in Settings[d] /\ ask[d].setting \in Setting
         /\ d \in Chargers \cup Tanks => ask[d].ceiling >= 0
<1>1. ask[d] \in Asks[d] /\ ask[d] \in Ask
  BY DEF LoopTypeOK
<1>2. ask[d].setting \in Settings[d] /\ ask[d].floor <= ask[d].ceiling
  BY <1>1, ControlLoopAssumption
<1>3. d \in Chargers \cup Tanks => ask[d].ceiling >= 0
  BY <1>1, ControlLoopAssumption
<1> QED BY <1>1, <1>2, <1>3 DEF Ask, Setting

LEMMA RampedIs ==
  ASSUME NEW p \in Int, NEW before \in Int \cup {None}, NEW a \in Ask, a.floor <= a.ceiling
  PROVE  Ramped(p, before, a) \in Int
<1>1. CASE Ramp = None \/ before = None
  BY <1>1 DEF Ramped
<1>2. CASE Ramp # None /\ before # None
  <2> DEFINE step == Lesser(Distance(p, before), Ramp)
  <2>1. before \in Int /\ Ramp \in Nat
    BY <1>2, ControlLoopAssumption
  <2>2. Distance(p, before) \in Int
    BY <2>1, DistanceIs
  <2>3. step \in Int
    BY <2>1, <2>2 DEF Lesser
  <2>4. Ramped(p, before, a) = Clamp(IF p >= before THEN before + step ELSE before - step, a)
    BY <1>2 DEF Ramped
  <2> HIDE DEF step
  <2> QED BY <2>1, <2>3, <2>4, ClampIs
<1> QED BY <1>1, <1>2

(* However it is ramped, the value is within what the guard leaves, and a  *)
(* charge point's is one that it can hold.                                 *)
LEMMA DecidedIs ==
  ASSUME LoopTypeOK, NEW d \in Devices
  PROVE  /\ DecidedFor(d) \in Int /\ DecidedFor(d) <= ask[d].ceiling
         /\ DecidedFor(d) >= ask[d].floor \/ d \in Chargers \cup Tanks
         /\ d \in Chargers => \/ DecidedFor(d) = 0
                           \/ \E s \in Settings[d] : DecidedFor(d) \in MinPower[d][s] .. MaxPower[d][s]
         /\ d \in Tanks => DecidedFor(d) \in {0, Rating[d].ceiling}
<1> DEFINE a == ask[d]
           p == Ramped(Clamp(a.want, a), previous[d], a)
<1>1. a \in Ask /\ a.floor <= a.ceiling /\ a.want \in Int /\ a.floor \in Int /\ a.ceiling \in Int
      /\ a.setting \in Settings[d] /\ (d \in Chargers \cup Tanks => a.ceiling >= 0)
  BY AskIs
<1>2. previous[d] \in Int \cup {None}
  BY DEF LoopTypeOK
<1>3. DecidedFor(d) = Realisable(d, p, a)
  BY DEF DecidedFor
<1> HIDE DEF a
<1>4. p \in Int
  BY <1>1, <1>2, ClampIs, RampedIs
<1> HIDE DEF p
<1>7. Chargers \cap Tanks = {}
  BY ControlLoopAssumption
<1>5. CASE d \notin Chargers \cup Tanks
  BY <1>1, <1>3, <1>4, <1>5, ClampIs DEF Realisable, a
<1>8. CASE d \in Tanks
  <2> DEFINE full == Rating[d].ceiling
  <2>1. full \in Nat
    BY ControlLoopAssumption
  <2>2. DecidedFor(d) = IF a.ceiling >= full /\ 2 * p >= full THEN full ELSE 0
    BY <1>3, <1>7, <1>8 DEF Realisable, Heating
  <2> HIDE DEF full
  <2>3. DecidedFor(d) \in {0, full} /\ DecidedFor(d) <= a.ceiling
    BY <1>1, <1>8, <2>1, <2>2
  <2> QED BY <1>7, <1>8, <2>1, <2>3 DEF a, full
<1>6. CASE d \in Chargers
  <2> DEFINE least == MinPower[d][a.setting]
             most == MaxPower[d][a.setting]
             candidate == Min({p, most, a.ceiling})
  <2>1. least \in Nat /\ most \in Nat
    BY <1>1, <1>6, ControlLoopAssumption
  <2>2. DecidedFor(d) = IF candidate < least THEN 0 ELSE candidate
    BY <1>3, <1>6, <1>7 DEF Realisable, Started
  <2> HIDE DEF least, most
  <2>3. candidate \in Int /\ candidate <= most /\ candidate <= a.ceiling
    <3> DEFINE c == a.ceiling
    <3>1. c \in Int /\ p \in Int /\ most \in Int
      BY <1>1, <1>4, <2>1
    <3> HIDE DEF c
    <3>2. /\ Min({p, most, c}) \in Int
          /\ Min({p, most, c}) <= most /\ Min({p, most, c}) <= c
      BY <3>1, MinOfThree
    <3> QED BY <3>2 DEF c
  <2> HIDE DEF candidate
  <2>4. CASE candidate < least
    BY <1>1, <1>6, <1>7, <2>2, <2>4 DEF a
  <2>5. CASE ~(candidate < least)
    <3>1. DecidedFor(d) = candidate /\ candidate \in least .. most
      BY <2>1, <2>2, <2>3, <2>5
    <3> QED BY <1>1, <1>6, <1>7, <2>3, <3>1 DEF a, least, most
  <2> QED BY <2>4, <2>5
<1> QED BY <1>5, <1>6, <1>8

LEMMA TakenIs ==
  ASSUME LoopTypeOK, NEW d \in Devices, NEW value \in Int, NEW refused
  PROVE  /\ Taken(d, value, refused) \in Word /\ Taken(d, value, refused) # None
         /\ <<d, "power">> \notin refused => Taken(d, value, refused).power = value
         /\ <<d, "setting">> \notin refused => Taken(d, value, refused).setting = ask[d].setting
<1> DEFINE now == Message(d, value)
           before == IF told[d] = None
                     THEN [power |-> 0, setting |-> now.setting, limited |-> FALSE]
                     ELSE told[d]
           ofPower == IF <<d, "power">> \in refused THEN before ELSE now
           ofSetting == IF <<d, "setting">> \in refused THEN before ELSE now
<1>1. now \in Word /\ now.power = value /\ now.setting = ask[d].setting
  <2>1. ask[d].setting \in Setting
    BY AskIs
  <2>2. (d \in ByContact /\ Held(d, value)) \in BOOLEAN
    OBVIOUS
  <2> QED BY <2>1, <2>2 DEF Message, Word
<1>2. before \in Word
  <2>1. told[d] \in Word \cup {None}
    BY DEF LoopTypeOK
  <2> QED BY <1>1, <2>1 DEF Word
<1>3. Taken(d, value, refused) = [power |-> ofPower.power, limited |-> ofPower.limited,
                                  setting |-> ofSetting.setting]
  BY DEF Taken
<1> HIDE DEF now, before
<1>4. ofPower \in Word /\ ofSetting \in Word
  BY <1>1, <1>2
<1>5. Taken(d, value, refused) \in Word
  BY <1>3, <1>4 DEF Word
<1> QED BY <1>1, <1>3, <1>5, ControlLoopAssumption

(* What a tick comes to, whatever was refused in it. *)
TickTo(sent, refused, taken) ==
    /\ sent = {d \in Devices : Moved(d, DecidedFor(d)) \/ Held(d, DecidedFor(d))}
    /\ \A r \in refused : \E d \in sent, part \in {"setting", "power"} : r = <<d, part>>
    /\ previous' = [d \in Devices |-> DecidedFor(d)]
    /\ told' = [d \in Devices |->
         IF d \in sent THEN Taken(d, DecidedFor(d), refused) ELSE told[d]]
    /\ missed' = (missed \ sent) \cup {r[1] : r \in refused}
    /\ crept' = [d \in Devices |->
         IF d \in sent THEN 0
         ELSE IF DecidedFor(d) = previous[d] THEN crept[d] ELSE crept[d] + 1]
    /\ KeepTheFailsafe(taken)
    /\ faults' = faults + (IF refused = {} THEN 0 ELSE 1) + (IF taken THEN 0 ELSE 1)
    /\ faults' <= MaxFaults
    /\ UNCHANGED <<ask, inForce, reported, writes, changes>>

LEMMA LoopTickIs ==
  ASSUME LoopTypeOK, LoopTick
  PROVE  \E sent \in SUBSET Devices : \E refused : \E taken \in BOOLEAN :
           TickTo(sent, refused, taken)
<1> DEFINE values == [d \in Devices |-> DecidedFor(d)]
           sent == Sent(values)
<1>1. PICK refused \in Refusals(sent), taken \in BOOLEAN :
        /\ Deliver(values, sent, refused)
        /\ KeepTheFailsafe(taken)
        /\ faults' = faults + (IF refused = {} THEN 0 ELSE 1) + (IF taken THEN 0 ELSE 1)
        /\ faults' <= MaxFaults
        /\ UNCHANGED <<ask, inForce, reported, writes, changes>>
  BY DEF LoopTick, TickWith
<1>2. sent = {d \in Devices : Moved(d, DecidedFor(d)) \/ Held(d, DecidedFor(d))}
  BY DEF Sent
<1>3. \A r \in refused : \E d \in sent, part \in {"setting", "power"} : r = <<d, part>>
  <2>1. \A d \in Devices : Parts(d) \subseteq {"setting", "power"}
    BY DEF Parts
  <2>2. sent \subseteq Devices
    BY <1>2
  <2> HIDE DEF sent
  <2>3. refused = {} \/ \E d \in sent : refused \in {{d} \X P : P \in SUBSET Parts(d) \ {{}}}
    BY <1>1 DEF Refusals
  <2>4. ASSUME NEW d \in sent, refused \in {{d} \X P : P \in SUBSET Parts(d) \ {{}}},
               NEW r \in refused
        PROVE  \E part \in {"setting", "power"} : r = <<d, part>>
    <3>1. PICK P \in SUBSET Parts(d) : refused = {d} \X P
      BY <2>4
    <3> QED BY <2>1, <2>2, <3>1
  <2> QED BY <2>3, <2>4
<1>4. /\ previous' = [d \in Devices |-> DecidedFor(d)]
      /\ told' = [d \in Devices |->
           IF d \in sent THEN Taken(d, DecidedFor(d), refused) ELSE told[d]]
      /\ missed' = (missed \ sent) \cup {r[1] : r \in refused}
      /\ crept' = [d \in Devices |->
           IF d \in sent THEN 0
           ELSE IF DecidedFor(d) = previous[d] THEN crept[d] ELSE crept[d] + 1]
  BY <1>1 DEF Deliver
<1> HIDE DEF sent, values
<1>5. TickTo(sent, refused, taken)
  BY <1>1, <1>2, <1>3, <1>4 DEF TickTo
<1> QED BY <1>1, <1>2, <1>5

(* A device that is not among those that refused something took it all. *)
LEMMA NothingRefused ==
  ASSUME LoopTypeOK, NEW sent, NEW refused, NEW taken, TickTo(sent, refused, taken),
         NEW d, d \notin missed'
  PROVE  <<d, "power">> \notin refused /\ <<d, "setting">> \notin refused
<1>1. {r[1] : r \in refused} \subseteq missed'
  BY DEF TickTo
<1>2. ASSUME NEW part, <<d, part>> \in refused PROVE FALSE
  <2>1. <<d, part>>[1] = d
    OBVIOUS
  <2> QED BY <1>1, <1>2, <2>1
<1> QED BY <1>2

-----------------------------------------------------------------------------
(* The invariant, step by step *)

LEMMA InitLoopInv == LoopInit => LoopInv
<1> SUFFICES ASSUME LoopInit PROVE LoopInv
  OBVIOUS
<1>1. LoopTypeOK
  <2>1. ask \in [Devices -> Ask]
    <3>1. UNION {Asks[d] : d \in Devices} \subseteq Ask
      BY ControlLoopAssumption
    <3> QED BY <3>1 DEF LoopInit
  <2>2. \A e \in Chargers \cup Tanks : previous[e] = None
    BY DEF LoopInit, Devices
  <2>3. /\ previous \in [Devices -> Int \cup {None}] /\ told \in [Devices -> Word \cup {None}]
        /\ missed \subseteq Devices /\ crept \in [Devices -> Nat]
    BY DEF LoopInit
  <2>4. /\ \A d \in Devices : ask[d] \in Asks[d]
        /\ {reported, remembered, kept} \subseteq 1 .. MaxWrites \cup {None}
        /\ inForce = 0 /\ unwritten = {} /\ writes = 0 /\ changes = 0 /\ faults = 0
    BY DEF LoopInit
  <2> QED BY <2>1, <2>2, <2>3, <2>4, ControlLoopAssumption DEF LoopTypeOK
<1>2. Lagging /\ WordKept
  BY DEF LoopInit, Lagging, WordKept, FailsafeInForce
<1> QED BY <1>1, <1>2 DEF LoopInv

LEMMA TickTypes ==
  ASSUME LoopTypeOK, NEW sent \in SUBSET Devices, NEW refused, NEW taken \in BOOLEAN,
         TickTo(sent, refused, taken)
  PROVE  LoopTypeOK'
<1>1. UNCHANGED <<ask, inForce, reported, writes, changes>>
  BY DEF TickTo
<1>2. previous' = [d \in Devices |-> DecidedFor(d)]
  BY DEF TickTo
<1>3. previous' \in [Devices -> Int \cup {None}]
  BY <1>2, DecidedIs
<1>4. \A e \in Chargers : previous'[e] = None \/ previous'[e] = 0
        \/ \E s \in Settings[e] : previous'[e] \in MinPower[e][s] .. MaxPower[e][s]
  <2> SUFFICES ASSUME NEW e \in Chargers
               PROVE  previous'[e] = 0
                      \/ \E s \in Settings[e] : previous'[e] \in MinPower[e][s] .. MaxPower[e][s]
    OBVIOUS
  <2>1. e \in Devices
    BY DEF Devices
  <2> QED BY <1>2, <2>1, DecidedIs
<1>12. \A t \in Tanks : previous'[t] \in {None, 0, Rating[t].ceiling}
  BY <1>2, DecidedIs DEF Devices
<1>5. told' \in [Devices -> Word \cup {None}]
  <2>1. told' = [d \in Devices |->
                   IF d \in sent THEN Taken(d, DecidedFor(d), refused) ELSE told[d]]
    BY DEF TickTo
  <2>2. ASSUME NEW d \in Devices PROVE Taken(d, DecidedFor(d), refused) \in Word
    <3>1. DecidedFor(d) \in Int
      BY DecidedIs
    <3> QED BY <3>1, TakenIs
  <2> QED BY <2>1, <2>2 DEF LoopTypeOK
<1>6. missed' \subseteq Devices
  <2>1. \A r \in refused : r[1] \in sent
    BY DEF TickTo
  <2>2. missed' = (missed \ sent) \cup {r[1] : r \in refused}
    BY DEF TickTo
  <2> QED BY <2>1, <2>2 DEF LoopTypeOK
<1>7. crept' \in [Devices -> Nat]
  BY DEF TickTo, LoopTypeOK
<1>8. faults' \in 0 .. MaxFaults
  BY ControlLoopAssumption DEF TickTo, LoopTypeOK
<1>9. /\ remembered' \in 1 .. MaxWrites \cup {None} /\ kept' \in 1 .. MaxWrites \cup {None}
      /\ unwritten' \subseteq 1 .. MaxWrites
  BY DEF TickTo, KeepTheFailsafe, LoopTypeOK
<1>10. {reported, remembered, kept}' \subseteq 1 .. MaxWrites \cup {None}
  BY <1>1, <1>9 DEF LoopTypeOK
<1>11. /\ ask' \in [Devices -> Ask] /\ \A d \in Devices : ask'[d] \in Asks[d]
       /\ inForce' \in 0 .. MaxWrites /\ writes' \in 0 .. MaxWrites
       /\ changes' \in 0 .. MaxChanges
  BY <1>1 DEF LoopTypeOK
<1> QED BY <1>3, <1>4, <1>5, <1>6, <1>7, <1>8, <1>9, <1>10, <1>11, <1>12 DEF LoopTypeOK

(* A change that is not sent is one of a deadband at most. *)
LEMMA TickLags ==
  ASSUME LoopInv, NEW sent \in SUBSET Devices, NEW refused, NEW taken \in BOOLEAN,
         TickTo(sent, refused, taken)
  PROVE  Lagging'
<1> SUFFICES ASSUME NEW d \in Devices, d \notin missed'
             PROVE  /\ told'[d] # None
                    /\ Distance(told'[d].power, previous'[d]) <= crept'[d] * Deadband
  BY DEF Lagging
<1>1. LoopTypeOK /\ Deadband \in Nat /\ DecidedFor(d) \in Int /\ previous'[d] = DecidedFor(d)
  BY DecidedIs, ControlLoopAssumption DEF LoopInv, TickTo
<1>2. CASE d \in sent
  <2>1. told'[d] = Taken(d, DecidedFor(d), refused) /\ crept'[d] = 0
    BY <1>2 DEF TickTo
  <2>2. told'[d] # None /\ told'[d].power = DecidedFor(d)
    <3>1. <<d, "power">> \notin refused
      BY <1>1, NothingRefused
    <3> QED BY <1>1, <2>1, <3>1, TakenIs
  <2>3. Distance(DecidedFor(d), DecidedFor(d)) = 0
    BY <1>1, DistanceIs
  <2> QED BY <1>1, <2>1, <2>2, <2>3
<1>3. CASE d \notin sent
  <2>1. d \notin missed /\ ~Moved(d, DecidedFor(d)) /\ told'[d] = told[d]
    BY <1>3 DEF TickTo
  <2>2. crept'[d] = IF DecidedFor(d) = previous[d] THEN crept[d] ELSE crept[d] + 1
    BY <1>3 DEF TickTo
  <2>3. previous[d] # None /\ ~(Distance(DecidedFor(d), previous[d]) > Deadband)
    BY <2>1 DEF Moved
  <2>4. told[d] # None /\ Distance(told[d].power, previous[d]) <= crept[d] * Deadband
    BY <2>1, <2>3 DEF LoopInv, Lagging
  <2>5. previous[d] \in Int /\ told[d].power \in Int /\ crept[d] \in Nat
    BY <2>3, <2>4 DEF LoopInv, LoopTypeOK, Word
  <2>6. (crept[d] + 1) * Deadband = (crept[d] * Deadband) + Deadband
        /\ crept[d] * Deadband \in Int
    BY <1>1, <2>5
  <2> DEFINE near == crept[d] * Deadband
  <2>7. Distance(told[d].power, DecidedFor(d)) <=
          IF DecidedFor(d) = previous[d] THEN near ELSE near + Deadband
    <3> HIDE DEF near
    <3>1. near \in Int /\ Distance(told[d].power, previous[d]) <= near
      BY <2>4, <2>6 DEF near
    <3>2. DecidedFor(d) \in Int /\ Distance(DecidedFor(d), previous[d]) <= Deadband
      <4>1. DecidedFor(d) \in Int /\ Distance(DecidedFor(d), previous[d]) \in Int
        BY <1>1, <2>5, DistanceIs
      <4> QED BY <1>1, <2>3, <4>1
    <3>3. Distance(told[d].power, previous[d]) = IF told[d].power >= previous[d]
            THEN told[d].power - previous[d] ELSE previous[d] - told[d].power
      BY <2>5, DistanceIs
    <3>4. Distance(DecidedFor(d), previous[d]) = IF DecidedFor(d) >= previous[d]
            THEN DecidedFor(d) - previous[d] ELSE previous[d] - DecidedFor(d)
      BY <2>5, <3>2, DistanceIs
    <3>5. Distance(told[d].power, DecidedFor(d)) = IF told[d].power >= DecidedFor(d)
            THEN told[d].power - DecidedFor(d) ELSE DecidedFor(d) - told[d].power
      BY <2>5, <3>2, DistanceIs
    <3> QED BY <1>1, <2>5, <3>1, <3>2, <3>3, <3>4, <3>5
  <2> QED BY <1>1, <2>1, <2>2, <2>4, <2>6, <2>7
<1> QED BY <1>2, <1>3

LEMMA TickLoopInv == LoopInv /\ LoopTick => LoopInv'
<1> SUFFICES ASSUME LoopInv, LoopTick PROVE LoopInv'
  OBVIOUS
<1>1. PICK sent \in SUBSET Devices : \E refused : \E taken \in BOOLEAN :
        TickTo(sent, refused, taken)
  BY LoopTickIs DEF LoopInv
<1>2. PICK refused : \E taken \in BOOLEAN : TickTo(sent, refused, taken)
  BY <1>1
<1>3. PICK taken \in BOOLEAN : TickTo(sent, refused, taken)
  BY <1>2
<1>4. LoopTypeOK' /\ Lagging'
  BY <1>3, TickTypes, TickLags DEF LoopInv
<1>5. WordKept'
  BY <1>3 DEF LoopInv, WordKept, TickTo, KeepTheFailsafe, FailsafeInForce
<1> QED BY <1>4, <1>5 DEF LoopInv

LEMMA AskChangesLoopInv ==
  ASSUME LoopInv, NEW d \in Devices, NEW a \in Asks[d], AskChanges(d, a)
  PROVE  LoopInv'
<1>1. /\ ask' = [ask EXCEPT ![d] = a] /\ changes < MaxChanges /\ changes' = changes + 1
      /\ UNCHANGED <<previous, told, missed, crept, inForce, reported, remembered, kept,
                     unwritten, writes, faults>>
  BY DEF AskChanges, commands, failsafe
<1>2. a \in Ask
  BY ControlLoopAssumption
<1>3. LoopTypeOK'
  <2>1. ask' \in [Devices -> Ask] /\ \A e \in Devices : ask'[e] \in Asks[e]
    BY <1>1, <1>2 DEF LoopInv, LoopTypeOK
  <2>2. changes' \in 0 .. MaxChanges
    BY <1>1, ControlLoopAssumption DEF LoopInv, LoopTypeOK
  <2> QED BY <1>1, <2>1, <2>2 DEF LoopInv, LoopTypeOK
<1>4. Lagging' /\ WordKept'
  BY <1>1 DEF LoopInv, Lagging, WordKept, FailsafeInForce
<1> QED BY <1>3, <1>4 DEF LoopInv

LEMMA OperatorWritesLoopInv == LoopInv /\ OperatorWrites => LoopInv'
<1> SUFFICES ASSUME LoopInv, OperatorWrites PROVE LoopInv'
  OBVIOUS
<1>1. /\ writes < MaxWrites /\ writes' = writes + 1 /\ inForce' = writes' /\ reported' = writes'
      /\ UNCHANGED <<ask, previous, told, missed, crept, remembered, kept, unwritten,
                     changes, faults>>
  BY DEF OperatorWrites, commands
<1>2. writes' \in 1 .. MaxWrites /\ writes' # None
  BY <1>1, ControlLoopAssumption DEF LoopInv, LoopTypeOK
<1>3. LoopTypeOK'
  BY <1>1, <1>2 DEF LoopInv, LoopTypeOK
<1>4. Lagging' /\ WordKept'
  BY <1>1, <1>2 DEF LoopInv, Lagging, WordKept
<1> QED BY <1>3, <1>4 DEF LoopInv

LEMMA RestartLoopInv == LoopInv /\ LoopRestart => LoopInv'
<1> SUFFICES ASSUME LoopInv, LoopRestart PROVE LoopInv'
  OBVIOUS
<1>1. /\ faults < MaxFaults /\ faults' = faults + 1
      /\ previous' = [d \in Devices |-> None] /\ inForce' = FailsafeInForce
      /\ reported' = None /\ remembered' = None
      /\ UNCHANGED <<ask, told, missed, crept, kept, unwritten, writes, changes>>
  BY DEF LoopRestart
<1>2. LoopTypeOK'
  <2>1. \A e \in Chargers \cup Tanks : previous'[e] = None
    BY <1>1 DEF Devices
  <2>2. inForce' \in 0 .. MaxWrites
    BY <1>1, ControlLoopAssumption DEF LoopInv, LoopTypeOK, FailsafeInForce
  <2>3. faults' \in 0 .. MaxFaults
    BY <1>1, ControlLoopAssumption DEF LoopInv, LoopTypeOK
  <2> QED BY <1>1, <2>1, <2>2, <2>3 DEF LoopInv, LoopTypeOK
<1>3. Lagging' /\ WordKept'
  BY <1>1 DEF Lagging, WordKept, FailsafeInForce
<1> QED BY <1>2, <1>3 DEF LoopInv

(* What a device was told lags by no more than has crept, and the failsafe *)
(* in force is the one that was written, in every state the loop reaches.  *)
THEOREM LoopInvariance == LoopSpec => []LoopInv
<1>1. ASSUME LoopInv, [LoopNext]_loopVars
      PROVE  LoopInv'
  <2>1. CASE LoopNext
    BY <1>1, <2>1, TickLoopInv, AskChangesLoopInv, OperatorWritesLoopInv, RestartLoopInv DEF LoopNext
  <2>2. CASE UNCHANGED loopVars
    BY <1>1, <2>2 DEF loopVars, LoopInv, LoopTypeOK, Lagging, WordKept, FailsafeInForce
  <2> QED BY <1>1, <2>1, <2>2
<1> QED BY <1>1, InitLoopInv, PTL DEF LoopSpec

-----------------------------------------------------------------------------
(* The theorems *)

(* What is asked, decided, told and remembered is what its type says: in    *)
(* particular a charge point is never decided a power between off and the  *)
(* least of a setting of its own, whatever is asked of it.                 *)
THEOREM LoopTypeCorrect == LoopSpec => []LoopTypeOK
<1>1. LoopInv => LoopTypeOK
  BY DEF LoopInv
<1> QED BY <1>1, LoopInvariance, PTL

(* What a device was told lags behind what was decided by no more than a    *)
(* deadband for every change that was not sent.                            *)
THEOREM LagsAreBounded == LoopSpec => []LagIsBounded
<1>1. LoopInv => LagIsBounded
  BY DEF LoopInv, Lagging, LagIsBounded
<1> QED BY <1>1, LoopInvariance, PTL

(* A tick never decides more than the guard leaves, and a device held at    *)
(* the guard's ceiling has been told so by the end of the tick.            *)
THEOREM GuardsLastWord == LoopSpec => GuardHasTheLastWord
<1> DEFINE Had == Ticked => \A d \in Devices :
         /\ previous'[d] <= ask[d].ceiling
         /\ previous'[d] >= ask[d].floor \/ d \in Chargers \cup Tanks
         /\ previous'[d] = ask[d].ceiling /\ Rating[d].ceiling > 0 /\ d \notin missed'
              => /\ told'[d].power = ask[d].ceiling
                 /\ told'[d].setting = ask[d].setting
<1>1. ASSUME LoopInv, LoopTick PROVE Had
  <2> SUFFICES ASSUME NEW d \in Devices
               PROVE  /\ previous'[d] <= ask[d].ceiling
                      /\ previous'[d] >= ask[d].floor \/ d \in Chargers \cup Tanks
                      /\ previous'[d] = ask[d].ceiling /\ Rating[d].ceiling > 0 /\ d \notin missed'
                           => /\ told'[d].power = ask[d].ceiling
                              /\ told'[d].setting = ask[d].setting
    OBVIOUS
  <2>1. PICK sent \in SUBSET Devices : \E refused : \E taken \in BOOLEAN :
          TickTo(sent, refused, taken)
    BY <1>1, LoopTickIs DEF LoopInv
  <2>2. PICK refused : \E taken \in BOOLEAN : TickTo(sent, refused, taken)
    BY <2>1
  <2>3. PICK taken \in BOOLEAN : TickTo(sent, refused, taken)
    BY <2>2
  <2>4. LoopTypeOK /\ previous'[d] = DecidedFor(d) /\ DecidedFor(d) \in Int /\ DecidedFor(d) <= ask[d].ceiling
        /\ (DecidedFor(d) >= ask[d].floor \/ d \in Chargers \cup Tanks)
    BY <1>1, <2>3, DecidedIs DEF LoopInv, TickTo
  <2>5. ASSUME DecidedFor(d) = ask[d].ceiling, Rating[d].ceiling > 0, d \notin missed'
        PROVE  told'[d].power = ask[d].ceiling /\ told'[d].setting = ask[d].setting
    <3>1. Held(d, DecidedFor(d))
      BY <2>4, <2>5 DEF Held
    <3>2. told'[d] = Taken(d, DecidedFor(d), refused)
      BY <2>3, <3>1 DEF TickTo
    <3>3. <<d, "power">> \notin refused /\ <<d, "setting">> \notin refused
      BY <2>3, <2>4, <2>5, NothingRefused
    <3> QED BY <2>4, <2>5, <3>2, <3>3, TakenIs
  <2> QED BY <2>4, <2>5
<1>2. ASSUME LoopInv, [LoopNext]_loopVars PROVE [Had]_loopVars
  <2>1. CASE LoopTick
    BY <1>1, <1>2, <2>1
  <2>2. CASE \E d \in Devices : \E a \in Asks[d] : AskChanges(d, a)
    <3>1. ask' # ask
      BY <1>2, <2>2 DEF AskChanges, LoopInv, LoopTypeOK
    <3> QED BY <3>1 DEF Ticked
  <2>3. CASE OperatorWrites
    <3>1. writes' # writes
      BY <1>2, <2>3 DEF OperatorWrites, LoopInv, LoopTypeOK
    <3> QED BY <3>1 DEF Ticked
  <2>4. CASE LoopRestart
    BY <2>4 DEF Ticked, LoopRestart
  <2> QED BY <1>2, <2>1, <2>2, <2>3, <2>4 DEF LoopNext
<1> QED BY <1>2, LoopInvariance, PTL DEF LoopSpec, GuardHasTheLastWord

(* A restart keeps the operator's last failsafe, once a tick has written it *)
(* down and the store has taken it.                                        *)
THEOREM OperatorsWordIsKept == LoopSpec => OperatorsWordSurvives
<1>1. ASSUME LoopInv, LoopRestart, reported = remembered, inForce \notin unwritten
      PROVE  inForce' = inForce
  <2>1. inForce' = FailsafeInForce
    BY <1>1 DEF LoopRestart
  <2>2. CASE reported = None
    BY <1>1, <2>1, <2>2 DEF LoopInv, WordKept
  <2>3. CASE reported # None
    <3>1. inForce = reported /\ kept = inForce
      BY <1>1, <2>3 DEF LoopInv, WordKept
    <3> QED BY <2>1, <2>3, <3>1 DEF FailsafeInForce
  <2> QED BY <2>2, <2>3
<1> QED BY <1>1, LoopInvariance, PTL DEF LoopSpec, OperatorsWordSurvives

=============================================================================
