------------------------------- MODULE Phases -------------------------------
(***************************************************************************)
(* One conductor or three, charge point by charge point:                   *)
(*                                                                         *)
(*   hems-realtime phases.rs    favoured_mode, decide, decide_all          *)
(*   hems-realtime arbiter.rs   phase_policy: every charge point, every    *)
(*                              tick, with what it could use               *)
(*   hemsd runtime/control.rs   carries the policy's state to the next     *)
(*                              tick, in memory, and stamps it with the    *)
(*                              wall clock                                 *)
(*                                                                         *)
(* Power is a number of steps, of which a milliwatt is none: what counts   *)
(* is on which side of a threshold the available power falls.              *)
(***************************************************************************)
EXTENDS Integers, Sequences

CONSTANTS Evses,        \* the charge points of the site
          Wiring,       \* how each is connected: "single", "three", "switchable"
          Enabled,      \* PhaseSwitchConfig's enabled
          Dwell,        \* dwell
          ConfirmDown,  \* confirm_down
          ConfirmUp,    \* confirm_up
          Hysteresis,   \* hysteresis
          MinSingle,    \* the least power on one conductor
          MaxSingle,    \* and the most
          MinThree,     \* the least power on three
          Level,        \* what can be available
          NoState,      \* a charge point the policy has not seen
          NotWanted,    \* the conditions agree with the mode
          LastTime,     \* bound: the last instant of the run
          Stride,       \* the longest a tick may come after the one before
          MaxSteps,     \* bound: how often the box's clock is set
          MaxRestarts   \* bound: how often the box restarts

Times == 0 .. LastTime
Mode == {"single", "three"}

ASSUME PhasesAssumption ==
  /\ Wiring \in [Evses -> Mode \cup {"switchable"}]
  /\ Enabled \in BOOLEAN
  /\ Dwell \in Nat /\ ConfirmDown \in Nat /\ ConfirmUp \in Nat /\ Hysteresis \in Nat
  /\ MinSingle \in Nat /\ MaxSingle \in Nat /\ MinThree \in Nat
  /\ MinSingle <= MaxSingle /\ MaxSingle <= MinThree
  /\ Level \subseteq Nat
  /\ LastTime \in Nat /\ Stride \in Nat \ {0}
  /\ MaxSteps \in Nat /\ MaxRestarts \in Nat

Wanted == [mode : Mode, since : Times]
PhaseState == [mode : Mode, since : Times, wanted : Wanted \cup {NotWanted}]
Decided == [mode : Mode, at : Times]

ASSUME NoStateAssumption == NoState \notin PhaseState \cup Decided /\ NotWanted \notin Wanted

VARIABLES
  clock,     \* the box's wall clock, at the last tick
  elapsed,   \* history: the time that has really passed
  phases,    \* carried.phases
  decided,   \* history: the mode last decided, and when it became that mode
  past,      \* history: the ticks of this process at a switchable charge point
  steps,     \* how often the box's clock has been set
  restarts   \* how often the box has restarted

vars == <<clock, elapsed, phases, decided, past, steps, restarts>>

Init == /\ clock = 0
        /\ elapsed = 0
        /\ phases = [e \in Evses |-> NoState]
        /\ decided = [e \in Evses |-> NoState]
        /\ past = [e \in Evses |-> << >>]
        /\ steps = 0
        /\ restarts = 0
-----------------------------------------------------------------------------
Switchable(e) == Wiring[e] = "switchable"

Supports(e, mode) == Wiring[e] \in {mode, "switchable"}

DefaultMode(e) == IF Wiring[e] = "single" THEN "single" ELSE "three"

(* PhaseState::new *)
Entered(mode, now) == [mode |-> mode, since |-> now, wanted |-> NotWanted]

(* The margin applies on the way up only. *)
ThreeThreshold(current) == MinThree + (IF current = "single" THEN Hysteresis ELSE 0)

(* favoured_mode: below both minimums nothing is favoured over what there is. *)
FavouredMode(e, current, available) ==
  IF Supports(e, "three") /\ available >= ThreeThreshold(current) THEN "three"
  ELSE IF Supports(e, "single") /\ available >= MinSingle THEN "single"
  ELSE current

Window(favoured) == IF favoured = "single" THEN ConfirmDown ELSE ConfirmUp

(* Mutant: any mode has had its turn. *)
SettledAtOnce(state, now) == now >= state.since

Settled(state, now) == now - state.since >= Dwell

(* Mutant: an argument is not forgotten when the conditions drop it. *)
Remembered(state) == state

(* The conditions agree with the mode, or the mode is not to be argued with. *)
Agreed(state) == [state EXCEPT !.wanted = NotWanted]

(* The conditions want another mode: have they wanted it for long enough,  *)
(* and has the mode had its turn?                                          *)
Argued(state, favoured, now) ==
  LET wanted == IF state.wanted # NotWanted /\ state.wanted.mode = favoured
                THEN state.wanted ELSE [mode |-> favoured, since |-> now]
  IN  IF now - wanted.since >= Window(favoured) /\ Settled(state, now)
      THEN Entered(favoured, now)
      ELSE [state EXCEPT !.wanted = wanted]

(* decide.  A mode the wiring cannot hold is corrected at once. *)
Decide(e, state, available, now) ==
  LET favoured == FavouredMode(e, state.mode, available)
  IN  IF ~Supports(e, state.mode) THEN Entered(DefaultMode(e), now)
      ELSE IF ~Enabled \/ ~Switchable(e) \/ favoured = state.mode THEN Agreed(state)
      ELSE Argued(state, favoured, now)

(* decide_all: a charge point the policy has not seen starts in the mode   *)
(* of its wiring, now.                                                     *)
DecideNext(e, available, now) ==
  Decide(e, IF phases[e] = NoState THEN Entered(DefaultMode(e), now) ELSE phases[e],
         available, now)
-----------------------------------------------------------------------------
(* A tick of the control loop: the policy of every charge point, over what *)
(* it could use.                                                           *)
Tick(passed, available) ==
  LET now == clock + passed  instant == elapsed + passed IN
  /\ now \in Times /\ instant \in Times
  /\ clock' = now
  /\ elapsed' = instant
  /\ phases' = [e \in Evses |-> DecideNext(e, available[e], now)]
  /\ decided' = [e \in Evses |->
       IF decided[e] # NoState /\ decided[e].mode = phases'[e].mode THEN decided[e]
       ELSE [mode |-> phases'[e].mode, at |-> instant]]
  /\ past' = [e \in Evses |->
       IF ~Switchable(e) THEN past[e]
       ELSE Append(past[e], [at |-> instant, available |-> available[e],
                             mode |-> phases'[e].mode])]
  /\ UNCHANGED <<steps, restarts>>

(* The box's clock is corrected, in either direction, between two ticks:   *)
(* the history of the policy starts again.                                 *)
SetClock(c) == /\ steps < MaxSteps
               /\ clock' = c
               /\ steps' = steps + 1
               /\ past' = [e \in Evses |-> << >>]
               /\ UNCHANGED <<elapsed, phases, decided, restarts>>

(* carried_from: nothing of the policy outlives the process.  The restarts *)
(* are bounded, but for the one that may end the run.                      *)
Restart == /\ restarts < MaxRestarts \/ LastTime \in {clock, elapsed}
           /\ phases' = [e \in Evses |-> NoState]
           /\ past' = [e \in Evses |-> << >>]
           /\ restarts' = IF restarts < MaxRestarts THEN restarts + 1 ELSE restarts
           /\ UNCHANGED <<clock, elapsed, decided, steps>>

Next == \/ \E passed \in 1 .. Stride, available \in [Evses -> Level] : Tick(passed, available)
        \/ \E c \in Times : SetClock(c)
        \/ Restart

Spec == Init /\ [][Next]_vars
-----------------------------------------------------------------------------
TypeOK == /\ clock \in Times
          /\ elapsed \in Times
          /\ phases \in [Evses -> PhaseState \cup {NoState}]
          /\ decided \in [Evses -> Decided \cup {NoState}]
          /\ past \in [Evses -> Seq([at : Times, available : Level, mode : Mode])]
          /\ steps \in Nat
          /\ restarts \in Nat

(* A contactor that was told another mode is not told back before the      *)
(* dwell has run.                                                          *)
Undone(e) == /\ decided[e] # NoState
             /\ decided'[e].mode # decided[e].mode
             /\ elapsed' - decided[e].at < Dwell

(* Whatever the surplus does, a running box with a clock that only runs on *)
(* holds a mode for at least the dwell, and so it does after a restart as  *)
(* soon as it has decided once.                                            *)
HeldForTheDwell ==
  [][steps' = 0 => \A e \in Evses : phases[e] # NoState => ~Undone(e)]_vars

Other(mode) == IF mode = "single" THEN "three" ELSE "single"

(* At this tick the roof spoke against the mode: it left enough for three  *)
(* conductors and the margin, or too little for three and enough for one.  *)
Against(mode, available) ==
  IF mode = "single" THEN available >= MinThree + Hysteresis
  ELSE available < MinThree /\ available >= MinSingle

(* The tick at which the mode before tick n was entered. *)
Since(ticks, n) ==
  CHOOSE j \in 1 .. n - 1 :
    /\ j = 1 \/ ticks[j].mode # ticks[j - 1].mode
    /\ \A i \in j .. n - 1 : ticks[i].mode = ticks[n - 1].mode

(* For a confirmation window every tick up to the n-th spoke against the   *)
(* mode, the one it was entered at included - which only the first tick of *)
(* a process can - and the mode has been kept for the dwell.               *)
Due(ticks, n) ==
  LET mode == ticks[n - 1].mode  since == Since(ticks, n) IN
  /\ ticks[n].at - ticks[since].at >= Dwell
  /\ \E k \in since .. n :
       /\ ticks[n].at - ticks[k].at >= Window(Other(mode))
       /\ \A i \in k .. n : Against(mode, ticks[i].available)

(* A cloud moves no contactor and an afternoon does: the mode changes at a *)
(* tick exactly if the roof has spoken against it throughout the window    *)
(* and the mode has had its turn, and then without a tick's delay.         *)
SwitchesExactlyWhenDue ==
  Enabled /\ steps = 0 =>
    \A e \in Evses : LET n == Len(past[e]) IN
      n > 1 => (past[e][n].mode # past[e][n - 1].mode <=> Due(past[e], n))

Delivers(mode, available) ==
  IF mode = "single"
  THEN IF available < MinSingle THEN 0 ELSE IF available > MaxSingle THEN MaxSingle ELSE available
  ELSE IF available < MinThree THEN 0 ELSE available

(* Where no switch is being waited out, the car charges at least as fast   *)
(* as it would in the other mode, but for the margin on the way up.        *)
PendingOrBest ==
  Enabled => \A e \in Evses : LET n == Len(past[e]) IN
    n > 0 /\ phases[e].wanted = NotWanted =>
      LET tick == past[e][n] IN
        \/ Delivers(tick.mode, tick.available) >= Delivers(Other(tick.mode), tick.available)
        \/ tick.mode = "single" /\ tick.available < MinThree + Hysteresis
=============================================================================
