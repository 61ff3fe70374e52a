------------------------------- MODULE Planner -------------------------------
(***************************************************************************)
(* The planner and the control loop of a box, which share what the planner *)
(* publishes and nothing else:                                             *)
(*                                                                         *)
(*   hemsd runtime/planner.rs  run, refresh, attempt, publish              *)
(*   hemsd runtime/fleet.rs    what tariffd and forecastd answer           *)
(*   hemsd runtime/control.rs  tick, close_the_quarter_hour, register,     *)
(*                             meter                                       *)
(*   hems-core plan.rs, slot.rs, hems-tariff stack.rs                      *)
(*   hems-realtime arbiter.rs  which plan is followed                      *)
(*                                                                         *)
(* Time is counted in control periods.  What was made at an instant is     *)
(* kept as its age, and a quarter hour as its distance from the one that   *)
(* is running, so that no behaviour ends at a bound of the clock.  The     *)
(* household is on a dynamic tariff.                                       *)
(***************************************************************************)
EXTENDS Integers, FiniteSetsExt

CONSTANTS
    SlotLen,      \* control periods in a quarter hour
    ReplanEvery,  \* the period of the planner's timer
    RoundMost,    \* the periods a round may last, by its timeouts and its budget
    Horizon,      \* the quarter hours planned ahead
    Answers,      \* how many quarter hours tariffd may have prices for
    MaxAge,       \* max_plan_age
    MaxRestarts,  \* bound: restarts of the box
    None

Round  == [stage : {"asking", "asked", "solving"}, age : Nat, read : Nat \cup {None}]
Stack  == [age : Nat, reach : Int]
Plan   == [age : Nat, read : Nat]
Closed == [metered : BOOLEAN, offered : BOOLEAN, upset : BOOLEAN,
           register : {"none", "priced", "fallback"}]

ASSUME PlannerAssumption ==
    /\ SlotLen \in Nat \ {0} /\ ReplanEvery \in Nat \ {0}
    /\ Horizon \in Nat /\ Horizon > 1 /\ Answers \subseteq 0 .. Horizon
    /\ RoundMost \in Nat /\ MaxAge \in Nat /\ MaxRestarts \in Nat
    /\ None \notin Int \cup Round \cup Stack \cup Plan \cup Closed

VARIABLES
    into,       \* how far the quarter hour has run
    ticked,     \* the control loop has had its turn in this period
    due,        \* the planner's timer has gone, and no round has begun since
    timer,      \* the periods since it went, or would have, last
    round,      \* the planner's round: None, or its stage and ages
    curve,      \* cached.prices: how many quarter hours ahead it reaches
    sky,        \* cached.sky: whether there is one
    stack,      \* the published prices: the age of their round, and their reach
    plan,       \* the published plan: its created_at and its readings, as ages
    open,       \* the loop has not closed the last quarter hour yet
    metered,    \* carried.samples > 0
    offered,    \* history: prices stood for this quarter hour at its last tick
    upset,      \* history: since that tick, a round began in the next quarter hour,
                \*   or one published whose horizon was over
    closed,     \* history: what became of the quarter hour the last tick closed
    up, solvable, \* environment: the fleet answers for sure, a round finds a plan
    restarts

vars == <<into, ticked, due, timer, round, curve, sky, stack, plan, open, metered,
          offered, upset, closed, up, solvable, restarts>>

cached    == <<curve, sky>>
published == <<stack, plan>>
carried   == <<open, metered, offered, closed>>
world     == <<up, solvable, restarts>>

-----------------------------------------------------------------------------
(* Ages and quarter hours *)

(* One period older, up to an age beyond which nothing is told apart. *)
Older(age, most) == IF age < most THEN age + 1 ELSE age

OldStack == (Horizon * SlotLen) + 1
OldPlan  == MaxAge + 1

(* Slot::containing: how many quarter hours ago an instant of that age lies. *)
SlotsAgo(age) == IF age <= into THEN 0 ELSE ((age - into - 1) \div SlotLen) + 1

(* Horizon::new: whether one of that age has the quarter hour `back` ago. *)
Covers(age, back) == SlotsAgo(age) - back \in 0 .. Horizon - 1

(* Mutant: the plan is as young as the moment it is published. *)
SolvedNow == [age |-> 0, read |-> round.read]

(* Plan::created_at is the instant the round began with. *)
Solved == [age |-> round.age, read |-> round.read]

-----------------------------------------------------------------------------
(* The planner *)

RoundBegins ==
    /\ due /\ round = None
    /\ due' = FALSE
    /\ round' = [stage |-> "asking", age |-> 0, read |-> None]
    /\ upset' = (upset \/ open)
    /\ UNCHANGED <<into, ticked, timer, cached, published, carried, world>>

(* refresh: an answer replaces what was cached, whatever it holds, and a    *)
(* failure leaves it.  The horizon asked for begins where the round began.  *)
AskPrices == \E n \in Answers : curve' = Max({n - SlotsAgo(round.age), -1})

Refresh ==
    /\ round # None /\ round.stage = "asking"
    /\ round' = [round EXCEPT !.stage = "asked"]
    /\ AskPrices \/ (~up /\ UNCHANGED curve)
    /\ sky' = TRUE \/ (~up /\ UNCHANGED sky)
    /\ UNCHANGED <<into, ticked, due, timer, upset, published, carried, world>>

(* The quarter hours the round has prices for and plans are all over. *)
HorizonOver == SlotsAgo(round.age) >= Horizon

(* Mutant: the horizon begins where the fleet has answered. *)
AttemptAsOfNow ==
    /\ round # None /\ round.stage = "asked"
    /\ stack' = IF curve = None THEN stack ELSE [age |-> 0, reach |-> curve]
    /\ \/ /\ curve = None \/ ~sky
          /\ round' = None
       \/ /\ curve # None /\ sky
          /\ round' = [stage |-> "solving", age |-> round.age, read |-> 0]
    /\ upset' = (upset \/ (curve # None /\ HorizonOver))
    /\ UNCHANGED <<into, ticked, due, timer, cached, plan, carried, world>>

(* attempt, up to the solver: the prices are published before the sky is   *)
(* looked at, and long before anything is solved.                          *)
Attempt ==
    /\ round # None /\ round.stage = "asked"
    /\ stack' = IF curve = None THEN stack ELSE [age |-> round.age, reach |-> curve]
    /\ \/ /\ curve = None \/ ~sky
          /\ round' = None
       \/ /\ curve # None /\ sky
          /\ round' = [stage |-> "solving", age |-> round.age, read |-> 0]
    /\ upset' = (upset \/ (curve # None /\ HorizonOver))
    /\ UNCHANGED <<into, ticked, due, timer, cached, plan, carried, world>>

(* A load nobody can forecast, or no solution, leaves the plan that stands. *)
SolveEnds ==
    /\ round # None /\ round.stage = "solving"
    /\ plan' = IF solvable THEN Solved ELSE plan
    /\ round' = None
    /\ UNCHANGED <<into, ticked, due, timer, upset, cached, stack, carried, world>>

-----------------------------------------------------------------------------
(* The control loop *)

(* Mutant: a plan is followed until the next one is due. *)
FollowsTheLatest == plan # None /\ plan.age < ReplanEvery /\ Covers(plan.age, 0)

(* Arbiter::desires: not stale, and the quarter hour is in it. *)
Follows == plan # None /\ plan.age <= MaxAge /\ Covers(plan.age, 0)

(* register: only with a price, and a quarter hour the tariff had no price *)
(* for is in the stack too, at the fallback.                               *)
Registered ==
    IF stack = None \/ ~metered \/ ~Covers(stack.age, 1) THEN "none"
    ELSE IF stack.reach > -1 THEN "priced" ELSE "fallback"

CloseTheQuarterHour ==
    closed' = IF open THEN [metered |-> metered, offered |-> offered, upset |-> upset,
                            register |-> Registered]
              ELSE None

Tick ==
    /\ ~ticked
    /\ ticked' = TRUE
    /\ open' = FALSE
    /\ CloseTheQuarterHour
    /\ offered' = (stack # None /\ Covers(stack.age, 0))
    /\ upset' = FALSE
    /\ \E reading \in BOOLEAN : metered' = (reading \/ (metered /\ ~open))
    /\ UNCHANGED <<into, due, timer, round, cached, published, world>>

-----------------------------------------------------------------------------
(* Time, faults and the rest of the world *)

(* The loop has a turn in every period, a round has a last instant, and a  *)
(* task that can begin does.  The timer keeps its own time: when it goes   *)
(* during a round it is late, and a second time is skipped.                *)
Advance ==
    /\ ticked /\ ~(due /\ round = None)
    /\ round # None => round.age < RoundMost
    /\ into' = (into + 1) % SlotLen
    /\ ticked' = FALSE
    /\ timer' = (timer + 1) % ReplanEvery
    /\ due' = (due \/ timer' = 0)
    /\ open' = (into' = 0)
    /\ round' = IF round = None THEN None
                ELSE [round EXCEPT !.age = @ + 1, !.read = IF @ = None THEN None ELSE @ + 1]
    /\ plan' = IF plan = None THEN None
               ELSE [age |-> Older(plan.age, OldPlan), read |-> Older(plan.read, OldPlan)]
    /\ stack' = IF stack = None THEN None
                ELSE [age |-> Older(stack.age, OldStack),
                      reach |-> IF into' = 0 THEN Max({stack.reach - 1, -1}) ELSE stack.reach]
    /\ curve' = IF curve = None \/ into' # 0 THEN curve ELSE Max({curve - 1, -1})
    /\ UNCHANGED <<sky, metered, offered, upset, closed, world>>

FleetChanges ==
    /\ up' = ~up
    /\ UNCHANGED <<into, ticked, due, timer, round, upset, cached, published, carried, solvable, restarts>>

ProblemChanges ==
    /\ solvable' = ~solvable
    /\ UNCHANGED <<into, ticked, due, timer, round, upset, cached, published, carried, up, restarts>>

(* Everything shared is in memory, and both timers begin with the process. *)
Restart ==
    /\ restarts < MaxRestarts
    /\ restarts' = restarts + 1
    /\ timer' = 0 /\ due' = TRUE /\ ticked' = FALSE
    /\ round' = None /\ curve' = None /\ sky' = FALSE
    /\ stack' = None /\ plan' = None
    /\ open' = FALSE /\ metered' = FALSE /\ offered' = FALSE
    /\ upset' = FALSE /\ closed' = None
    /\ UNCHANGED <<into, up, solvable>>

Init ==
    /\ into \in 0 .. SlotLen - 1
    /\ timer = 0 /\ due = TRUE /\ ticked = FALSE
    /\ round = None /\ curve = None /\ sky = FALSE
    /\ stack = None /\ plan = None
    /\ open = FALSE /\ metered = FALSE /\ offered = FALSE
    /\ upset = FALSE /\ closed = None
    /\ up \in BOOLEAN /\ solvable \in BOOLEAN /\ restarts = 0

PlannerStep == RoundBegins \/ Refresh \/ Attempt \/ SolveEnds

Next == PlannerStep \/ Tick \/ Advance \/ FleetChanges \/ ProblemChanges \/ Restart

(* Both tasks are on timers and every request and solve has a timeout; what *)
(* the fleet answers and what can be solved is promised by nobody.          *)
Spec ==
    /\ Init /\ [][Next]_vars
    /\ WF_vars(PlannerStep) /\ WF_vars(Tick) /\ WF_vars(Advance)

-----------------------------------------------------------------------------
(* Properties *)

TypeOK ==
    /\ into \in 0 .. SlotLen - 1 /\ timer \in 0 .. ReplanEvery - 1
    /\ {ticked, due, sky, open, metered, offered, upset} \subseteq BOOLEAN
    /\ round = None \/ (round \in Round /\ round.age <= RoundMost)
    /\ curve \in -1 .. Horizon \cup {None}
    /\ stack = None \/ (stack \in Stack /\ stack.reach \in -1 .. Horizon)
    /\ plan \in Plan \cup {None}
    /\ closed = None \/ closed \in Closed
    /\ {up, solvable} \subseteq BOOLEAN /\ restarts \in 0 .. MaxRestarts

(* No plan is followed whose readings are older than a plan may be: its age *)
(* runs from before anything was asked or read for it, however long the     *)
(* fleet and the solver took.                                               *)
FollowedIsFresh == Follows => plan.read <= MaxAge

(* A quarter hour that was measured, and that there were prices for when it *)
(* was last ticked, loses its register only when a round has begun in the   *)
(* next one before the loop closes it: the prices of that round begin with  *)
(* the new quarter hour.  (Or when a round is so late that all it plans is  *)
(* over.)  A failed round, one that began before the end and publishes      *)
(* after it, and one that outlasts the timer cost no register.              *)
LostOnlyToARound ==
    closed # None /\ closed.metered /\ closed.offered /\ closed.register = "none" => closed.upset

(* Once the fleet answers and the solver finds plans, the box follows one   *)
(* and does not stop: rounds are closer together than a plan grows stale.   *)
PlannedAgain == <>[](up /\ solvable) => <>[]Follows

=============================================================================
