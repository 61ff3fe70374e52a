-------------------------------- MODULE Guard --------------------------------
(***************************************************************************)
(* The guard of the control loop (crates/hems-realtime/src/guard.rs): once *)
(* a tick it bounds every device of the house by its ratings, its store,   *)
(* the operator's par. 14a ceiling, the feed-in cap, the fuses and the     *)
(* unbalance rule; the arbiter then picks the conductor counts and         *)
(* commands a value inside the bounds, which the devices take.             *)
(*                                                                         *)
(* `power` is what every device really draws (negative: feeds in) and      *)
(* `rest` is the load no device reports; the guard sees `power` only of    *)
(* the devices in `heard`, and the sum only when `metered`.                *)
(*                                                                         *)
(* Powers are whole units.                                                 *)
(***************************************************************************)
EXTENDS Allocation, Sequences

CONSTANTS
    Kind,           \* [Devices -> {"evse", "battery", "roof", "pump", "tank", "load"}]
    Nameplate,      \* [Devices -> Nat], the connection power
    Takes, Gives,   \* [Devices -> Nat], a store's maxima, a tank's heater
    Bidirectional,  \* the charge points that can feed back
    Commandable,    \* the devices with a control capability
    Participating,  \* the devices under the netzorientierte Steuerung today
    Threshold,      \* 4.2 kW: above it a group is controllable
    Conductor,      \* [Devices -> 0 .. 3], the single-phase conductor, 0: none
    Switchable,     \* the charge points that can change their conductors
    LeastAmps, MostAmps,    \* of a charge point, per conductor
    UnbalanceLimit, \* VDE-AR-N 4100, 4.6 kVA
    ImportCeiling, ExportCeiling,   \* of the connection
    StatutoryCap,   \* par. 9 EEG, None where the site has none
    Circuits,       \* sequence of the fuses: the devices below, whether all
                    \* the site's meters are, too, and what it carries
    LendWindow, TickPeriod, \* seconds; how much of a thermostat's draw is lent
    Weight,         \* [Devices -> Nat \ {0}], the arbiter's priority
    Wants,          \* the functions [Commandable -> Int] the arbiter may ask for
    Limits,         \* the pairs [steuve, feedIn] the operator may set
    Sunlight, Rests, \* bounds: what the sun and the household do
    MaxTrouble,     \* bound: devices silent, stores full or empty, at once
    MaxChanges,     \* bound: changes between two ticks
    None

ASSUME GuardAssumption ==
    /\ IsFiniteSet(Devices)
    /\ Kind \in [Devices -> {"evse", "battery", "roof", "pump", "tank", "load"}]
    /\ Nameplate \in [Devices -> Nat]
    /\ Takes \in [Devices -> Nat] /\ Gives \in [Devices -> Nat]
    /\ Bidirectional \subseteq Devices
    /\ Commandable \subseteq Devices /\ Participating \subseteq Devices
    /\ Switchable \subseteq Devices
    /\ Conductor \in [Devices -> 0 .. 3]
    /\ LeastAmps \in Nat \ {0} /\ MostAmps \in Nat
    /\ Threshold \in Nat /\ UnbalanceLimit \in Nat
    /\ ImportCeiling \in Nat /\ ExportCeiling \in Nat
    /\ StatutoryCap \in Nat \cup {None} /\ None \notin Nat
    /\ Circuits \in Seq([below : SUBSET Devices, meters : BOOLEAN, limit : Nat])
    /\ LendWindow \in Nat /\ TickPeriod \in Nat \ {0}
    /\ Weight \in [Devices -> Nat \ {0}]
    /\ Wants \subseteq [Commandable -> Int]
    /\ Limits \subseteq [steuve : Nat \cup {None}, feedIn : Nat \cup {None}]
    /\ Sunlight \subseteq Nat /\ Rests \subseteq Nat
    /\ MaxTrouble \in Nat /\ MaxChanges \in Nat

VARIABLES
    power,      \* what every device draws
    rest,       \* what nothing but the grid meter sees
    sun,        \* what a roof could produce
    heard,      \* the devices with a fresh measurement
    metered,    \* whether the grid meter has one
    store,      \* [Batteries -> {"empty", "part", "full"}]
    limits,     \* what the operator asks
    mode,       \* [Evses -> {"Single", "Three"}]
    envelope,   \* the guard's last word, per device
    changes     \* what has changed since the tick, counted

guardVars == <<power, rest, sun, heard, metered, store, limits, mode,
               envelope, changes>>

house == <<power, rest, sun, store>>
view  == <<heard, metered>>
word  == <<mode, envelope>>

-----------------------------------------------------------------------------
(* The site *)

Of(kind)  == {d \in Devices : Kind[d] = kind}
Evses     == Of("evse")
Batteries == Of("battery")
Roofs     == Of("roof")
Pumps     == Of("pump")
Tanks     == Of("tank")

(* self_regulating: what runs itself where nobody limits it. *)
Thermostats == Pumps \cup Tanks

Inflow(p)  == AtLeastZero(p)
Outflow(p) == AtLeastZero(-p)

(* classify_on: heat pumps count as one group, the others one by one. *)
Steuve ==
    {d \in (Evses \cup Batteries) \cap Participating : Nameplate[d] > Threshold}
    \cup (IF Total(Nameplate, Pumps \cap Participating) > Threshold
          THEN Pumps \cap Participating ELSE {})

(* A charge point wired to one conductor stays on it, one on three stays on *)
(* three. *)
ModesOf(e) ==
    IF e \in Switchable THEN {"Single", "Three"}
    ELSE IF Conductor[e] = 0 THEN {"Three"} ELSE {"Single"}

Wires(m)       == IF m = "Single" THEN 1 ELSE 3
MinPower(e, m) == LeastAmps * Wires(m)
MaxPower(e, m) == Min({MostAmps * Wires(m), Nameplate[e]})

Best(e)   == Max({MaxPower(e, m) : m \in ModesOf(e)})
Useful(d) == IF d \in Evses THEN Min({MinPower(d, m) : m \in ModesOf(d)}) ELSE 0

Ratings(d) ==
    CASE d \in Roofs     -> [floor |-> -Nameplate[d], ceiling |-> 0]
      [] d \in Batteries -> [floor |-> -Gives[d], ceiling |-> Takes[d]]
      [] d \in Evses     -> [floor |-> IF d \in Bidirectional THEN -Best(d) ELSE 0,
                            ceiling |-> Best(d)]
      [] d \in Tanks     -> [floor |-> 0, ceiling |-> Takes[d]]
      [] OTHER           -> [floor |-> 0, ceiling |-> Nameplate[d]]

(* Mutant: the last bound wins, whatever stood before it. *)
SetCeiling(e, p) == [e EXCEPT !.ceiling = p]

AtMost(e, p)  == [e EXCEPT !.ceiling = Min({@, p})]
AtLeast(e, p) == [e EXCEPT !.floor = Max({@, p})]
Clamp(e, p)   == Min({Max({p, e.floor}), e.ceiling})
Resolve(e)    == IF e.floor > e.ceiling THEN [e EXCEPT !.floor = e.ceiling] ELSE e

-----------------------------------------------------------------------------
(* What the guard can tell of the house *)

Grid == Total(power, Devices) + rest

(* A silent consumer is taken to draw its nameplate, a silent roof nothing, *)
(* a silent device that can be commanded and is not par. 14a nothing.       *)
Assumed ==
    {d \in Devices \ heard :
        d \in Steuve \/ (d \notin Commandable /\ d \notin Roofs)}

Draw == [d \in Devices |-> IF d \in heard THEN Inflow(power[d])
                          ELSE IF d \in Assumed THEN Nameplate[d] ELSE 0]
Feed == [d \in Devices |-> IF d \in heard THEN Outflow(power[d]) ELSE 0]

(* Guard::flows.  The grid meter closes the balance where it is fresh.  What *)
(* may not be lent to an inverter: guesses, draws this tick ends, and the    *)
(* part of a thermostat's draw the cadence of the loop cannot call in.       *)
Ending(w) == [d \in Commandable |-> AtLeastZero(power[d] - Inflow(w[d]))]

Uncallable == (Total(Draw, heard \cap Thermostats)
                 * AtLeastZero(TickPeriod - LendWindow)) \div TickPeriod

Flows(w) ==
    LET steuve      == Total(Draw, Steuve)
        reported    == Total(Draw, Devices \ Steuve)
        generation  == Total(Feed, Devices \ Steuve)
        derived     == Grid - steuve + generation + Total(Feed, Steuve)
        other       == IF metered THEN Max({reported, derived, 0}) ELSE reported
    IN  [other          |-> other,
         generation     |-> generation,
         uncommandable  |-> Total(Draw, Steuve \ Commandable),
         uncontrollable |-> Total(Feed, Devices \ (Steuve \cup Commandable)),
         metered        |-> AtLeastZero(other + steuve - Total(Draw, Assumed)
                               - Total(Ending(w), (heard \cap Commandable) \ Thermostats)
                               - Uncallable)]

-----------------------------------------------------------------------------
(* The bounds of one device *)

(* A store whose charge is known neither charges past full nor discharges *)
(* past its floor within a tick. *)
WithinStore(d, e) ==
    IF d \notin Batteries \cap heard THEN e
    ELSE CASE store[d] = "full"  -> AtMost(e, 0)
           [] store[d] = "empty" -> AtLeast(e, 0)
           [] OTHER              -> e

WithinFuses(d, e) ==
    LET limitsOn == {Circuits[i].limit :
                        i \in {j \in DOMAIN Circuits : d \in Circuits[j].below}}
    IN  IF limitsOn = {} THEN e
        ELSE AtMost(AtLeast(e, -Min(limitsOn)), Min(limitsOn))

NarrowAsset(d) ==
    AtMost(WithinFuses(d, WithinStore(d, Ratings(d))), ImportCeiling)

-----------------------------------------------------------------------------
(* The bounds several devices share *)

(* What the claims leave is spread over the room that is left, so that the *)
(* bounds of all devices together still fit the budget. *)
Spare(grants, bound) == [d \in DOMAIN grants |-> AtLeastZero(bound[d] - grants[d])]

Distribute(budget, grants, bound) ==
    LET room  == Table(Spare(grants, bound))
        rooms == Total(room, DOMAIN grants)
        left  == AtLeastZero(budget - Total(grants, DOMAIN grants))
    IN  [binding |-> rooms > left,
         bound |-> Table([d \in DOMAIN grants |->
            IF rooms > left THEN grants[d] + (room[d] * left) \div rooms
                            ELSE bound[d]])]

FeedInClaims(env, w) ==
    [d \in Commandable |->
        [want |-> Min({Outflow(w[d]), Outflow(env[d].floor)}),
         floor |-> 0, weight |-> Weight[d]]]

ShareExport(env, budget, w) ==
    LET spread == Distribute(budget, Allocate(budget, Table(FeedInClaims(env, w))),
                             [d \in Commandable |-> Outflow(env[d].floor)])
    IN  Table([d \in Devices |->
            IF d \in Commandable /\ spread.binding
            THEN AtLeast(env[d], -spread.bound[d]) ELSE env[d]])

DrawClaims(env, ids, w) ==
    [d \in ids |->
        [want |-> Min({Inflow(w[d]), Inflow(env[d].ceiling)}),
         floor |-> Useful(d), weight |-> Weight[d]]]

Share(env, ids, budget, w) ==
    LET spread == Distribute(budget,
                             AllocateIndivisible(budget, Table(DrawClaims(env, ids, w))),
                             [d \in ids |-> env[d].ceiling])
    IN  Table([d \in Devices |->
            IF d \in ids /\ spread.binding
            THEN AtMost(env[d], spread.bound[d]) ELSE env[d]])

PhysicalHeadroom(limit, net) == AtLeastZero(limit - net)

(* Mutant: the operator's ceiling in the place of the connection's and the *)
(* statutory cap. *)
BoundBySessionOnly(env, flows, w) ==
    IF limits.feedIn = None THEN env
    ELSE ShareExport(env, PhysicalHeadroom(limits.feedIn,
            flows.uncontrollable - flows.metered), w)

(* bound_feed_in: the connection's own ceiling, then the strictest cap. *)
BoundFeedIn(env, flows, w) ==
    LET net  == flows.uncontrollable - flows.metered
        caps == {StatutoryCap, limits.feedIn} \ {None}
        atConnection == ShareExport(env, PhysicalHeadroom(ExportCeiling, net), w)
    IN  IF caps = {} THEN atConnection
        ELSE ShareExport(atConnection, PhysicalHeadroom(Min(caps), net), w)

(* lend_generation: a discharge that is measured, wanted and sustainable is *)
(* counted, and whoever lends it may not draw this tick. *)
Lent(env, w) ==
    Table([d \in (Commandable \ Roofs) \cap heard |->
        Min({Outflow(power[d]), Outflow(w[d]), Outflow(env[d].floor)})])

(* Mutant: what cannot be commanded does not count against the budget. *)
BudgetForEverybody(flows, lent) ==
    AtLeastZero(limits.steuve
        + AtLeastZero(flows.generation + Total(lent, DOMAIN lent)
                        - flows.other))

SteuveBudget(flows, lent) ==
    AtLeastZero(limits.steuve
        + AtLeastZero(flows.generation + Total(lent, DOMAIN lent)
                        - flows.other)
        - flows.uncommandable)

Pinned(env, lent) ==
    Table([d \in Devices |->
        IF d \in DOMAIN lent /\ lent[d] > 0 THEN AtMost(env[d], 0) ELSE env[d]])

BoundSteuve(env, flows, w) ==
    IF limits.steuve = None THEN env
    ELSE LET lent == Lent(env, w)
         IN  Share(Pinned(env, lent), Steuve \cap Commandable,
                   SteuveBudget(flows, lent), w)

(* Mutant: nobody bounds the connection. *)
UnboundConnection(env, flows, w) == env

BoundConnection(env, flows, w) ==
    Share(env, Commandable,
          PhysicalHeadroom(ImportCeiling, flows.other - flows.generation), w)

(* A circuit that carries all the site's assets, its meters among them, and *)
(* as much as the connection, is left to the connection.                    *)
CarriesTheSite(circuit) ==
    circuit.below = Devices /\ circuit.meters /\ circuit.limit >= ImportCeiling

(* split_below: what cannot be moved counts as measured, or as assumed. *)
BoundCircuit(env, circuit, w) ==
    LET fixed == circuit.below \ Commandable
        net   == Total(Draw, fixed) - Total(Feed, fixed)
    IN  IF CarriesTheSite(circuit) THEN env
        ELSE Share(env, circuit.below \cap Commandable,
                   PhysicalHeadroom(circuit.limit, net), w)

BoundCircuits(env, w) ==
    LET bounded[i \in 0 .. Len(Circuits)] ==
            IF i = 0 THEN env ELSE BoundCircuit(bounded[i - 1], Circuits[i], w)
    IN  bounded[Len(Circuits)]

(* Guard::verdict up to the snapshot: everything no conductor count changes. *)
Verdict(w) ==
    LET flows       == Flows(w)
        own         == Table([d \in Devices |-> NarrowAsset(d)])
        feedIn      == BoundFeedIn(own, flows, w)
        steuve      == BoundSteuve(feedIn, flows, w)
    IN  BoundCircuits(BoundConnection(steuve, flows, w), w)

-----------------------------------------------------------------------------
(* The bounds that depend on the conductors (Guard::apply_modes) *)

ModeOf(d, modes) ==
    IF d \in Evses THEN modes[d]
    ELSE IF Conductor[d] = 0 THEN "Three" ELSE "Single"

(* The devices the symmetry rule reaches that sit on one conductor; what is *)
(* spread over all three cancels in every difference below. *)
Unsymmetric(modes) ==
    {d \in Roofs \cup Batteries \cup Evses :
        Conductor[d] # 0 /\ ModeOf(d, modes) = "Single"}

Seen == [d \in Devices |-> IF d \in heard THEN power[d]
                          ELSE IF d \in Roofs THEN 0 ELSE Nameplate[d]]

UnbalanceCeiling(d, modes) ==
    LET others == Unsymmetric(modes) \ {d}
        on(c) == Total(Seen, {e \in others : Conductor[e] = c})
        lowest == Min({on(c) : c \in (1 .. 3) \ {Conductor[d]}})
    IN  Min({AtLeastZero(lowest + UnbalanceLimit - on(Conductor[d])), UnbalanceLimit})

(* Mutant: bounded by the mode it is in, not the one it is about to be in. *)
NarrowByReported(d, e, modes) ==
    IF d \in Switchable THEN AtMost(e, MaxPower(d, mode[d])) ELSE e

NarrowByMode(d, e, modes) ==
    IF d \in Switchable THEN AtMost(e, MaxPower(d, modes[d])) ELSE e

NarrowUnbalance(d, e, modes) ==
    IF d \in Commandable \cap Unsymmetric(modes)
    THEN AtMost(e, UnbalanceCeiling(d, modes)) ELSE e

ApplyModes(env, modes) ==
    Table([d \in Devices |->
        Resolve(NarrowUnbalance(d, NarrowByMode(d, env[d], modes), modes))])

(* The phase policy reads what the charge point could use in its best mode, *)
(* and may keep the mode it is in as long as it likes. *)
PolicyMay(e, m, ceiling, asked) ==
    \/ m = mode[e]
    \/ m = "Three"  /\ Min({Inflow(asked), Inflow(ceiling)}) >= MinPower(e, "Three")
    \/ m = "Single" /\ Min({Inflow(asked), Inflow(ceiling)}) < MinPower(e, "Three")

(* hems_device::realisable, of what the arbiter has clamped: a charge point *)
(* is off, or above its least; a hot-water tank is off, or on where its     *)
(* bound leaves it its whole rating and that is the nearer of the two.      *)
Realisable(d, p, m, e) ==
    LET asked     == Clamp(e, p)
        candidate == Min({asked, MaxPower(d, m), e.ceiling})
    IN  CASE d \in Evses -> IF candidate < MinPower(d, m) THEN 0 ELSE candidate
          [] d \in Tanks -> IF Takes[d] > 0 /\ e.ceiling >= Takes[d] /\ 2 * asked >= Takes[d]
                            THEN Takes[d] ELSE 0
          [] OTHER -> asked

(* A roof makes no more than the sun gives it, a heat pump whose thermostat *)
(* is off stays off; everything else takes what it is told. *)
Taken(d, told) ==
    CASE d \in Roofs -> Max({told, -sun})
      [] d \in Pumps /\ power[d] = 0 -> 0
      [] OTHER -> told

-----------------------------------------------------------------------------
(* Arbiter::tick: the guard, the conductors, the guard again, the command. *)
Tick(w) ==
    LET free == Verdict(w)
    IN  \E modes \in [Evses -> {"Single", "Three"}] :
            /\ \A e \in Evses :
                 /\ modes[e] \in ModesOf(e)
                 /\ PolicyMay(e, modes[e], free[e].ceiling,
                              IF e \in Commandable THEN w[e] ELSE 0)
            /\ mode' = modes
            /\ envelope' = ApplyModes(free, modes)
            /\ power' = [d \in Devices |->
                 IF d \in Commandable
                 THEN Taken(d, Realisable(d, w[d], ModeOf(d, modes), envelope'[d]))
                 ELSE power[d]]
            /\ changes' = 0
            /\ UNCHANGED <<rest, sun, heard, metered, store, limits>>

-----------------------------------------------------------------------------
(* What changes between two ticks *)

Trouble ==
    Cardinality(Devices \ heard) + (IF metered THEN 0 ELSE 1)
      + Cardinality({b \in Batteries : store[b] # "part"})

Change ==
    /\ changes < MaxChanges
    /\ changes' = changes + 1
    /\ UNCHANGED word

SunMoves(s) ==
    /\ Change
    /\ s # sun
    /\ sun' = s
    /\ power' = [d \in Devices |->
         IF d \notin Roofs THEN power[d]
         ELSE IF d \in Commandable THEN Max({envelope[d].floor, -s})
         ELSE -Min({s, Nameplate[d]})]
    /\ UNCHANGED <<rest, store, view, limits>>

HouseholdChanges(p) ==
    /\ Change
    /\ p # rest
    /\ rest' = p
    /\ UNCHANGED <<power, sun, store, view, limits>>

(* A thermostat calls for heat or stops, an appliance starts or stops. *)
Switches(d) ==
    /\ Change
    /\ power' = [power EXCEPT ![d] =
         IF @ # 0 THEN 0
         ELSE IF d \in Commandable THEN envelope[d].ceiling ELSE Nameplate[d]]
    /\ UNCHANGED <<rest, sun, store, view, limits>>

(* A car, or a tank's own thermostat, has had enough. *)
Stops(d) ==
    /\ Change
    /\ power[d] # 0
    /\ power' = [power EXCEPT ![d] = 0]
    /\ UNCHANGED <<rest, sun, store, view, limits>>

(* A full store stops taking, an empty one stops giving. *)
StoreReaches(b, level) ==
    /\ Change
    /\ level # store[b]
    /\ Trouble < MaxTrouble \/ store[b] # "part"
    /\ store' = [store EXCEPT ![b] = level]
    /\ power' = [power EXCEPT ![b] =
         CASE level = "full"  -> Min({@, 0})
           [] level = "empty" -> Max({@, 0})
           [] OTHER           -> @]
    /\ UNCHANGED <<rest, sun, view, limits>>

GoesSilent(d) ==
    /\ Change
    /\ d \in heard
    /\ Trouble < MaxTrouble
    /\ heard' = heard \ {d}
    /\ UNCHANGED <<house, metered, limits>>

IsHeardAgain(d) ==
    /\ Change
    /\ d \notin heard
    /\ heard' = heard \cup {d}
    /\ UNCHANGED <<house, metered, limits>>

MeterComesAndGoes ==
    /\ Change
    /\ Trouble < MaxTrouble \/ ~metered
    /\ metered' = ~metered
    /\ UNCHANGED <<house, heard, limits>>

OperatorSays(l) ==
    /\ Change
    /\ l # limits
    /\ limits' = l
    /\ UNCHANGED <<house, view>>

GuardInit ==
    /\ power = [d \in Devices |-> 0]
    /\ rest \in Rests
    /\ sun = 0
    /\ heard = Devices
    /\ metered = TRUE
    /\ store = [b \in Batteries |-> "part"]
    /\ limits = [steuve |-> None, feedIn |-> None]
    /\ mode \in {m \in [Evses -> {"Single", "Three"}] : \A e \in Evses : m[e] \in ModesOf(e)}
    /\ envelope = [d \in Devices |-> Ratings(d)]
    /\ changes = 0

GuardNext ==
    \/ \E w \in Wants : Tick(w)
    \/ \E s \in Sunlight : SunMoves(s)
    \/ \E p \in Rests : HouseholdChanges(p)
    \/ \E d \in Pumps \cup Of("load") \cup (Tanks \ Commandable) : Switches(d)
    \/ \E d \in Evses \cup (Tanks \cap Commandable) : Stops(d)
    \/ \E b \in Batteries, l \in {"empty", "part", "full"} : StoreReaches(b, l)
    \/ \E d \in Devices : GoesSilent(d) \/ IsHeardAgain(d)
    \/ MeterComesAndGoes
    \/ \E l \in Limits : OperatorSays(l)

GuardSpec == GuardInit /\ [][GuardNext]_guardVars

-----------------------------------------------------------------------------
(* Properties *)

Envelope == [floor : Int, ceiling : Int]

(* Every device has a bound, none of them empty once resolved; no store, no *)
(* charge point and no heat pump is bounded outside its ratings.            *)
GuardTypeOK ==
    /\ power \in [Devices -> Int] /\ rest \in Nat /\ sun \in Nat
    /\ heard \subseteq Devices /\ metered \in BOOLEAN
    /\ store \in [Batteries -> {"empty", "part", "full"}]
    /\ limits.steuve \in Nat \cup {None} /\ limits.feedIn \in Nat \cup {None}
    /\ mode \in [Evses -> {"Single", "Three"}]
    /\ \A e \in Evses : mode[e] \in ModesOf(e)
    /\ envelope \in [Devices -> Envelope]
    /\ \A d \in Devices : /\ Ratings(d).floor <= envelope[d].floor
                          /\ envelope[d].floor <= envelope[d].ceiling
                          /\ envelope[d].ceiling <= Ratings(d).ceiling
    /\ changes \in 0 .. MaxChanges

(* What a device may draw until the next tick: up to its ceiling where the  *)
(* guard can bound it, what it draws anyway where it cannot; a store that   *)
(* was told to discharge discharges.                                        *)
MayDraw ==
    [d \in Devices |->
        IF d \notin Commandable \/ power[d] < 0 THEN Inflow(power[d])
        ELSE Inflow(envelope[d].ceiling)]

Drawn == [d \in Devices |-> Inflow(power[d])]
Fed   == [d \in Devices |-> Outflow(power[d])]

Production == Total(Fed, Devices)
TrueOther  == rest + Total(Drawn, Devices \ Steuve)

KeptToZero(S) == \A d \in S \cap Commandable : envelope[d].ceiling <= 0

SteuveWithinLimit ==
    \/ limits.steuve = None
    \/ KeptToZero(Steuve)
    \/ Total(MayDraw, Steuve) <= limits.steuve + AtLeastZero(Production - TrueOther)

NetIntake(S) == Total(MayDraw, S) - Total(Fed, S)

Ticked == changes' = 0

(* No load escapes both the devices' meters and the grid's, and nothing     *)
(* outside par. 14a is told in the same tick to produce less than the guard *)
(* has just counted on, or to draw more.                                    *)
RestIsSeen    == metered \/ rest = 0
RoofsKeepUp   == \A d \in Devices \ Steuve : power'[d] <= power[d] \/ power[d] >= 0
OthersKeepUp  == \A d \in Devices \ Steuve : power'[d] <= power[d]

(* Every device that can be commanded to draw is heard; no store outside    *)
(* par. 14a discharges: bound_steuve would count that twice.                *)
CommandedAreHeard == Commandable \ Roofs \subseteq heard
NoneIsLentTwice   == \A d \in (Commandable \ Roofs) \ Steuve : power[d] >= 0

(* par. 14a: after a tick the controllable devices cannot, between them,    *)
(* draw from the grid more than the operator's ceiling - unless all that    *)
(* can be turned down is down.                                              *)
OperatorsLimitHolds ==
    [][Ticked /\ RestIsSeen /\ OthersKeepUp /\ CommandedAreHeard /\ NoneIsLentTwice
        => SteuveWithinLimit']_guardVars

(* The same with devices that have fallen silent: the nameplate the guard   *)
(* assumes for them must keep the budget small, never make it larger.       *)
SilenceIsSafe ==
    [][Ticked /\ RestIsSeen /\ OthersKeepUp => SteuveWithinLimit']_guardVars

(* A sub-distribution fuse carries whatever the devices behind it may draw, *)
(* and so does the connection - not counting there what a par. 14a device   *)
(* that cannot be commanded draws: bound_connection leaves it out, and the  *)
(* nameplate of a silent one is taken from what the meter says of the rest. *)
(* A fuse that carries the whole site has the connection's bound and no     *)
(* other, whatever such a device draws through it.                          *)
FusesHold ==
    [][Ticked =>
        /\ \A i \in DOMAIN Circuits :
             LET below == Circuits[i].below IN
             \/ CarriesTheSite(Circuits[i])
             \/ KeptToZero(below)'
             \/ NetIntake(below)' <= Circuits[i].limit
        /\ RestIsSeen /\ RoofsKeepUp /\ Steuve \subseteq heard
             => \/ KeptToZero(Devices)'
                \/ (NetIntake(Devices \ (Steuve \ Commandable)) + rest)'
                      <= ImportCeiling]_guardVars

(* The house never feeds in more than the cap beyond what it was measured   *)
(* to consume, unless everything that can be curtailed is.  What feeds in   *)
(* and cannot be commanded is heard and not under par. 14a, or the guard    *)
(* leaves it out.                                                           *)
Consumption == rest + Total(Drawn, Devices)
FeedInCap == Min({ExportCeiling, StatutoryCap, limits.feedIn} \ {None})
MayFeed == [d \in Commandable |-> Outflow(envelope[d].floor)]
FeedersAreHeard ==
    \A d \in Devices \ Commandable : power[d] < 0 => d \in heard \ Steuve
FeedInHolds ==
    [][Ticked /\ FeedersAreHeard =>
        Total(MayFeed', Commandable)
          <= AtLeastZero(FeedInCap + Consumption
                           - Total(Fed, Devices \ Commandable))]_guardVars

(* The bounds of the second pass are those of the conductors a charge point *)
(* is about to be on.  VDE-AR-N 4100: a device on one conductor that alone  *)
(* draws more than a tick ago stays within 4.6 kVA of the other conductors  *)
(* (each is bounded against what the others were measured to do, so that    *)
(* two that move in the same tick are not covered); and a charge point told *)
(* to go to three is told, in the same tick, a current three can carry.     *)
OnConductor(c) ==
    Total(power, {d \in Unsymmetric(mode) : Conductor[d] = c})
Spread(c) == Max({OnConductor(c) - OnConductor(b) : b \in 1 .. 3})
ConductorsHold ==
    [][Ticked =>
        /\ \A d \in Commandable :
             /\ d \in Unsymmetric(mode)' /\ power'[d] > Inflow(power[d])
             /\ \A e \in Unsymmetric(mode)' \ {d} : e \in heard /\ power'[e] = power[e]
             => Spread(Conductor[d])' <= UnbalanceLimit
        /\ \A e \in Evses : mode[e] = "Single" /\ mode'[e] = "Three"
             => power'[e] >= MinPower(e, "Three")]_guardVars
=============================================================================
