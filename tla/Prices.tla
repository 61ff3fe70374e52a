-------------------------------- MODULE Prices --------------------------------
(***************************************************************************)
(* tariffd, which asks the price sources for the fleet, and the curve a    *)
(* box keeps of what it answered:                                          *)
(*                                                                         *)
(*   tariffd main.rs     fetch_loop                                        *)
(*   tariffd poller.rs   Poller::poll, backoff                             *)
(*   tariffd api.rs      prices_handler                                    *)
(*   hems-tariff cache.rs  PriceCache::merge, prune, superseded_by         *)
(*   hemsd runtime/planner.rs  refresh, fleet.rs                           *)
(*                                                                         *)
(* Time is counted in units of which a quarter hour has PriceLen; deadlines*)
(* are kept as the time left to them and quarter hours by their distance   *)
(* from the running one, so that no behaviour ends at a bound of the       *)
(* clock.  The clock is not set.  A source is named by its trust, the      *)
(* order in which a round asks too.  No name is one of Planner's, beside   *)
(* which the proofs take this module: a round of tariffd's is an asking,   *)
(* and its clock and its restarts are not the box's.                       *)
(***************************************************************************)
EXTENDS Integers, FiniteSetsExt

CONSTANTS
    Sources,      \* the configured sources
    Minutes,      \* the resolutions each one publishes at
    Ahead,        \* how many quarter hours ahead is published
    PriceLen,     \* how many units a quarter hour has
    Interval, MaxBackoff, \* poll_interval_s, max_backoff_s
    Doublings,    \* 16 in the code: failures counted no further
    Retention,
    AskingMost,   \* bound: how long a round lasts, by its timeouts
    MaxResets,    \* bound: restarts of tariffd
    Nothing       \* no price, and no round

Asking == [left : SUBSET Sources, age : 0 .. AskingMost]

ASSUME PricesAssumption ==
    /\ Sources \subseteq Nat /\ Sources # {} /\ IsFiniteSet(Sources)
    /\ Minutes \in [Sources -> SUBSET Nat]
    /\ {Ahead, Doublings, AskingMost, MaxResets} \subseteq Nat
    /\ PriceLen \in Nat \ {0} /\ Interval \in Nat \ {0} /\ MaxBackoff \in Nat \ {0}
    /\ Retention \in Nat /\ Ahead * PriceLen + AskingMost <= Retention
    /\ Nothing \notin [source : Nat, minutes : Nat] \cup Asking

(* The running quarter hour and those ahead: nobody asks for one before.   *)
Slots   == 0 .. Ahead
Reading == [source : Sources, minutes : UNION {Minutes[s] : s \in Sources}]

VARIABLES
    elapsed,   \* how far the quarter hour has run
    wait,      \* the time to each source's next_attempt
    failures,  \* of each source, in a row
    asking,    \* the round running: the sources left to ask, and its age
    sleep,     \* what is left of the loop's sleep
    cache,     \* tariffd's: where each quarter hour's price is from
    kept,      \* the quarter hours the box has a price for
    seen,      \* history: what each quarter hour was published by since the start
    overtaken, \* history: quarter hours whose source has published another price since
    restarted, \* history: tariffd has restarted since the box was answered
    reliable,  \* environment: the sources that answer for sure, with all of Slots
    resets     \* how often tariffd has restarted

pricesVars == <<elapsed, wait, failures, asking, sleep, cache, kept, seen, overtaken,
                restarted, reliable, resets>>

schedule == <<wait, failures>>
history  == <<seen, overtaken>>
box      == <<kept, restarted>>

Priced == {k \in Slots : cache[k] # Nothing}

-----------------------------------------------------------------------------
(* The cache *)

(* Mutant: the last write wins. *)
SupersededByAny(old, new) == TRUE

(* Observed::superseded_by: new is the later observation. *)
SupersededBy(old, new) ==
    \/ new.source > old.source
    \/ new.source = old.source /\ new.minutes <= old.minutes

Taken(k, new) == cache[k] = Nothing \/ SupersededBy(cache[k], new)

(* Mutant: a curve takes the place of the one before it. *)
MergeWhole(new, slots) ==
    /\ cache' = [k \in Slots |-> IF k \in slots /\ Taken(k, new) THEN new ELSE Nothing]
    /\ seen' = [k \in Slots |-> IF k \in slots THEN seen[k] \cup {new} ELSE seen[k]]
    /\ overtaken' = overtaken \ slots

(* PriceCache::merge, of what a source published for some quarter hours.   *)
Merge(new, slots) ==
    /\ cache' = [k \in Slots |-> IF k \in slots /\ Taken(k, new) THEN new ELSE cache[k]]
    /\ seen' = [k \in Slots |-> IF k \in slots THEN seen[k] \cup {new} ELSE seen[k]]
    /\ overtaken' = {k \in overtaken : k \notin slots \/ ~Taken(k, new)}
                    \cup {k \in slots : cache[k] = new /\ ~Taken(k, new)}

(* PriceCache::prune, as of the instant the round began with. *)
Retains(k) == k * PriceLen - elapsed + asking.age <= Retention

-----------------------------------------------------------------------------
(* The poller *)

(* Mutant: the doubling has no cap. *)
BackoffUncapped(f) == Interval * 2^f

Backoff(f) == IF f = 0 THEN Interval ELSE Min({Interval * 2^f, MaxBackoff})

Due == {s \in Sources : wait[s] <= 0}

AskingBegins ==
    /\ asking = Nothing /\ sleep = 0
    /\ asking' = [left |-> Due, age |-> 0]
    /\ UNCHANGED <<elapsed, schedule, sleep, cache, history, box, reliable, resets>>

(* next_attempt counts from the instant the round began with. *)
Scheduled(s, f) ==
    /\ failures' = [failures EXCEPT ![s] = f]
    /\ wait' = [wait EXCEPT ![s] = Backoff(f) - asking.age]

Answered(s) ==
    /\ \E m \in Minutes[s], slots \in SUBSET Slots :
          /\ s \in reliable => slots = Slots
          /\ Merge([source |-> s, minutes |-> m], slots)
    /\ Scheduled(s, 0)

Failed(s) ==
    /\ s \notin reliable
    /\ Scheduled(s, Min({failures[s] + 1, Doublings}))
    /\ UNCHANGED <<cache, history>>

(* One source after another; what one does is nothing to the others. *)
Fetch ==
    /\ asking # Nothing
    /\ \E s \in asking.left :
          /\ \A t \in asking.left : t <= s
          /\ Answered(s) \/ Failed(s)
          /\ asking' = [asking EXCEPT !.left = @ \ {s}]
    /\ UNCHANGED <<elapsed, sleep, box, reliable, resets>>

(* fetch_loop: until the next source is due, counted from the beginning of *)
(* the round and slept from its end.                                       *)
NextDue == Max({Min({wait[s] : s \in Sources}) + asking.age, 1})

AskingEnds ==
    /\ asking # Nothing /\ asking.left = {}
    /\ cache' = [k \in Slots |-> IF Retains(k) THEN cache[k] ELSE Nothing]
    /\ sleep' = NextDue
    /\ asking' = Nothing
    /\ UNCHANGED <<elapsed, schedule, history, box, reliable, resets>>

-----------------------------------------------------------------------------
(* The box, time and faults *)

(* Mutant: an answer with a gap in it is none. *)
BoxAsksForAll ==
    /\ asking = Nothing
    /\ kept' = IF Priced = Slots THEN Priced ELSE kept
    /\ restarted' = FALSE
    /\ UNCHANGED <<elapsed, schedule, asking, sleep, cache, history, reliable, resets>>

(* prices_handler answers with what the cache has, which may be nothing,   *)
(* and refresh keeps that for what it had.  A request that fails, or waits *)
(* for too long for a round that has the cache locked, changes nothing.    *)
BoxAsks ==
    /\ asking = Nothing
    /\ kept' = Priced
    /\ restarted' = FALSE
    /\ UNCHANGED <<elapsed, schedule, asking, sleep, cache, history, reliable, resets>>

(* A quarter hour is over: every other one is one nearer. *)
Shifted(f, empty) == [k \in Slots |-> IF k < Ahead THEN f[k + 1] ELSE empty]
Nearer(slots)     == {k \in Slots : k + 1 \in slots}

(* A task that can go on does, and a round has a last instant. *)
TimePasses ==
    /\ IF asking = Nothing
       THEN sleep > 0 /\ sleep' = sleep - 1 /\ UNCHANGED asking
       ELSE /\ asking.left # {} /\ asking.age < AskingMost
            /\ asking' = [asking EXCEPT !.age = @ + 1] /\ UNCHANGED sleep
    /\ wait' = [s \in Sources |-> wait[s] - 1]
    /\ elapsed' = (elapsed + 1) % PriceLen
    /\ IF elapsed' = 0
       THEN /\ cache' = Shifted(cache, Nothing) /\ seen' = Shifted(seen, {})
            /\ overtaken' = Nearer(overtaken) /\ kept' = Nearer(kept)
       ELSE UNCHANGED <<cache, history, kept>>
    /\ UNCHANGED <<failures, restarted, reliable, resets>>

SourceChanges ==
    /\ \E s \in Sources : reliable' = (reliable \ {s}) \cup ({s} \ reliable)
    /\ UNCHANGED <<elapsed, schedule, asking, sleep, cache, history, box, resets>>

(* tariffd keeps nothing: every source is due at once. *)
ServiceRestarts ==
    /\ resets < MaxResets /\ resets' = resets + 1
    /\ wait' = [s \in Sources |-> 0] /\ failures' = [s \in Sources |-> 0]
    /\ asking' = Nothing /\ sleep' = 0
    /\ cache' = [k \in Slots |-> Nothing] /\ seen' = [k \in Slots |-> {}] /\ overtaken' = {}
    /\ restarted' = TRUE
    /\ UNCHANGED <<elapsed, kept, reliable>>

PricesInit ==
    /\ elapsed = 0 /\ asking = Nothing /\ sleep = 0
    /\ wait = [s \in Sources |-> 0] /\ failures = [s \in Sources |-> 0]
    /\ cache = [k \in Slots |-> Nothing] /\ seen = [k \in Slots |-> {}] /\ overtaken = {}
    /\ kept = {} /\ restarted = FALSE
    /\ reliable \in SUBSET Sources /\ resets = 0

Poll == AskingBegins \/ Fetch \/ AskingEnds

PricesNext == Poll \/ BoxAsks \/ TimePasses \/ SourceChanges \/ ServiceRestarts

(* Every request has a timeout and every sleep an end; the box asks on a   *)
(* timer and, between rounds, finds the lock free.  No source answers by   *)
(* fairness.                                                               *)
PricesSpec ==
    /\ PricesInit /\ [][PricesNext]_pricesVars
    /\ WF_pricesVars(Poll) /\ WF_pricesVars(TimePasses) /\ SF_pricesVars(BoxAsks)

-----------------------------------------------------------------------------
(* Properties *)

(* What is due when is in InItsTurn. *)
PricesTypeOK ==
    /\ elapsed \in 0 .. PriceLen - 1 /\ failures \in [Sources -> 0 .. Doublings]
    /\ asking = Nothing \/ asking \in Asking
    /\ cache \in [Slots -> Reading \cup {Nothing}] /\ seen \in [Slots -> SUBSET Reading]
    /\ kept \subseteq Slots /\ overtaken \subseteq Slots /\ restarted \in BOOLEAN
    /\ reliable \in SUBSET Sources /\ resets \in 0 .. MaxResets

(* Whatever order the sources answer in, a quarter hour has the price of    *)
(* the most trusted one that published it, at the finest it published, and  *)
(* the last it said of it.                                                  *)
TheBestSeen ==
    \A k \in Slots :
        /\ seen[k] # {} => cache[k] \in seen[k] /\ k \notin overtaken
        /\ \A o \in seen[k] :
              \/ o.source < cache[k].source
              \/ o.source = cache[k].source /\ o.minutes >= cache[k].minutes

(* However often the others fail, and however slowly, no source is asked    *)
(* later than its turn by more than the round in which it became due and    *)
(* the round that asks it, nor put off for longer than the backoff.         *)
InItsTurn ==
    \A s \in Sources : wait[s] \in -2 * AskingMost .. Max({Interval, MaxBackoff})

(* As long as tariffd is not restarted, what the box has a price for        *)
(* tariffd has one for too, so that no answer takes a quarter hour from it. *)
NothingIsUnlearned == ~restarted => kept \subseteq Priced

(* A source that answers for good is enough, however often it failed        *)
(* before and whatever was lost: the box has a price for the running        *)
(* quarter hour again and again.                                            *)
PricedAgain == \A s \in Sources : <>[](s \in reliable) => []<>(0 \in kept)

=============================================================================
