----------------------------- MODULE ReportLane -----------------------------
(***************************************************************************)
(* The day reports, from the midnight that closes a day to the fleet's     *)
(* summary:                                                                *)
(*                                                                         *)
(*   hemsd runtime/control.rs   builds a finished day and queues it        *)
(*   hemsd store.rs             OUTBOUND, OUTBOUND_BY_EVENT, OUTBOUND_OWED *)
(*   hemsd runtime/outbox.rs    signs each report with the round's instant *)
(*                              and tells a refusal from an outage         *)
(*   obsd api.rs, store.rs      verifies, and replaces the day's document  *)
(*                                                                         *)
(* A document is the how-manieth the box built of its day.                 *)
(***************************************************************************)
EXTENDS Integers, FiniteSets

CONSTANTS Refused,     \* days whose document obsd reads and will not have
          Down,        \* the box is off
          NoRow,       \* no report was queued of a day
          LastTime,    \* bound: the last instant of the run
          DayLength,   \* the instants of a day
          Tolerance,   \* DEFAULT_TOLERANCE of a signature's timestamp
          Keep,        \* obsd's keep_days
          Batch,       \* settings.histd.batch
          MaxSteps,    \* bound: how often the box's clock is set
          MaxLost      \* bound: calls whose outcome the box never learns

ASSUME ReportLaneAssumption ==
  /\ LastTime \in Nat
  /\ DayLength \in Nat \ {0} /\ Keep \in Nat \ {0} /\ Batch \in Nat \ {0}
  /\ Tolerance \in Nat
  /\ MaxSteps \in Nat /\ MaxLost \in Nat
  /\ Down \notin Int

Times == 0 .. LastTime
LocalDay(t) == t \div DayLength
Days == 0 .. LocalDay(LastTime)

Fate == {"owed", "sent", "abandoned"}
Row == [id : Nat, version : Nat, created : Times, fate : Fate]
Report == [day : Days, id : Nat, version : Nat, created : Times]
Request == [day : Days, version : Nat, signed : Times]

ASSUME NoRowAssumption == NoRow \notin Row

Stage == {"idle", "before", "posting", "taken", "refused", "marking"}

VARIABLES
  clock,       \* the box's wall clock
  fleetClock,  \* obsd's wall clock
  today,       \* carried.local_day, or Down
  outbound,    \* OUTBOUND: the row of each day's report
  owed,        \* OUTBOUND_OWED
  outbox,      \* where the round is, the instant it took at its start and
               \* obsd's clock then (which the box never learns), what is
               \* left of its snapshot, and the days the fleet took
  strays,      \* requests nobody waits for and the fleet may still handle
  siteDay,     \* obsd's site_day: the document it holds of each day, or 0
  steps,       \* how often the box's clock has been set
  lost         \* how many calls came to nothing the box knows of

vars == <<clock, fleetClock, today, outbound, owed, outbox, strays, siteDay, steps, lost>>

clocks == <<clock, fleetClock, steps>>
tables == <<outbound, owed>>

Idle == [at |-> "idle", now |-> 0, since |-> 0, queue |-> {}, sent |-> {}]

Init == /\ clock = 0
        /\ fleetClock = 0
        /\ today = LocalDay(clock)
        /\ outbound = [d \in Days |-> NoRow]
        /\ owed = {}
        /\ outbox = Idle
        /\ strays = {}
        /\ siteDay = [d \in Days |-> 0]
        /\ steps = 0
        /\ lost = 0
-----------------------------------------------------------------------------
(* The clocks *)

(* A running box ticks every second, so no midnight passes unnoticed.  A   *)
(* round lasts as long as its requests do, one after another.              *)
Advance == /\ clock < LastTime /\ fleetClock < LastTime
           /\ today \in {Down, LocalDay(clock)}
           /\ clock' = clock + 1
           /\ fleetClock' = fleetClock + 1
           /\ UNCHANGED <<today, tables, outbox, strays, siteDay, steps, lost>>

(* The box's clock is corrected, in either direction. *)
SetClock(c) == /\ steps < MaxSteps
               /\ clock' = c
               /\ steps' = steps + 1
               /\ UNCHANGED <<fleetClock, today, tables, outbox, strays, siteDay, lost>>
-----------------------------------------------------------------------------
(* The control loop *)

(* queue_event: a row of its own for a day never reported, and the same    *)
(* row, owed again, for one that was.  No row is ever deleted, so the      *)
(* counter in META is the number of rows.                                  *)
QueueEvent(d) ==
  LET row == outbound[d]
      held == Cardinality({e \in Days : outbound[e] # NoRow})
  IN  /\ outbound' = [outbound EXCEPT ![d] =
           [id      |-> IF row = NoRow THEN held + 1 ELSE row.id,
            version |-> IF row = NoRow THEN 1 ELSE row.version + 1,
            created |-> clock,
            fate    |-> "owed"]]
      /\ owed' = owed \cup {d}

(* The local day is another one than at the last quarter hour.  The day    *)
(* that was is over for the box whatever becomes of its report: there may  *)
(* be no register to build it from, and the store may refuse the row.      *)
CloseTheDay(queued) == /\ today \notin {Down, LocalDay(clock)}
                       /\ today' = LocalDay(clock)
                       /\ IF queued THEN QueueEvent(today) ELSE UNCHANGED tables
                       /\ UNCHANGED <<clocks, outbox, strays, siteDay, lost>>
-----------------------------------------------------------------------------
(* The outbox *)

Before(r, s) == \/ r.created < s.created
                \/ r.created = s.created /\ r.id < s.id

PendingOutbound ==
  LET backlog == {d \in owed : outbound[d] # NoRow}
      Older(d) == {e \in backlog : Before(outbound[e], outbound[d])}
  IN  {[day |-> d, id |-> outbound[d].id, version |-> outbound[d].version,
        created |-> outbound[d].created] : d \in {e \in backlog : Cardinality(Older(e)) < Batch}}

First(r) == /\ r \in outbox.queue
            /\ \A s \in outbox.queue \ {r} : Before(r, s)

(* The end of a round: what the fleet took is marked, if it took anything. *)
EndRound(sent) == IF sent = {} THEN Idle
                  ELSE [outbox EXCEPT !.at = "marking", !.queue = {}, !.sent = sent]

(* The next of the snapshot, or the end of it. *)
Proceed(r, sent) ==
  IF outbox.queue = {r} THEN EndRound(sent)
  ELSE [outbox EXCEPT !.at = "posting", !.queue = @ \ {r}, !.sent = sent]

(* One instant is read for the whole round, and the control events and the *)
(* registers are drained first.                                            *)
BeginRound == /\ outbox.at = "idle" /\ today # Down
              /\ outbox' = [Idle EXCEPT !.at = "before", !.now = clock, !.since = fleetClock]
              /\ UNCHANGED <<clocks, today, tables, strays, siteDay, lost>>

ReadBacklog == /\ outbox.at = "before"
               /\ outbox' = IF PendingOutbound = {} THEN Idle
                            ELSE [outbox EXCEPT !.at = "posting", !.queue = PendingOutbound]
               /\ UNCHANGED <<clocks, today, tables, strays, siteDay, lost>>

AnswerTaken(r) == /\ outbox.at = "taken" /\ First(r)
                  /\ outbox' = Proceed(r, outbox.sent \cup {r.day})
                  /\ UNCHANGED <<clocks, today, tables, strays, siteDay, lost>>

(* Mutant: a refused report is tried for ever. *)
AnswerRefusedWaits(r) == /\ outbox.at = "refused" /\ First(r)
                         /\ outbox' = EndRound(outbox.sent)
                         /\ UNCHANGED <<clocks, today, tables, strays, siteDay, lost>>

(* abandon_event closes the row, whatever document it holds by now. *)
AnswerRefused(r) == /\ outbox.at = "refused" /\ First(r)
                    /\ outbound' = [outbound EXCEPT ![r.day].fate = "abandoned"]
                    /\ owed' = owed \ {r.day}
                    /\ outbox' = Proceed(r, outbox.sent)
                    /\ UNCHANGED <<clocks, today, strays, siteDay, lost>>

(* No answer, a 5xx or a 429: the rest waits for the next round. *)
PostFails == /\ outbox.at = "posting"
             /\ outbox' = EndRound(outbox.sent)
             /\ UNCHANGED <<clocks, today, tables, strays, siteDay, lost>>

PostStraggles(r) ==
  /\ outbox.at = "posting" /\ First(r)
  /\ lost < MaxLost
  /\ strays' = strays \cup {[day |-> r.day, version |-> r.version, signed |-> outbox.now]}
  /\ outbox' = EndRound(outbox.sent)
  /\ lost' = lost + 1
  /\ UNCHANGED <<clocks, today, tables, siteDay>>

AnswerLost == /\ outbox.at \in {"taken", "refused"}
              /\ lost < MaxLost
              /\ outbox' = EndRound(outbox.sent)
              /\ lost' = lost + 1
              /\ UNCHANGED <<clocks, today, tables, strays, siteDay>>

(* close_outbound over the identifiers of what was sent. *)
MarkSent == /\ outbox.at = "marking"
            /\ outbound' = [d \in Days |-> IF d \in outbox.sent
                                           THEN [outbound[d] EXCEPT !.fate = "sent"]
                                           ELSE outbound[d]]
            /\ owed' = owed \ outbox.sent
            /\ outbox' = Idle
            /\ UNCHANGED <<clocks, today, strays, siteDay, lost>>

(* mark_attempted, abandon_event or mark_sent cannot write: the round ends *)
(* there, and what the fleet took before is not marked either.             *)
StoreFails == /\ outbox.at \in {"posting", "refused", "marking"}
              /\ lost < MaxLost
              /\ outbox' = Idle
              /\ lost' = lost + 1
              /\ UNCHANGED <<clocks, today, tables, strays, siteDay>>

(* The process dies.  A request that was out may stay out. *)
Crash == /\ today # Down
         /\ \/ outbox.at = "idle" /\ UNCHANGED <<lost, strays>>
            \/ /\ outbox.at # "idle" /\ lost < MaxLost
               /\ lost' = lost + 1
               /\ \/ UNCHANGED strays
                  \/ \E r \in outbox.queue :
                       /\ outbox.at = "posting" /\ First(r)
                       /\ strays' = strays \cup
                            {[day |-> r.day, version |-> r.version, signed |-> outbox.now]}
         /\ today' = Down
         /\ outbox' = Idle
         /\ UNCHANGED <<clocks, tables, siteDay>>

(* carried_from: the box wakes up in a day, and no day it slept through    *)
(* was ever today.                                                         *)
Start == /\ today = Down
         /\ today' = LocalDay(clock)
         /\ UNCHANGED <<clocks, tables, outbox, strays, siteDay, lost>>
-----------------------------------------------------------------------------
(* obsd *)

(* Mutant: the tolerance itself is too old. *)
VerifiedStrictly(signed) == /\ fleetClock - signed < Tolerance
                            /\ signed - fleetClock < Tolerance

(* The timestamp a signature carries, against obsd's own clock. *)
Verified(signed) == /\ fleetClock - signed <= Tolerance
                    /\ signed - fleetClock <= Tolerance

ReportTaken(r) == /\ outbox.at = "posting" /\ First(r)
                  /\ Verified(outbox.now) /\ r.day \notin Refused
                  /\ siteDay' = [siteDay EXCEPT ![r.day] = r.version]
                  /\ outbox' = [outbox EXCEPT !.at = "taken"]
                  /\ UNCHANGED <<clocks, today, tables, strays, lost>>

(* A 401 for the timestamp, or a 4xx for the document. *)
ReportRefused(r) == /\ outbox.at = "posting" /\ First(r)
                    /\ ~Verified(outbox.now) \/ r.day \in Refused
                    /\ outbox' = [outbox EXCEPT !.at = "refused"]
                    /\ UNCHANGED <<clocks, today, tables, strays, siteDay, lost>>

StrayHandled(q) == /\ siteDay' = IF Verified(q.signed) /\ q.day \notin Refused
                                 THEN [siteDay EXCEPT ![q.day] = q.version]
                                 ELSE siteDay
                   /\ strays' = strays \ {q}
                   /\ UNCHANGED <<clocks, today, tables, outbox, lost>>

StrayVanishes(q) == /\ strays' = strays \ {q}
                    /\ UNCHANGED <<clocks, today, tables, outbox, siteDay, lost>>

(* The window a summary is computed over, and the sweep to it. *)
OutOfWindow(d) == d < LocalDay(fleetClock) - Keep

(* Mutant: the sweep takes the oldest day of the window. *)
FleetPrunesADayEarly ==
  /\ siteDay' = [d \in Days |-> IF OutOfWindow(d - 1) THEN 0 ELSE siteDay[d]]
  /\ UNCHANGED <<clocks, today, tables, outbox, strays, lost>>

FleetPrunes == /\ siteDay' = [d \in Days |-> IF OutOfWindow(d) THEN 0 ELSE siteDay[d]]
               /\ UNCHANGED <<clocks, today, tables, outbox, strays, lost>>
-----------------------------------------------------------------------------
Next == \/ Advance
        \/ \E c \in Times : SetClock(c)
        \/ \E queued \in BOOLEAN : CloseTheDay(queued)
        \/ BeginRound
        \/ ReadBacklog
        \/ \E r \in outbox.queue : AnswerTaken(r) \/ AnswerRefused(r) \/ PostStraggles(r)
                                   \/ ReportTaken(r) \/ ReportRefused(r)
        \/ PostFails
        \/ AnswerLost
        \/ MarkSent
        \/ StoreFails
        \/ Crash
        \/ Start
        \/ \E q \in strays : StrayHandled(q) \/ StrayVanishes(q)
        \/ FleetPrunes

Spec == Init /\ [][Next]_vars

(* The outbox is a timer that always fires again and every request has a   *)
(* time limit; a household's WAN that fails a call does not fail every     *)
(* call, and somebody plugs the box in again.                              *)
Fairness == /\ WF_vars(Start)
            /\ WF_vars(PostFails)
            /\ SF_vars(BeginRound)
            /\ SF_vars(ReadBacklog)
            /\ SF_vars(\E r \in outbox.queue : ReportTaken(r) \/ ReportRefused(r))
            /\ SF_vars(\E r \in outbox.queue : AnswerTaken(r) \/ AnswerRefused(r))
            /\ SF_vars(MarkSent)

FairSpec == Spec /\ Fairness
-----------------------------------------------------------------------------
TypeOK == /\ clock \in Times
          /\ fleetClock \in Times
          /\ today \in Days \cup {Down}
          /\ outbound \in [Days -> Row \cup {NoRow}]
          /\ owed \subseteq Days
          /\ outbox \in [at : Stage, now : Times, since : Times,
                         queue : SUBSET Report, sent : SUBSET Days]
          /\ strays \subseteq Request
          /\ siteDay \in [Days -> Nat]
          /\ steps \in Nat
          /\ lost \in Nat

Has(d, fate) == outbound[d] # NoRow /\ outbound[d].fate = fate

(* A report is in the backlog exactly while its row is open: queue_event,  *)
(* mark_sent and abandon_event keep OUTBOUND_OWED in step with OUTBOUND,   *)
(* and a day has one row whatever is queued of it.                         *)
TablesAgree == /\ owed = {d \in Days : Has(d, "owed")}
               /\ \A d, e \in Days : outbound[d] # NoRow /\ outbound[e] # NoRow /\ d # e
                                       => outbound[d].id # outbound[e].id

(* A report marked as sent is one obsd holds, until its window closes. *)
SentIsHeld == \A d \in Days : Has(d, "sent") => siteDay[d] > 0 \/ OutOfWindow(d)

(* How long the round has lasted, and how far obsd's clock was ahead of    *)
(* the box's when it began.                                                *)
RoundAge == fleetClock - outbox.since
Skew == outbox.since - outbox.now

(* The round's one instant no longer passes for the time: it has outlasted *)
(* the tolerance, or what the clocks differed by had used some of that up, *)
(* or all of it, before the round began.                                   *)
Overlong == Skew + RoundAge > Tolerance \/ -Skew > Tolerance

Unverifiable == {d \in Days : Overlong /\ \E r \in outbox.queue : r.day = d}

(* The box gives up only on what obsd has read and will not have, and on   *)
(* what it posts in a round that has gone on for longer than the tolerance *)
(* (less what the clocks already differed by): a refusal heard late, lost  *)
(* or crossed with a restart, and a failed write, give up nothing more.    *)
GivenUpIsReadOrLate ==
  [][\A d \in Days : Has(d, "owed") /\ Has(d, "abandoned")'
                       => d \in Refused \cup Unverifiable]_vars

(* A fleet that is down, and a box that is, cost a delay rather than a     *)
(* day: what was queued reaches obsd, unless it is read and refused, is    *)
(* older than anything obsd keeps, or comes up in a round too long for its *)
(* one signature instant.                                                  *)
EventuallyReported ==
  \A d \in Days \ Refused :
    d \in owed ~> siteDay[d] > 0 \/ OutOfWindow(d) \/ d \in Unverifiable

(* The lane is an at-least-once leg, on which nothing goes unsent but what *)
(* obsd read and refused, what is out of its window, and what was held too *)
(* long in a round.                                                        *)
Due == {d \in Days : d \in Refused \/ OutOfWindow(d) \/ d \in Unverifiable}

Leg == INSTANCE AtLeastOnce
         WITH Item  <- Days,
              taken <- {d \in Days : siteDay[d] > 0},
              due   <- Due

(* Every step of the lane is a step of the leg: an item stays owed until   *)
(* the fleet has it or its retention is over, across loss and crash.       *)
ImplementsAtLeastOnce == Leg!Spec
=============================================================================
