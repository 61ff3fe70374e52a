----------------------------- MODULE EventLane -----------------------------
(***************************************************************************)
(* The control events, from the tick that releases a reduction to the      *)
(* table a Nachweis is read from:                                          *)
(*                                                                         *)
(*   hemsd runtime/control.rs   writes an event as it closes, then prunes  *)
(*   hemsd store.rs             EVENTS, EVENTS_BY_RECEIVED, EVENTS_OWED    *)
(*   hemsd runtime/outbox.rs    posts one event a request, oldest first,   *)
(*                              and stops the round at the first failure   *)
(*   histd store.rs             inserts a row per POST                     *)
(*                                                                         *)
(* An event never changes once it is written and identifiers are never     *)
(* handed out twice, so the document is kept apart from the table that     *)
(* holds it: what the outbox has in its hands is the document.             *)
(***************************************************************************)
EXTENDS Integers, FiniteSets

CONSTANTS Refused,    \* identifiers of events histd answers with a 4xx
          NotOpen,    \* no reduction is in force
          NoEvent,    \* an identifier that was not handed out
          LastEvent,  \* bound: the last identifier of the run
          LastTime,   \* bound: the last instant of the run
          Keep,       \* RETENTION
          Batch,      \* settings.histd.batch
          MaxSteps,   \* bound: how often the box's clock is set
          MaxLost     \* bound: calls whose outcome the box never learns

ASSUME EventLaneAssumption ==
  /\ LastEvent \in Nat /\ LastTime \in Nat
  /\ NotOpen \notin Int
  /\ Keep \in Nat \ {0} /\ Batch \in Nat \ {0}
  /\ MaxSteps \in Nat /\ MaxLost \in Nat

Ids == 1 .. LastEvent
Times == 0 .. LastTime
Document == [received : Times, released : Times]

ASSUME NoEventAssumption == NoEvent \notin Document

Stage == {"idle", "posting", "handled", "marking"}

VARIABLES
  clock,         \* the box's wall clock
  fleetClock,    \* histd's wall clock
  open,          \* received_at of the reduction in force, in the recorder
  next,          \* META's next_event
  document,      \* what each identifier stands for
  held,          \* EVENTS: the identifiers with a row
  forwarded,     \* the rows whose forwarded_at is set
  owed,          \* EVENTS_OWED
  outbox,        \* where the outbox is in a round, what is left of its
                 \* snapshot, and what the fleet accepted of it
  strays,        \* requests nobody waits for and the fleet may still handle
  controlEvent,  \* histd's control_event: how many rows each event has
  steps,         \* how often the box's clock has been set
  lost           \* how many calls came to nothing the box knows of

vars == <<clock, fleetClock, open, next, document, held, forwarded, owed,
          outbox, strays, controlEvent, steps, lost>>

clocks == <<clock, fleetClock, steps>>
tables == <<next, document, held, forwarded, owed>>

Idle == [at |-> "idle", queue |-> {}, accepted |-> {}]

Init == /\ clock = 0
        /\ fleetClock = 0
        /\ open = NotOpen
        /\ next = 1
        /\ document = [e \in Ids |-> NoEvent]
        /\ held = {}
        /\ forwarded = {}
        /\ owed = {}
        /\ outbox = Idle
        /\ strays = {}
        /\ controlEvent = [e \in Ids |-> 0]
        /\ steps = 0
        /\ lost = 0
-----------------------------------------------------------------------------
(* The clocks *)

Advance == /\ clock < LastTime /\ fleetClock < LastTime
           /\ clock' = clock + 1
           /\ fleetClock' = fleetClock + 1
           /\ UNCHANGED <<open, tables, outbox, strays, controlEvent, steps, lost>>

(* The box's clock is corrected, in either direction. *)
SetClock(c) == /\ steps < MaxSteps
               /\ clock' = c
               /\ steps' = steps + 1
               /\ UNCHANGED <<fleetClock, open, tables, outbox, strays, controlEvent, lost>>
-----------------------------------------------------------------------------
(* The control loop *)

(* A ceiling appears: the recorder opens an event. *)
Receive == /\ open = NotOpen
           /\ open' = clock
           /\ UNCHANGED <<clocks, tables, outbox, strays, controlEvent, lost>>

(* Two years from the day the event was released. *)
Expired(e, now) == document[e] # NoEvent /\ document[e].released + Keep <= now

(* put_control_event: a fresh identifier, and a row that is owed. *)
PutControlEvent == /\ next \in Ids
                   /\ document' = [document EXCEPT
                         ![next] = [received |-> open, released |-> clock]]
                   /\ next' = next + 1

(* The ceiling goes away: the event is written, and the rows whose         *)
(* retention is over go, owed or not.  Where the store refuses the write   *)
(* the event is gone: the recorder has already let go of it.  A sweep that *)
(* fails leaves its rows for the next one.                                 *)
Release(stored, pruned) ==
  LET gone == IF pruned THEN {e \in held : Expired(e, clock)} ELSE {}
      new  == IF stored THEN {next} ELSE {}
  IN
  /\ open # NotOpen
  /\ IF stored THEN PutControlEvent ELSE UNCHANGED <<next, document>>
  /\ held' = (held \cup new) \ gone
  /\ owed' = (owed \cup new) \ gone
  /\ forwarded' = forwarded \ gone
  /\ open' = NotOpen
  /\ UNCHANGED <<clocks, outbox, strays, controlEvent, lost>>
-----------------------------------------------------------------------------
(* The outbox *)

(* EVENTS_BY_RECEIVED orders by the instant and then by the identifier,    *)
(* which a corrected clock takes apart.                                    *)
Before(e, f) == \/ document[e].received < document[f].received
                \/ document[e].received = document[f].received /\ e < f

PendingEvents ==
  LET backlog == owed \cap held
  IN  {e \in backlog : Cardinality({f \in backlog : Before(f, e)}) < Batch}

(* Mutant: the youngest goes first. *)
FirstIsYoungest(e) == /\ e \in outbox.queue
                      /\ \A f \in outbox.queue \ {e} : Before(f, e)

(* The one being posted is the first of what is left. *)
First(e) == /\ e \in outbox.queue
            /\ \A f \in outbox.queue \ {e} : Before(e, f)

(* Mutant: what was accepted is dropped with the round. *)
EndRoundUnmarked(accepted) == Idle

(* The end of a round: what was accepted is marked, if anything was. *)
EndRound(accepted) ==
  IF accepted = {} THEN Idle
  ELSE [at |-> "marking", queue |-> {}, accepted |-> accepted]

StartRound == /\ outbox.at = "idle"
              /\ PendingEvents # {}
              /\ outbox' = [at |-> "posting", queue |-> PendingEvents, accepted |-> {}]
              /\ UNCHANGED <<clocks, open, tables, strays, controlEvent, lost>>

EventAnswered(e) ==
  LET left == outbox.queue \ {e}  accepted == outbox.accepted \cup {e} IN
  /\ outbox.at = "handled" /\ First(e)
  /\ outbox' = IF left = {} THEN EndRound(accepted)
               ELSE [at |-> "posting", queue |-> left, accepted |-> accepted]
  /\ UNCHANGED <<clocks, open, tables, strays, controlEvent, lost>>

(* Mutant: a failure skips one event. *)
PostFailsAndSkips ==
  /\ outbox.at = "posting"
  /\ \E e \in outbox.queue :
       First(e) /\ outbox' = IF outbox.queue = {e} THEN EndRound(outbox.accepted)
                             ELSE [outbox EXCEPT !.queue = @ \ {e}]
  /\ UNCHANGED <<clocks, open, tables, strays, controlEvent, lost>>

(* Whatever the answer was, if it was not a success the round is over. *)
PostFails == /\ outbox.at = "posting"
             /\ outbox' = EndRound(outbox.accepted)
             /\ UNCHANGED <<clocks, open, tables, strays, controlEvent, lost>>

PostStraggles(e) == /\ outbox.at = "posting" /\ First(e)
                    /\ lost < MaxLost
                    /\ strays' = strays \cup {e}
                    /\ outbox' = EndRound(outbox.accepted)
                    /\ lost' = lost + 1
                    /\ UNCHANGED <<clocks, open, tables, controlEvent>>

AnswerLost == /\ outbox.at = "handled"
              /\ lost < MaxLost
              /\ outbox' = EndRound(outbox.accepted)
              /\ lost' = lost + 1
              /\ UNCHANGED <<clocks, open, tables, strays, controlEvent>>

MarkForwarded == /\ outbox.at = "marking"
                 /\ forwarded' = forwarded \cup (outbox.accepted \cap held)
                 /\ owed' = owed \ outbox.accepted
                 /\ outbox' = Idle
                 /\ UNCHANGED <<clocks, open, next, document, held, strays,
                                controlEvent, lost>>

(* The store could not be written: the round ends with an error. *)
MarkFails == /\ outbox.at = "marking"
             /\ lost < MaxLost
             /\ outbox' = Idle
             /\ lost' = lost + 1
             /\ UNCHANGED <<clocks, open, tables, strays, controlEvent>>

(* The process dies and starts again: the event that was open and the      *)
(* round that was under way are gone, a request that was out stays out.    *)
Restart == /\ \/ outbox.at = "idle" /\ UNCHANGED <<lost, strays>>
              \/ /\ outbox.at # "idle"
                 /\ lost < MaxLost
                 /\ lost' = lost + 1
                 /\ \/ UNCHANGED strays
                    \/ \E e \in outbox.queue :
                         outbox.at = "posting" /\ First(e) /\ strays' = strays \cup {e}
           /\ open' = NotOpen
           /\ outbox' = Idle
           /\ UNCHANGED <<clocks, tables, controlEvent>>
-----------------------------------------------------------------------------
(* histd *)

(* A plain INSERT with an identity of histd's own: nothing in it tells an  *)
(* event that comes again from another event.                              *)
Inserted(e) == [controlEvent EXCEPT ![e] = @ + 1]

EventTaken(e) == /\ outbox.at = "posting" /\ First(e)
                 /\ e \notin Refused
                 /\ controlEvent' = Inserted(e)
                 /\ outbox' = [outbox EXCEPT !.at = "handled"]
                 /\ UNCHANGED <<clocks, open, tables, strays, lost>>

StrayTaken(e) == /\ e \notin Refused
                 /\ controlEvent' = Inserted(e)
                 /\ strays' = strays \ {e}
                 /\ UNCHANGED <<clocks, open, tables, outbox, lost>>

StrayVanishes(e) == /\ strays' = strays \ {e}
                    /\ UNCHANGED <<clocks, open, tables, outbox, controlEvent, lost>>

(* Mutant: two years from the day the event was received. *)
FleetPrunesByReceipt ==
  /\ controlEvent' = [e \in Ids |->
       IF document[e] # NoEvent /\ document[e].received + Keep <= fleetClock
       THEN 0 ELSE controlEvent[e]]
  /\ UNCHANGED <<clocks, open, tables, outbox, strays, lost>>

FleetPrunes ==
  /\ controlEvent' = [e \in Ids |-> IF Expired(e, fleetClock) THEN 0 ELSE controlEvent[e]]
  /\ UNCHANGED <<clocks, open, tables, outbox, strays, lost>>
-----------------------------------------------------------------------------
Next == \/ Advance
        \/ \E c \in Times : SetClock(c)
        \/ Receive
        \/ \E stored, pruned \in BOOLEAN : Release(stored, pruned)
        \/ StartRound
        \/ \E e \in outbox.queue : EventAnswered(e) \/ PostStraggles(e) \/ EventTaken(e)
        \/ PostFails
        \/ AnswerLost
        \/ MarkForwarded
        \/ MarkFails
        \/ Restart
        \/ \E e \in strays : StrayTaken(e) \/ StrayVanishes(e)
        \/ FleetPrunes

Spec == Init /\ [][Next]_vars

(* The outbox is a timer that always fires again and a request has a time  *)
(* limit; a household's WAN that fails a call does not fail every call.    *)
Fairness == /\ WF_vars(StartRound)
            /\ WF_vars(PostFails)
            /\ SF_vars(\E e \in Ids : EventTaken(e))
            /\ SF_vars(\E e \in Ids : EventAnswered(e))
            /\ SF_vars(MarkForwarded)

FairSpec == Spec /\ Fairness
-----------------------------------------------------------------------------
TypeOK == /\ clock \in Times
          /\ fleetClock \in Times
          /\ open \in Times \cup {NotOpen}
          /\ next \in 1 .. LastEvent + 1
          /\ document \in [Ids -> Document \cup {NoEvent}]
          /\ held \subseteq Ids
          /\ forwarded \subseteq Ids
          /\ owed \subseteq Ids
          /\ outbox \in [at : Stage, queue : SUBSET Ids, accepted : SUBSET Ids]
          /\ strays \subseteq Ids
          /\ controlEvent \in [Ids -> Nat]
          /\ steps \in Nat
          /\ lost \in Nat

ReleasedByTheFleet(e) == Expired(e, fleetClock)

(* An event is owed exactly while it is held and carries no forwarded_at,  *)
(* and a row stands for an event that happened: the sets EVENTS_OWED and   *)
(* EVENTS are written in step by put_control_event, mark_forwarded and     *)
(* prune, in whatever order the two tasks come to them.                    *)
TablesAgree == /\ owed = held \ forwarded
               /\ forwarded \subseteq held
               /\ \A e \in held : e < next /\ document[e] # NoEvent

(* An event the box no longer owes is one the fleet has, until the fleet's *)
(* own retention releases it: a round that fails half way marks no more    *)
(* than what it heard accepted.                                            *)
ForwardedIsHeld ==
  \A e \in held \ owed : controlEvent[e] > 0 \/ ReleasedByTheFleet(e)

(* The fleet hears of the events in the order they were received: while    *)
(* the clock only runs on, what is owed is younger than everything that is *)
(* not, whatever failed between.                                           *)
OldestFirst == steps = 0 => \A e \in held \ owed, f \in owed : Before(e, f)

(* histd has no way to tell an event that comes again, so a second row of  *)
(* it in a Nachweis has a call behind it whose outcome the box never       *)
(* learned, and a third row has two.                                       *)
DuplicatesHaveACause == \A e \in Ids : controlEvent[e] <= 1 + lost

(* An event histd refuses holds up what is younger and nothing else:       *)
(* whatever is owed is forwarded in the end, or its retention runs out, or *)
(* a refused event was received before it.                                 *)
UnobstructedIsForwarded ==
  \A e \in Ids \ Refused :
    e \in owed ~> e \notin owed \/ \E r \in owed \cap Refused : Before(r, e)

(* The lane is an at-least-once leg. *)
Leg == INSTANCE AtLeastOnce
         WITH Item  <- Ids,
              taken <- {e \in Ids : controlEvent[e] > 0},
              due   <- {e \in Ids : Expired(e, clock) \/ ReleasedByTheFleet(e)}

(* Every step of the lane is a step of the leg: an item stays owed until   *)
(* the fleet has it or its retention is over, across loss and crash.       *)
ImplementsAtLeastOnce == Leg!Spec
=============================================================================
