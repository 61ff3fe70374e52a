-------------------------- MODULE EventLaneProofs --------------------------
(***************************************************************************)
(* What the event lane guarantees for every number of events, every batch  *)
(* size, every retention, every set of refused events, and every number of *)
(* lost calls and corrected clocks.                                        *)
(***************************************************************************)
EXTENDS EventLane, FiniteSetTheorems, TLAPS

USE EventLaneAssumption, NoEventAssumption

LEMMA EndRoundType ==
  ASSUME NEW accepted \in SUBSET Ids
  PROVE  /\ EndRound(accepted) \in [at : Stage, queue : SUBSET Ids, accepted : SUBSET Ids]
         /\ EndRound(accepted).at \in {"idle", "marking"}
         /\ EndRound(accepted).queue = {}
         /\ EndRound(accepted).accepted = accepted
BY DEF EndRound, Idle, Stage

LEMMA IdleType ==
  /\ Idle \in [at : Stage, queue : SUBSET Ids, accepted : SUBSET Ids]
  /\ Idle.at = "idle" /\ Idle.queue = {} /\ Idle.accepted = {}
BY DEF Idle, Stage

LEMMA InitType == Init => TypeOK
BY IdleType DEF Init, TypeOK, Ids, Times

LEMMA StepType == TypeOK /\ [Next]_vars => TypeOK'
<1> SUFFICES ASSUME TypeOK, [Next]_vars PROVE TypeOK'
  OBVIOUS
<1> USE DEF TypeOK, clocks, tables
<1>1. CASE Advance
  BY <1>1 DEF Advance, Times
<1>2. ASSUME NEW c \in Times, SetClock(c) PROVE TypeOK'
  BY <1>2 DEF SetClock
<1>3. CASE Receive
  BY <1>3 DEF Receive
<1>4. ASSUME NEW stored \in BOOLEAN, NEW pruned \in BOOLEAN, Release(stored, pruned)
      PROVE  TypeOK'
  <2>1. CASE ~stored
    BY <1>4, <2>1 DEF Release
  <2>2. CASE stored
    <3>1. [received |-> open, released |-> clock] \in Document
      BY <1>4 DEF Release, Document
    <3>2. next' \in 1 .. LastEvent + 1 /\ document' \in [Ids -> Document \cup {NoEvent}]
      BY <1>4, <2>2, <3>1 DEF Release, PutControlEvent, Ids
    <3>3. next \in Ids
      BY <1>4, <2>2 DEF Release, PutControlEvent
    <3>4. held' \subseteq Ids /\ forwarded' \subseteq Ids /\ owed' \subseteq Ids
      BY <1>4, <3>3 DEF Release
    <3> QED BY <1>4, <3>2, <3>4 DEF Release
  <2> QED BY <2>1, <2>2
<1>5. CASE StartRound
  BY <1>5 DEF StartRound, PendingEvents, Stage
<1>6. ASSUME NEW e \in outbox.queue, EventAnswered(e) PROVE TypeOK'
  <2>1. outbox' \in [at : Stage, queue : SUBSET Ids, accepted : SUBSET Ids]
    BY <1>6, EndRoundType DEF EventAnswered, Stage
  <2> QED BY <1>6, <2>1 DEF EventAnswered
<1>7. CASE PostFails
  BY <1>7, EndRoundType DEF PostFails
<1>8. ASSUME NEW e \in outbox.queue, PostStraggles(e) PROVE TypeOK'
  BY <1>8, EndRoundType DEF PostStraggles
<1>9. CASE AnswerLost
  BY <1>9, EndRoundType DEF AnswerLost
<1>10. CASE MarkForwarded
  BY <1>10, IdleType DEF MarkForwarded
<1>11. CASE MarkFails
  BY <1>11, IdleType DEF MarkFails
<1>12. CASE Restart
  BY <1>12, IdleType DEF Restart
<1>13. ASSUME NEW e \in outbox.queue, EventTaken(e) PROVE TypeOK'
  BY <1>13 DEF EventTaken, Inserted, Stage
<1>14. ASSUME NEW e \in strays, StrayTaken(e) PROVE TypeOK'
  BY <1>14 DEF StrayTaken, Inserted
<1>15. ASSUME NEW e \in strays, StrayVanishes(e) PROVE TypeOK'
  BY <1>15 DEF StrayVanishes
<1>16. CASE FleetPrunes
  BY <1>16 DEF FleetPrunes
<1>17. CASE UNCHANGED vars
  BY <1>17 DEF vars
<1> QED
  BY <1>1, <1>2, <1>3, <1>4, <1>5, <1>6, <1>7, <1>8, <1>9, <1>10, <1>11,
     <1>12, <1>13, <1>14, <1>15, <1>16, <1>17 DEF Next

(***************************************************************************)
(* Every variable keeps its type: an identifier outside the range handed   *)
(* out is never owed, posted or marked.                                    *)
(***************************************************************************)
THEOREM TypeCorrect == Spec => []TypeOK
BY InitType, StepType, PTL DEF Spec
-----------------------------------------------------------------------------
(* The outbox only has in its hands what was written; what it heard        *)
(* accepted the fleet has, and so does the fleet what it is answering for. *)
RoundIsHonest ==
  /\ \A e \in outbox.queue \cup outbox.accepted \cup strays : e < next
  /\ \A e \in outbox.accepted : controlEvent[e] > 0 \/ ReleasedByTheFleet(e)
  /\ \A e \in outbox.queue :
        outbox.at = "handled" /\ First(e) => controlEvent[e] > 0 \/ ReleasedByTheFleet(e)

(* An identifier that was handed out stands for a document. *)
HandedOut == \A e \in Ids : e < next => document[e] # NoEvent

(* Inductive whatever the clocks do. *)
ReachInv == /\ TypeOK
            /\ HandedOut
            /\ TablesAgree
            /\ ForwardedIsHeld
            /\ RoundIsHonest

(* A document is written once, so what is said of a written event stays.   *)
LEMMA DocumentStays ==
  ASSUME ReachInv, [Next]_vars, NEW e \in Ids, e < next
  PROVE  document'[e] = document[e] /\ next <= next'
<1> USE DEF clocks, tables
<1>0. next \in Nat
  BY DEF ReachInv, TypeOK
<1>1. ASSUME NEW stored \in BOOLEAN, NEW pruned \in BOOLEAN, Release(stored, pruned)
      PROVE  document'[e] = document[e] /\ next <= next'
  BY <1>0, <1>1 DEF Release, PutControlEvent, ReachInv, TypeOK
<1>2. CASE UNCHANGED <<next, document>>
  BY <1>0, <1>2
<1> QED
  BY <1>1, <1>2
     DEF Next, vars, Advance, SetClock, Receive, StartRound, EventAnswered, PostFails,
         PostStraggles, AnswerLost, MarkForwarded, MarkFails, Restart, EventTaken,
         StrayTaken, StrayVanishes, FleetPrunes

LEMMA HandedOutStays ==
  ASSUME ReachInv, [Next]_vars
  PROVE  HandedOut'
<1>0. next \in Nat
  BY DEF ReachInv, TypeOK
<1>1. SUFFICES ASSUME NEW e \in Ids, e < next' PROVE document'[e] # NoEvent
  BY DEF HandedOut
<1>2. CASE e < next
  BY <1>2, DocumentStays DEF ReachInv, HandedOut
<1>3. CASE ~(e < next)
  <2>1. PICK stored \in BOOLEAN, pruned \in BOOLEAN : Release(stored, pruned)
    BY <1>0, <1>1, <1>3
       DEF Next, vars, Advance, SetClock, Receive, StartRound, EventAnswered, PostFails,
           PostStraggles, AnswerLost, MarkForwarded, MarkFails, Restart, EventTaken,
           StrayTaken, StrayVanishes, FleetPrunes, clocks, tables
  <2>2. e = next /\ document'[e] = [received |-> open, released |-> clock]
    BY <1>0, <1>1, <1>3, <2>1 DEF Release, PutControlEvent, ReachInv, TypeOK, Ids
  <2>3. open \in Times /\ clock \in Times
    BY <2>1 DEF Release, ReachInv, TypeOK
  <2> QED BY <2>2, <2>3 DEF Document
<1> QED BY <1>2, <1>3

LEMMA InitReach == Init => ReachInv
BY InitType, IdleType
   DEF Init, ReachInv, HandedOut, TablesAgree, ForwardedIsHeld, RoundIsHonest, Ids

(* A round that is over holds nothing but what was accepted. *)
LEMMA EndRoundHonest ==
  ASSUME ReachInv, UNCHANGED <<document, next, controlEvent, fleetClock>>,
         NEW accepted \in SUBSET outbox.accepted,
         outbox' = EndRound(accepted) \/ outbox' = Idle,
         \A e \in strays' : e < next
  PROVE  RoundIsHonest'
<1>1. /\ outbox'.queue = {}
      /\ outbox'.accepted \subseteq outbox.accepted
  BY EndRoundType, IdleType DEF ReachInv, TypeOK
<1> QED
  BY <1>1 DEF ReachInv, RoundIsHonest, ReleasedByTheFleet, Expired

LEMMA StepReach == ReachInv /\ [Next]_vars => ReachInv'
<1> SUFFICES ASSUME ReachInv, [Next]_vars PROVE ReachInv'
  OBVIOUS
<1>0. TypeOK /\ TypeOK' /\ HandedOut'
  BY StepType, HandedOutStays DEF ReachInv
<1> USE DEF clocks, tables
<1>1. CASE Advance
  <2>1. \A e \in Ids : ReleasedByTheFleet(e) => ReleasedByTheFleet(e)'
    BY <1>0, <1>1 DEF Advance, ReleasedByTheFleet, Expired, TypeOK, Times, Document
  <2> QED
    BY <1>0, <1>1, <2>1
       DEF Advance, ReachInv, TablesAgree, ForwardedIsHeld, RoundIsHonest, TypeOK,
           First, Before
<1>2. ASSUME NEW c \in Times, SetClock(c) PROVE ReachInv'
  BY <1>0, <1>2
     DEF SetClock, ReachInv, TablesAgree, ForwardedIsHeld, RoundIsHonest,
         ReleasedByTheFleet, Expired, First, Before
<1>3. CASE Receive
  BY <1>0, <1>3
     DEF Receive, ReachInv, TablesAgree, ForwardedIsHeld, RoundIsHonest,
         ReleasedByTheFleet, Expired, First, Before
<1>4. ASSUME NEW stored \in BOOLEAN, NEW pruned \in BOOLEAN, Release(stored, pruned)
      PROVE  ReachInv'
  <2> DEFINE gone == IF pruned THEN {e \in held : Expired(e, clock)} ELSE {}
             new  == IF stored THEN {next} ELSE {}
  <2>1. /\ held' = (held \cup new) \ gone
        /\ owed' = (owed \cup new) \ gone
        /\ forwarded' = forwarded \ gone
        /\ UNCHANGED <<fleetClock, outbox, strays, controlEvent>>
    BY <1>4 DEF Release
  <2>2. \A e \in Ids : e < next => document'[e] = document[e] /\ e < next'
    BY <1>0, DocumentStays DEF TypeOK, Ids
  <2>3. \A e \in new : e \in Ids /\ e \notin held /\ e < next' /\ document'[e] # NoEvent
    <3>1. CASE stored
      BY <1>0, <1>4, <3>1
         DEF Release, PutControlEvent, ReachInv, TablesAgree, TypeOK, Document, Ids
    <3>2. CASE ~stored
      BY <3>2
    <3> QED BY <3>1, <3>2
  <2>4. \A e \in Ids : e < next => (ReleasedByTheFleet(e) => ReleasedByTheFleet(e)')
    BY <2>1, <2>2 DEF ReleasedByTheFleet, Expired
  <2>5. TablesAgree'
    BY <1>0, <2>1, <2>2, <2>3 DEF ReachInv, TablesAgree, TypeOK
  <2>6. ForwardedIsHeld'
    BY <1>0, <2>1, <2>3, <2>4 DEF ReachInv, TablesAgree, ForwardedIsHeld, TypeOK
  <2>7. \A e \in outbox.queue : First(e)' => First(e)
    BY <1>0, <2>1, <2>2 DEF ReachInv, RoundIsHonest, First, Before, TypeOK
  <2>8. RoundIsHonest'
    BY <1>0, <2>1, <2>2, <2>4, <2>7 DEF ReachInv, RoundIsHonest, TypeOK
  <2> QED BY <1>0, <2>5, <2>6, <2>8 DEF ReachInv
<1>5. CASE StartRound
  <2>1. PendingEvents \subseteq held
    BY DEF PendingEvents
  <2>2. RoundIsHonest'
    BY <1>0, <1>5, <2>1
       DEF StartRound, ReachInv, RoundIsHonest, TablesAgree, ReleasedByTheFleet, Expired,
           TypeOK
  <2> QED
    BY <1>0, <1>5, <2>2
       DEF StartRound, ReachInv, TablesAgree, ForwardedIsHeld, ReleasedByTheFleet, Expired
<1>6. ASSUME NEW e \in outbox.queue, EventAnswered(e) PROVE ReachInv'
  <2>1. /\ outbox'.queue \subseteq outbox.queue
        /\ outbox'.at # "handled"
        /\ outbox'.accepted = outbox.accepted \cup {e}
    BY <1>0, <1>6, EndRoundType DEF EventAnswered, TypeOK
  <2>2. RoundIsHonest'
    BY <1>0, <1>6, <2>1
       DEF EventAnswered, ReachInv, RoundIsHonest, ReleasedByTheFleet, Expired
  <2> QED
    BY <1>0, <1>6, <2>2
       DEF EventAnswered, ReachInv, TablesAgree, ForwardedIsHeld, ReleasedByTheFleet, Expired
<1>7. CASE PostFails
  <2>1. RoundIsHonest'
    BY <1>0, <1>7, EndRoundHonest DEF PostFails, ReachInv, RoundIsHonest, TypeOK
  <2> QED
    BY <1>0, <1>7, <2>1
       DEF PostFails, ReachInv, TablesAgree, ForwardedIsHeld, ReleasedByTheFleet, Expired
<1>8. ASSUME NEW e \in outbox.queue, PostStraggles(e) PROVE ReachInv'
  <2>1. RoundIsHonest'
    BY <1>0, <1>8, EndRoundHonest DEF PostStraggles, ReachInv, RoundIsHonest, TypeOK
  <2> QED
    BY <1>0, <1>8, <2>1
       DEF PostStraggles, ReachInv, TablesAgree, ForwardedIsHeld, ReleasedByTheFleet, Expired
<1>9. CASE AnswerLost
  <2>1. RoundIsHonest'
    BY <1>0, <1>9, EndRoundHonest DEF AnswerLost, ReachInv, RoundIsHonest, TypeOK
  <2> QED
    BY <1>0, <1>9, <2>1
       DEF AnswerLost, ReachInv, TablesAgree, ForwardedIsHeld, ReleasedByTheFleet, Expired
<1>10. CASE MarkForwarded
  <2>1. RoundIsHonest'
    BY <1>0, <1>10, EndRoundHonest DEF MarkForwarded, ReachInv, RoundIsHonest, TypeOK
  <2>2. TablesAgree'
    BY <1>10 DEF MarkForwarded, ReachInv, TablesAgree
  <2>3. ForwardedIsHeld'
    BY <1>10
       DEF MarkForwarded, ReachInv, ForwardedIsHeld, RoundIsHonest, ReleasedByTheFleet, Expired
  <2> QED BY <1>0, <2>1, <2>2, <2>3 DEF ReachInv
<1>11. CASE MarkFails
  <2>1. RoundIsHonest'
    BY <1>0, <1>11, EndRoundHonest DEF MarkFails, ReachInv, RoundIsHonest, TypeOK
  <2> QED
    BY <1>0, <1>11, <2>1
       DEF MarkFails, ReachInv, TablesAgree, ForwardedIsHeld, ReleasedByTheFleet, Expired
<1>12. CASE Restart
  <2>1. \A e \in strays' : e < next
    BY <1>12 DEF Restart, ReachInv, RoundIsHonest
  <2>2. RoundIsHonest'
    BY <1>0, <1>12, <2>1, EndRoundHonest DEF Restart
  <2> QED
    BY <1>0, <1>12, <2>2
       DEF Restart, ReachInv, TablesAgree, ForwardedIsHeld, ReleasedByTheFleet, Expired
<1>13. ASSUME NEW e \in Ids, controlEvent' = Inserted(e), e < next,
              UNCHANGED <<clocks, open, tables>>,
              outbox'.queue = outbox.queue, outbox'.accepted = outbox.accepted,
              outbox'.at = outbox.at \/ First(e), strays' \subseteq strays
       PROVE  ReachInv'
  <2>1. \A f \in Ids : controlEvent'[f] >= controlEvent[f] /\ controlEvent'[e] > 0
    BY <1>0, <1>13 DEF Inserted, TypeOK
  <2>2. \A f \in Ids : controlEvent[f] > 0 => controlEvent'[f] > 0
    BY <1>0, <2>1 DEF TypeOK
  <2>3. \A f \in outbox.queue : First(f)' <=> First(f)
    BY <1>13 DEF First, Before
  <2>4. \A f \in outbox.queue : First(e) /\ First(f) => e = f
    <3> SUFFICES ASSUME NEW f \in outbox.queue, First(e), First(f), e # f PROVE FALSE
      OBVIOUS
    <3>1. e \in Ids /\ f \in Ids /\ document[e] \in Document /\ document[f] \in Document
      BY <1>0 DEF First, ReachInv, RoundIsHonest, HandedOut, TypeOK
    <3>2. Before(e, f) /\ Before(f, e)
      BY DEF First
    <3> QED BY <3>1, <3>2 DEF Before, Document, Ids, Times
  <2> QED
    BY <1>0, <1>13, <2>1, <2>2, <2>3, <2>4
       DEF ReachInv, TablesAgree, ForwardedIsHeld, RoundIsHonest, ReleasedByTheFleet,
           Expired, TypeOK
<1>14. ASSUME NEW e \in outbox.queue, EventTaken(e) PROVE ReachInv'
  BY <1>0, <1>13, <1>14 DEF EventTaken, ReachInv, RoundIsHonest, TypeOK
<1>15. ASSUME NEW e \in strays, StrayTaken(e) PROVE ReachInv'
  BY <1>0, <1>13, <1>15 DEF StrayTaken, ReachInv, RoundIsHonest, TypeOK
<1>16. ASSUME NEW e \in strays, StrayVanishes(e) PROVE ReachInv'
  BY <1>0, <1>16
     DEF StrayVanishes, ReachInv, TablesAgree, ForwardedIsHeld, RoundIsHonest,
         ReleasedByTheFleet, Expired, First, Before
<1>17. CASE FleetPrunes
  <2>1. \A e \in Ids : controlEvent[e] > 0 => controlEvent'[e] > 0 \/ ReleasedByTheFleet(e)
    BY <1>17 DEF FleetPrunes, ReleasedByTheFleet
  <2> QED
    BY <1>0, <1>17, <2>1
       DEF FleetPrunes, ReachInv, TablesAgree, ForwardedIsHeld, RoundIsHonest,
           ReleasedByTheFleet, Expired, First, Before, TypeOK
<1>18. CASE UNCHANGED vars
  BY <1>0, <1>18
     DEF vars, ReachInv, TablesAgree, ForwardedIsHeld, RoundIsHonest, ReleasedByTheFleet,
         Expired, First, Before
<1> QED
  BY <1>1, <1>2, <1>3, <1>4, <1>5, <1>6, <1>7, <1>8, <1>9, <1>10, <1>11,
     <1>12, <1>14, <1>15, <1>16, <1>17, <1>18 DEF Next

(***************************************************************************)
(* An event is owed exactly while it is held and not marked forwarded.     *)
(***************************************************************************)
THEOREM TablesAlwaysAgree == Spec => []TablesAgree
<1>1. ReachInv => TablesAgree
  BY DEF ReachInv
<1> QED
  BY <1>1, InitReach, StepReach, PTL DEF Spec

(***************************************************************************)
(* Nothing is marked forwarded that the fleet has not taken, wherever a    *)
(* round is cut short.                                                     *)
(***************************************************************************)
THEOREM ForwardedAlwaysHeld == Spec => []ForwardedIsHeld
<1>1. ReachInv => ForwardedIsHeld
  BY DEF ReachInv
<1> QED
  BY <1>1, InitReach, StepReach, PTL DEF Spec
-----------------------------------------------------------------------------
(***************************************************************************)
(* How many rows an event can come to have.                                *)
(***************************************************************************)
(* What each stage of a round leaves in the outbox's hands. *)
RoundShape == /\ outbox.at \in {"idle", "marking"} => outbox.queue = {}
              /\ outbox.at = "idle" => outbox.accepted = {}
              /\ outbox.queue \cap outbox.accepted = {}

(* The fleet has never heard of an identifier that was not handed out. *)
Unheard == \A e \in Ids : e >= next => controlEvent[e] = 0

(* The box may still post the event without anything more going wrong. *)
Outstanding(e) == /\ e \in owed \cup outbox.queue
                  /\ e \notin outbox.accepted
                  /\ ~(outbox.at = "handled" /\ First(e))

(* Every row, every stray request and every post to come but the first has *)
(* a lost call behind it.                                                  *)
Budget(e) ==
  controlEvent[e] + (IF e \in strays THEN 1 ELSE 0) + (IF Outstanding(e) THEN 1 ELSE 0)
    <= 1 + lost

CountInv == ReachInv /\ RoundShape /\ Unheard /\ \A e \in Ids : Budget(e)

LEMMA FirstIsOne ==
  ASSUME ReachInv, NEW e, NEW f, First(e), First(f)
  PROVE  e = f
<1> SUFFICES ASSUME e # f PROVE FALSE
  OBVIOUS
<1>1. e \in Ids /\ f \in Ids /\ document[e] \in Document /\ document[f] \in Document
  BY DEF First, ReachInv, RoundIsHonest, HandedOut, TypeOK
<1>2. Before(e, f) /\ Before(f, e)
  BY DEF First
<1> QED BY <1>1, <1>2 DEF Before, Document, Ids, Times

(* A step that adds no row, no stray and no post keeps within the budget.  *)
LEMMA BudgetKept ==
  ASSUME CountInv, TypeOK', NEW e \in Ids,
         controlEvent'[e] <= controlEvent[e],
         e \in strays' => e \in strays,
         Outstanding(e)' => Outstanding(e),
         lost <= lost'
  PROVE  Budget(e)'
BY DEF CountInv, ReachInv, TypeOK, Budget

(* A lost call pays for one stray or one more post. *)
LEMMA BudgetPaid ==
  ASSUME CountInv, TypeOK', NEW e \in Ids,
         controlEvent'[e] = controlEvent[e],
         \/ e \in strays' => e \in strays
         \/ Outstanding(e)' => Outstanding(e),
         lost' = lost + 1
  PROVE  Budget(e)'
BY DEF CountInv, ReachInv, TypeOK, Budget

(* What the end of a round leaves of it. *)
LEMMA EndRoundShape ==
  ASSUME NEW accepted
  PROVE  /\ EndRound(accepted).queue = {}
         /\ EndRound(accepted).accepted = accepted
         /\ \/ EndRound(accepted).at = "marking"
            \/ EndRound(accepted).at = "idle" /\ accepted = {}
<1>1. CASE accepted = {}
  BY <1>1 DEF EndRound, Idle
<1>2. CASE accepted # {}
  BY <1>2 DEF EndRound
<1> QED BY <1>1, <1>2

LEMMA InitCount == Init => CountInv
BY InitReach, IdleType
   DEF Init, CountInv, RoundShape, Unheard, Budget, Outstanding, Ids

LEMMA StepCount == CountInv /\ [Next]_vars => CountInv'
<1> SUFFICES ASSUME CountInv, [Next]_vars PROVE CountInv'
  OBVIOUS
<1>0. ReachInv /\ ReachInv' /\ TypeOK /\ TypeOK'
  BY StepReach DEF CountInv, ReachInv
<1>n. next \in Nat /\ \A e \in Ids : controlEvent[e] \in Nat /\ controlEvent'[e] \in Nat
  BY <1>0 DEF TypeOK
<1> USE DEF clocks, tables
<1>same. ASSUME UNCHANGED <<document, next, owed, outbox, strays, controlEvent, lost>>
         PROVE  CountInv'
  <2>1. \A e \in Ids : Outstanding(e)' => Outstanding(e)
    BY <1>same DEF Outstanding, First, Before
  <2>2. \A e \in Ids : Budget(e)'
    BY <1>0, <1>n, <1>same, <2>1, BudgetKept DEF TypeOK
  <2> QED BY <1>0, <1>same, <2>2 DEF CountInv, RoundShape, Unheard
<1>1. CASE Advance
  BY <1>1, <1>same DEF Advance
<1>2. ASSUME NEW c \in Times, SetClock(c) PROVE CountInv'
  BY <1>2, <1>same DEF SetClock
<1>3. CASE Receive
  BY <1>3, <1>same DEF Receive
<1>4. ASSUME NEW stored \in BOOLEAN, NEW pruned \in BOOLEAN, Release(stored, pruned)
      PROVE  CountInv'
  <2>1. UNCHANGED <<outbox, strays, controlEvent, lost>>
    BY <1>4 DEF Release
  <2>2. \A e \in Ids : e < next => document'[e] = document[e] /\ e < next'
    BY <1>0, DocumentStays DEF TypeOK, Ids
  <2>3. Unheard'
    BY <1>0, <2>1, <2>2 DEF CountInv, Unheard, TypeOK, Ids
  <2>4. \A e \in outbox.queue : First(e) => First(e)'
    BY <1>0, <2>1, <2>2 DEF ReachInv, RoundIsHonest, First, Before, TypeOK
  <2>5. \A e \in Ids : e # next => (Outstanding(e)' => Outstanding(e))
    BY <1>4, <2>1, <2>4 DEF Release, Outstanding, First
  <2>6. \A e \in Ids : e # next => Budget(e)'
    BY <1>0, <1>n, <2>1, <2>5, BudgetKept DEF TypeOK
  <2>7. ASSUME NEW e \in Ids, e = next PROVE Budget(e)'
    <3>1. controlEvent[e] = 0 /\ e \notin strays
      BY <1>0, <1>n, <2>7 DEF CountInv, Unheard, ReachInv, RoundIsHonest
    <3> QED BY <1>0, <2>1, <3>1 DEF Budget, TypeOK
  <2> QED
    BY <1>0, <2>1, <2>3, <2>6, <2>7 DEF CountInv, RoundShape
<1>5. CASE StartRound
  <2>1. outbox.queue = {} /\ outbox.accepted = {}
    BY <1>5 DEF StartRound, CountInv, RoundShape
  <2>2. PendingEvents \subseteq owed
    BY DEF PendingEvents
  <2>3. \A e \in Ids : Outstanding(e)' => Outstanding(e)
    BY <1>5, <2>1, <2>2 DEF StartRound, Outstanding
  <2>4. \A e \in Ids : Budget(e)'
    BY <1>0, <1>n, <1>5, <2>3, BudgetKept DEF StartRound, TypeOK
  <2> QED BY <1>0, <1>5, <2>4 DEF StartRound, CountInv, RoundShape, Unheard
<1>6. ASSUME NEW e \in outbox.queue, EventAnswered(e) PROVE CountInv'
  <2>1. /\ outbox'.queue = outbox.queue \ {e}
        /\ outbox'.at \in {"posting", "marking"}
        /\ outbox'.at = "marking" => outbox'.queue = {}
        /\ outbox'.accepted = outbox.accepted \cup {e}
    BY <1>0, <1>6 DEF EventAnswered, TypeOK, EndRound
  <2>u. UNCHANGED <<document, next, owed, strays, controlEvent, lost>>
    BY <1>6 DEF EventAnswered
  <2>2. \A f \in Ids : Outstanding(f)' => Outstanding(f)
    BY <1>0, <1>6, <2>1, FirstIsOne DEF EventAnswered, Outstanding
  <2>3. \A f \in Ids : Budget(f)'
    BY <1>0, <1>n, <2>u, <2>2, BudgetKept DEF TypeOK
  <2> QED
    BY <1>0, <2>u, <2>1, <2>3 DEF CountInv, RoundShape, Unheard
<1>7. CASE PostFails
  <2>1. /\ outbox'.queue = {} /\ outbox'.accepted = outbox.accepted
        /\ \/ outbox'.at = "marking"
           \/ outbox'.at = "idle" /\ outbox.accepted = {}
    BY <1>7, EndRoundShape DEF PostFails
  <2>2. \A f \in Ids : Outstanding(f)' => Outstanding(f)
    BY <1>7, <2>1 DEF PostFails, Outstanding
  <2>3. \A f \in Ids : Budget(f)'
    BY <1>0, <1>n, <1>7, <2>2, BudgetKept DEF PostFails, TypeOK
  <2> QED
    BY <1>0, <1>7, <2>1, <2>3 DEF PostFails, CountInv, RoundShape, Unheard
<1>8. ASSUME NEW e \in outbox.queue, PostStraggles(e) PROVE CountInv'
  <2>1. /\ outbox'.queue = {} /\ outbox'.accepted = outbox.accepted
        /\ \/ outbox'.at = "marking"
           \/ outbox'.at = "idle" /\ outbox.accepted = {}
    BY <1>8, EndRoundShape DEF PostStraggles
  <2>2. \A f \in Ids : Outstanding(f)' => Outstanding(f)
    BY <1>8, <2>1 DEF PostStraggles, Outstanding
  <2>3. \A f \in Ids : Budget(f)'
    BY <1>0, <1>n, <1>8, <2>2, BudgetPaid DEF PostStraggles
  <2> QED
    BY <1>0, <1>8, <2>1, <2>3 DEF PostStraggles, CountInv, RoundShape, Unheard
<1>9. CASE AnswerLost
  <2>1. /\ outbox'.queue = {} /\ outbox'.accepted = outbox.accepted
        /\ \/ outbox'.at = "marking"
           \/ outbox'.at = "idle" /\ outbox.accepted = {}
    BY <1>9, EndRoundShape DEF AnswerLost
  <2>2. \A f \in Ids : Budget(f)'
    BY <1>0, <1>n, <1>9, BudgetPaid DEF AnswerLost
  <2> QED
    BY <1>0, <1>9, <2>1, <2>2 DEF AnswerLost, CountInv, RoundShape, Unheard
<1>10. CASE MarkForwarded
  <2>1. \A f \in Ids : Outstanding(f)' => Outstanding(f)
    BY <1>10, IdleType DEF MarkForwarded, Outstanding
  <2>2. \A f \in Ids : Budget(f)'
    BY <1>0, <1>n, <1>10, <2>1, BudgetKept DEF MarkForwarded, TypeOK
  <2> QED
    BY <1>0, <1>10, <2>2, IdleType DEF MarkForwarded, CountInv, RoundShape, Unheard
<1>11. CASE MarkFails
  <2>1. \A f \in Ids : Budget(f)'
    BY <1>0, <1>n, <1>11, BudgetPaid DEF MarkFails
  <2> QED
    BY <1>0, <1>11, <2>1, IdleType DEF MarkFails, CountInv, RoundShape, Unheard
<1>12. CASE Restart
  <2>1. RoundShape' /\ Unheard'
    BY <1>12, IdleType DEF Restart, CountInv, RoundShape, Unheard
  <2>2. CASE outbox.at = "idle" /\ UNCHANGED <<lost, strays>>
    <3>1. \A f \in Ids : Outstanding(f)' => Outstanding(f)
      BY <1>12, <2>2, IdleType DEF Restart, Outstanding, CountInv, RoundShape
    <3>2. \A f \in Ids : Budget(f)'
      BY <1>0, <1>n, <1>12, <2>2, <3>1, BudgetKept DEF Restart, TypeOK
    <3> QED BY <1>0, <2>1, <3>2 DEF CountInv
  <2>3. CASE UNCHANGED strays /\ lost' = lost + 1
    <3>1. \A f \in Ids : Budget(f)'
      BY <1>0, <1>n, <1>12, <2>3, BudgetPaid DEF Restart
    <3> QED BY <1>0, <2>1, <3>1 DEF CountInv
  <2>4. ASSUME NEW e \in outbox.queue, outbox.at = "posting", lost' = lost + 1,
               strays' = strays \cup {e}
        PROVE  CountInv'
    <3>1. \A f \in Ids : f = e => (Outstanding(f)' => Outstanding(f))
      BY <1>12, <2>4 DEF Restart, Outstanding, CountInv, RoundShape
    <3>2. \A f \in Ids : Budget(f)'
      BY <1>0, <1>n, <1>12, <2>4, <3>1, BudgetPaid DEF Restart
    <3> QED BY <1>0, <2>1, <3>2 DEF CountInv
  <2> QED BY <1>12, <2>2, <2>3, <2>4 DEF Restart
<1>13. ASSUME NEW e \in outbox.queue, EventTaken(e) PROVE CountInv'
  <2>1. /\ outbox'.queue = outbox.queue /\ outbox'.accepted = outbox.accepted
        /\ outbox'.at = "handled" /\ outbox.at = "posting" /\ First(e)
        /\ UNCHANGED <<document, next, owed, strays, lost>>
    BY <1>0, <1>13 DEF EventTaken, TypeOK
  <2>2. First(e)' /\ e \in Ids
    BY <1>0, <2>1 DEF First, Before, TypeOK
  <2>3. /\ controlEvent'[e] = controlEvent[e] + 1
        /\ \A f \in Ids : f # e => controlEvent'[f] = controlEvent[f]
    BY <1>0, <1>13, <2>2 DEF EventTaken, Inserted, TypeOK
  <2>4. \A f \in Ids : f # e => Budget(f)'
    <3>1. \A f \in Ids : Outstanding(f)' => Outstanding(f)
      BY <2>1 DEF Outstanding
    <3> QED BY <1>0, <1>n, <2>1, <2>3, <3>1, BudgetKept DEF TypeOK
  <2>5. Outstanding(e) /\ ~Outstanding(e)'
    BY <2>1, <2>2 DEF Outstanding, CountInv, RoundShape
  <2>6. \A f \in Ids : f = e => Budget(f)'
    BY <1>0, <2>1, <2>2, <2>3, <2>5 DEF CountInv, Budget, TypeOK
  <2>7. Unheard'
    BY <1>0, <1>n, <2>1, <2>2, <2>3 DEF CountInv, Unheard, ReachInv, RoundIsHonest, TypeOK, Ids
  <2> QED
    BY <1>0, <2>1, <2>4, <2>6, <2>7 DEF CountInv, RoundShape
<1>14. ASSUME NEW e \in strays, StrayTaken(e) PROVE CountInv'
  <2>1. /\ UNCHANGED <<document, next, owed, outbox, lost>>
        /\ strays' = strays \ {e} /\ e \in Ids
    BY <1>0, <1>14 DEF StrayTaken, TypeOK
  <2>2. /\ controlEvent'[e] = controlEvent[e] + 1
        /\ \A f \in Ids : f # e => controlEvent'[f] = controlEvent[f]
    BY <1>0, <1>14, <2>1 DEF StrayTaken, Inserted, TypeOK
  <2>3. \A f \in Ids : Outstanding(f)' <=> Outstanding(f)
    BY <2>1 DEF Outstanding, First, Before
  <2>4. \A f \in Ids : Budget(f)'
    BY <1>0, <2>1, <2>2, <2>3 DEF CountInv, Budget, TypeOK
  <2>5. Unheard'
    BY <1>0, <1>n, <2>1, <2>2 DEF CountInv, Unheard, ReachInv, RoundIsHonest, TypeOK, Ids
  <2> QED BY <1>0, <2>1, <2>4, <2>5 DEF CountInv, RoundShape
<1>15. ASSUME NEW e \in strays, StrayVanishes(e) PROVE CountInv'
  <2>1. \A f \in Ids : Outstanding(f)' => Outstanding(f)
    BY <1>15 DEF StrayVanishes, Outstanding, First, Before
  <2>2. \A f \in Ids : Budget(f)'
    BY <1>0, <1>n, <1>15, <2>1, BudgetKept DEF StrayVanishes, TypeOK
  <2> QED
    BY <1>0, <1>15, <2>2 DEF StrayVanishes, CountInv, RoundShape, Unheard
<1>16. CASE FleetPrunes
  <2>1. \A f \in Ids : controlEvent'[f] <= controlEvent[f]
    BY <1>n, <1>16 DEF FleetPrunes
  <2>2. \A f \in Ids : Outstanding(f)' => Outstanding(f)
    BY <1>16 DEF FleetPrunes, Outstanding, First, Before
  <2>3. \A f \in Ids : Budget(f)'
    BY <1>0, <1>16, <2>1, <2>2, BudgetKept DEF FleetPrunes, TypeOK
  <2>4. Unheard'
    BY <1>n, <1>16 DEF FleetPrunes, CountInv, Unheard
  <2> QED
    BY <1>0, <1>16, <2>3, <2>4 DEF FleetPrunes, CountInv, RoundShape
<1>17. CASE UNCHANGED vars
  BY <1>17, <1>same DEF vars
<1> QED
  BY <1>1, <1>2, <1>3, <1>4, <1>5, <1>6, <1>7, <1>8, <1>9, <1>10, <1>11,
     <1>12, <1>13, <1>14, <1>15, <1>16, <1>17 DEF Next

(***************************************************************************)
(* Every row of an event but the first has a lost call behind it.          *)
(***************************************************************************)
THEOREM DuplicatesAlwaysHaveACause == Spec => []DuplicatesHaveACause
<1>1. CountInv => DuplicatesHaveACause
  <2> SUFFICES ASSUME CountInv, NEW e \in Ids PROVE controlEvent[e] <= 1 + lost
    BY DEF DuplicatesHaveACause
  <2>1. Budget(e) /\ controlEvent[e] \in Nat /\ lost \in Nat
    BY DEF CountInv, ReachInv, TypeOK
  <2> QED BY <2>1 DEF Budget
<1> QED
  BY <1>1, InitCount, StepCount, PTL DEF Spec
-----------------------------------------------------------------------------
(***************************************************************************)
(* The lane implements the at-least-once leg.                              *)
(***************************************************************************)
Due == {e \in Ids : Expired(e, clock) \/ ReleasedByTheFleet(e)}
Taken == {e \in Ids : controlEvent[e] > 0}

LEMMA LegStep ==
  ASSUME ReachInv, [Next]_vars
  PROVE  [Leg!Next]_(Leg!vars)
<1>0. TypeOK /\ TypeOK' /\ ForwardedIsHeld /\ RoundIsHonest /\ TablesAgree
  BY StepType DEF ReachInv
<1> USE DEF clocks, tables
<1>due. Due' \in SUBSET Ids
  BY DEF Due
<1> USE <1>due DEF Due
<1>elapse. ASSUME UNCHANGED <<owed, controlEvent>> PROVE Leg!Next
  BY <1>elapse DEF Leg!Next, Leg!Elapse
<1>1. CASE Advance
  BY <1>1, <1>elapse DEF Advance
<1>2. ASSUME NEW c \in Times, SetClock(c) PROVE Leg!Next
  BY <1>2, <1>elapse DEF SetClock
<1>3. CASE Receive
  BY <1>3, <1>elapse DEF Receive
<1>4. ASSUME NEW stored \in BOOLEAN, NEW pruned \in BOOLEAN, Release(stored, pruned)
      PROVE  Leg!Next
  <2>1. PICK gone \in SUBSET Ids :
              gone = IF pruned THEN {e \in held : Expired(e, clock)} ELSE {}
    BY <1>0 DEF TypeOK
  <2>2. PICK new \in SUBSET Ids : new = IF stored THEN {next} ELSE {}
    BY <1>4 DEF Release, PutControlEvent
  <2>3. Leg!Write(new, gone)
    BY <1>0, <1>4, <2>1, <2>2 DEF Release, Leg!Write, TypeOK
  <2> QED BY <2>3 DEF Leg!Next
<1>5. CASE StartRound
  BY <1>5, <1>elapse DEF StartRound
<1>6. ASSUME NEW e \in outbox.queue, EventAnswered(e) PROVE Leg!Next
  BY <1>6, <1>elapse DEF EventAnswered
<1>7. CASE PostFails
  BY <1>7, <1>elapse DEF PostFails
<1>8. ASSUME NEW e \in outbox.queue, PostStraggles(e) PROVE Leg!Next
  BY <1>8, <1>elapse DEF PostStraggles
<1>9. CASE AnswerLost
  BY <1>9, <1>elapse DEF AnswerLost
<1>10. CASE MarkForwarded
  <2>1. outbox.accepted \in SUBSET Ids
    BY <1>0 DEF TypeOK
  <2>2. outbox.accepted \subseteq Taken \cup Due
    BY <1>0 DEF RoundIsHonest, Taken, TypeOK
  <2>3. Leg!Acknowledge(outbox.accepted)
    BY <1>10, <2>2 DEF MarkForwarded, Leg!Acknowledge, Taken
  <2> QED BY <2>1, <2>3 DEF Leg!Next
<1>11. CASE MarkFails
  BY <1>11, <1>elapse DEF MarkFails
<1>12. CASE Restart
  BY <1>12, <1>elapse DEF Restart
<1>13. ASSUME NEW e \in Ids, controlEvent' = Inserted(e), UNCHANGED owed PROVE Leg!Next
  <2>1. \A f \in Ids : controlEvent'[f] > 0 <=> f \in Taken \cup {e}
    BY <1>0, <1>13 DEF Inserted, Taken, TypeOK
  <2>2. PICK S \in SUBSET Ids : S = {e}
    BY <1>13
  <2>3. Leg!Take(S)
    BY <1>13, <2>1, <2>2 DEF Leg!Take, Taken
  <2> QED BY <2>3 DEF Leg!Next
<1>14. ASSUME NEW e \in outbox.queue, EventTaken(e) PROVE Leg!Next
  BY <1>0, <1>13, <1>14 DEF EventTaken, TypeOK
<1>15. ASSUME NEW e \in strays, StrayTaken(e) PROVE Leg!Next
  BY <1>0, <1>13, <1>15 DEF StrayTaken, TypeOK
<1>16. ASSUME NEW e \in strays, StrayVanishes(e) PROVE Leg!Next
  BY <1>16, <1>elapse DEF StrayVanishes
<1>17. CASE FleetPrunes
  <2>1. PICK released \in SUBSET Ids :
              \A e \in Ids : e \in released <=> ReleasedByTheFleet(e)
    <3>1. {e \in Ids : ReleasedByTheFleet(e)} \in SUBSET Ids
      OBVIOUS
    <3> QED BY <3>1
  <2>2. \A e \in Ids : controlEvent'[e] > 0 <=> e \in Taken \ released
    BY <1>0, <1>17, <2>1 DEF FleetPrunes, ReleasedByTheFleet, Taken, TypeOK
  <2>3. Leg!Release(released)
    BY <1>17, <2>1, <2>2 DEF FleetPrunes, Leg!Release, Taken
  <2> QED BY <2>3 DEF Leg!Next
<1>18. CASE UNCHANGED vars
  BY <1>18 DEF vars, Leg!vars, ReleasedByTheFleet, Expired
<1> QED
  BY <1>1, <1>2, <1>3, <1>4, <1>5, <1>6, <1>7, <1>8, <1>9, <1>10, <1>11,
     <1>12, <1>14, <1>15, <1>16, <1>17, <1>18 DEF Next

(***************************************************************************)
(* An event stops being owed only once histd has taken it or the retention *)
(* has released it, whatever order the rounds, the prune and the straggling *)
(* requests come in: every step of the lane is a step of the at-least-once *)
(* leg or leaves it alone.                                                 *)
(***************************************************************************)
THEOREM LaneIsAtLeastOnce == Spec => ImplementsAtLeastOnce
<1>1. Init => Leg!Init
  BY DEF Init, Leg!Init, Due
<1>2. ReachInv /\ [Next]_vars => [Leg!Next]_(Leg!vars)
  BY LegStep
<1> QED
  BY <1>1, <1>2, InitReach, StepReach, PTL
     DEF Spec, ImplementsAtLeastOnce, Leg!Spec
-----------------------------------------------------------------------------
(* The order in which the fleet hears of the events *)

(* Without a correction of the clock, identifiers are handed out in the    *)
(* order the events were received in, and none before its time.            *)
InOrder ==
  /\ \A e \in Ids : e < next =>
       /\ document[e].received <= clock
       /\ open # NotOpen => document[e].received <= open
       /\ \A f \in Ids : f < e => document[f].received <= document[e].received
  /\ open # NotOpen => open <= clock

(* What is owed is younger than what is not, than what the round heard     *)
(* accepted, and, where the round does not hold it, than what it holds.    *)
YoungestOwed ==
  /\ \A e \in held \ owed, f \in owed : e < f
  /\ \A e \in outbox.accepted, f \in owed \ outbox.accepted : e < f
  /\ \A e \in outbox.queue, f \in owed \ (outbox.accepted \cup outbox.queue) : e < f

OrderInv == steps = 0 => InOrder /\ YoungestOwed

(* The index by the instant of receipt is then one by the identifier. *)
LEMMA BeforeIsLess ==
  ASSUME ReachInv, InOrder, NEW e \in Ids, NEW f \in Ids, e < next, f < next
  PROVE  Before(e, f) <=> e < f
<1>1. document[e] \in Document /\ document[f] \in Document /\ e \in Int /\ f \in Int
  BY DEF ReachInv, HandedOut, TypeOK, Ids
<1>2. document[e].received \in Int /\ document[f].received \in Int
  BY <1>1 DEF Document, Times
<1>3. /\ e < f => document[e].received <= document[f].received
      /\ f < e => document[f].received <= document[e].received
  BY DEF InOrder
<1> QED BY <1>1, <1>2, <1>3 DEF Before

(* A batch is the oldest of the backlog: what is not in it is younger. *)
LEMMA BatchIsOldest ==
  ASSUME ReachInv, InOrder, NEW q \in PendingEvents, NEW f \in owed, f \notin PendingEvents
  PROVE  q < f
<1> DEFINE backlog == owed \cap held
           Older(e) == {g \in backlog : Before(g, e)}
<1>0. backlog \subseteq Ids /\ f \in backlog /\ q \in backlog /\ \A e \in backlog : e < next
  BY DEF ReachInv, TypeOK, TablesAgree, PendingEvents
<1>1. \A e \in backlog : Older(e) = {g \in backlog : g < e}
  BY <1>0, BeforeIsLess
<1>2. IsFiniteSet(backlog)
  BY <1>0, FS_Interval, FS_Subset DEF Ids
<1>3. Cardinality(Older(q)) < Batch /\ ~(Cardinality(Older(f)) < Batch)
  BY <1>0 DEF PendingEvents
<1>4. \A e \in backlog : IsFiniteSet(Older(e)) /\ Cardinality(Older(e)) \in Nat
  BY <1>2, FS_Subset, FS_CardinalityType
<1>5. ASSUME f < q PROVE FALSE
  <2>1. \A g \in backlog : g < f => g < q
    BY <1>0, <1>5 DEF Ids
  <2>2. Older(f) \in SUBSET Older(q)
    BY <1>0, <1>1, <2>1
  <2>3. Cardinality(Older(f)) <= Cardinality(Older(q))
    BY <1>0, <1>4, <2>2, FS_Subset
  <2> HIDE DEF Older
  <2> QED BY <1>0, <1>3, <1>4, <2>3
<1> QED BY <1>0, <1>5 DEF Ids

(* What the round gives up of what it holds stays younger than what it     *)
(* heard accepted.                                                         *)
LEMMA RoundOver ==
  ASSUME ReachInv, YoungestOwed, UNCHANGED <<held, owed>>,
         outbox' = EndRound(outbox.accepted) \/ outbox' = Idle
  PROVE  YoungestOwed'
<1>1. /\ outbox'.queue = {}
      /\ outbox'.accepted = outbox.accepted \/ outbox'.accepted = {}
  BY EndRoundType, IdleType DEF ReachInv, TypeOK
<1> QED BY <1>1 DEF YoungestOwed

LEMMA InOrderKept ==
  ASSUME ReachInv, InOrder, UNCHANGED <<document, next>>,
         clock' \in Times, clock <= clock', open' \in {open, NotOpen}
  PROVE  InOrder'
<1>1. \A e \in Ids : e < next => document[e].received \in Int
  BY DEF ReachInv, HandedOut, TypeOK, Document, Times
<1>2. clock \in Int /\ clock' \in Int /\ (open # NotOpen => open \in Int)
  BY DEF ReachInv, TypeOK, Times
<1> QED BY <1>1, <1>2 DEF InOrder

LEMMA InitOrder == Init => OrderInv
BY IdleType DEF Init, OrderInv, InOrder, YoungestOwed, Ids

LEMMA ReleaseOrder ==
  ASSUME ReachInv, InOrder, YoungestOwed, NEW stored \in BOOLEAN, NEW pruned \in BOOLEAN,
         Release(stored, pruned)
  PROVE  InOrder' /\ YoungestOwed'
<1> DEFINE gone == IF pruned THEN {e \in held : Expired(e, clock)} ELSE {}
           new  == IF stored THEN {next} ELSE {}
<1>0. /\ held' = (held \cup new) \ gone /\ owed' = (owed \cup new) \ gone
      /\ UNCHANGED <<clock, outbox>> /\ open' = NotOpen /\ open # NotOpen
  BY DEF Release, clocks
<1> HIDE DEF gone, new
<1>1. /\ next \in Int /\ clock \in Int /\ open \in Int /\ open \in Times
      /\ \A e \in Ids : e < next => document[e].received \in Int
  BY <1>0 DEF ReachInv, HandedOut, TypeOK, Document, Times
<1>2. YoungestOwed'
  <2>1. \A e \in held \cup outbox.accepted \cup outbox.queue : e < next
    BY DEF ReachInv, TablesAgree, RoundIsHonest
  <2>2. \A f \in new : f = next
    BY DEF new
  <2>3. \A e \in held' \ owed' : e \in held \ owed
    BY <1>0
  <2> QED BY <1>0, <2>1, <2>2, <2>3 DEF YoungestOwed
<1>3. CASE ~stored
  <2>1. UNCHANGED <<next, document>>
    BY <1>3 DEF Release
  <2> QED BY <1>0, <1>2, <2>1 DEF InOrder
<1>4. CASE stored
  <2>1. /\ next \in Ids /\ next' = next + 1
        /\ document' = [document EXCEPT ![next] = [received |-> open, released |-> clock]]
    BY <1>4 DEF Release, PutControlEvent
  <2>2. document'[next].received = open /\ open <= clock
    BY <1>0, <2>1 DEF ReachInv, TypeOK, InOrder
  <2>3. \A e \in Ids : e < next => document'[e] = document[e]
    BY <1>1, <2>1 DEF ReachInv, TypeOK
  <2>4. \A e \in Ids : e < next' => e = next \/ e < next
    BY <1>1, <2>1 DEF Ids
  <2>5. ASSUME NEW e \in Ids, e < next'
        PROVE  /\ document'[e].received <= clock
               /\ \A f \in Ids : f < e => document'[f].received <= document'[e].received
    <3>1. CASE e = next
      BY <1>0, <2>2, <2>3, <3>1 DEF InOrder
    <3>2. CASE e < next
      <4>1. \A f \in Ids : f < e => f < next
        BY <1>1, <3>2 DEF Ids
      <4> QED BY <2>3, <3>2, <4>1 DEF InOrder
    <3> QED BY <2>4, <2>5, <3>1, <3>2
  <2> QED BY <1>0, <1>2, <2>5 DEF InOrder
<1> QED BY <1>3, <1>4

LEMMA StepOrder == ASSUME ReachInv, OrderInv, [Next]_vars PROVE OrderInv'
<1> SUFFICES ASSUME steps' = 0 PROVE InOrder' /\ YoungestOwed'
  BY DEF OrderInv
<1>0. TypeOK /\ TypeOK' /\ (UNCHANGED steps => InOrder /\ YoungestOwed)
      /\ (UNCHANGED clock => clock <= clock')
  BY StepType DEF ReachInv, OrderInv, TypeOK, Times
<1> USE DEF clocks, tables
<1>1. CASE Advance
  <2>1. UNCHANGED <<document, next, open, held, owed, outbox, steps>> /\ clock <= clock'
    BY <1>0, <1>1 DEF Advance, TypeOK, Times
  <2> QED BY <1>0, <2>1, InOrderKept DEF TypeOK, YoungestOwed
<1>2. ASSUME NEW c \in Times, SetClock(c) PROVE FALSE
  BY <1>0, <1>2 DEF SetClock, TypeOK
<1>3. CASE Receive
  <2>1. InOrder'
    BY <1>0, <1>3 DEF Receive, InOrder, TypeOK, Times
  <2> QED BY <1>0, <1>3, <2>1 DEF Receive, YoungestOwed
<1>4. ASSUME NEW stored \in BOOLEAN, NEW pruned \in BOOLEAN, Release(stored, pruned)
      PROVE  InOrder' /\ YoungestOwed'
  <2>1. UNCHANGED steps
    BY <1>4 DEF Release
  <2> QED BY <1>0, <1>4, <2>1, ReleaseOrder
<1>5. ASSUME UNCHANGED <<document, next, clock, steps>>, open' \in {open, NotOpen}
      PROVE  InOrder' /\ YoungestOwed
  BY <1>0, <1>5, InOrderKept DEF TypeOK
<1>6. CASE StartRound
  <2>1. /\ UNCHANGED <<document, next, clock, steps, held, owed, open>>
        /\ outbox'.queue = PendingEvents /\ outbox'.accepted = {}
    BY <1>6 DEF StartRound
  <2>2. \A q \in PendingEvents, f \in owed \ PendingEvents : q < f
    BY <1>0, <2>1, BatchIsOldest
  <2> QED BY <1>5, <2>1, <2>2 DEF YoungestOwed
<1>7. ASSUME NEW e \in outbox.queue, EventAnswered(e) PROVE InOrder' /\ YoungestOwed'
  <2>1. /\ UNCHANGED <<document, next, clock, steps, held, owed, open>>
        /\ outbox'.queue = outbox.queue \ {e}
        /\ outbox'.accepted = outbox.accepted \cup {e}
        /\ First(e)
    BY <1>0, <1>7, EndRoundType DEF EventAnswered, TypeOK
  <2>2. ASSUME NEW f \in outbox.queue \ {e} PROVE e < f
    <3>1. Before(e, f) /\ e \in Ids /\ f \in Ids /\ e < next /\ f < next
      BY <1>0, <2>1 DEF First, TypeOK, ReachInv, RoundIsHonest
    <3> QED BY <1>0, <2>1, <3>1, BeforeIsLess
  <2> QED BY <1>5, <2>1, <2>2 DEF YoungestOwed
<1>8. ASSUME UNCHANGED <<document, next, clock, steps, held, owed>>, open' \in {open, NotOpen},
             outbox' = EndRound(outbox.accepted) \/ outbox' = Idle
      PROVE  InOrder' /\ YoungestOwed'
  BY <1>5, <1>8, RoundOver
<1>9. CASE PostFails
  BY <1>8, <1>9 DEF PostFails
<1>10. ASSUME NEW e \in outbox.queue, PostStraggles(e) PROVE InOrder' /\ YoungestOwed'
  BY <1>8, <1>10 DEF PostStraggles
<1>11. CASE AnswerLost
  BY <1>8, <1>11 DEF AnswerLost
<1>12. CASE MarkForwarded
  <2>1. /\ UNCHANGED <<document, next, clock, steps, held, open>>
        /\ owed' = owed \ outbox.accepted
        /\ outbox'.queue = {} /\ outbox'.accepted = {}
    BY <1>12, IdleType DEF MarkForwarded
  <2> QED BY <1>5, <2>1 DEF YoungestOwed
<1>13. CASE MarkFails
  BY <1>8, <1>13 DEF MarkFails
<1>14. CASE Restart
  BY <1>8, <1>14 DEF Restart
<1>15. ASSUME UNCHANGED <<document, next, clock, steps, held, owed, open>>,
              outbox'.queue = outbox.queue, outbox'.accepted = outbox.accepted
       PROVE  InOrder' /\ YoungestOwed'
  BY <1>5, <1>15 DEF YoungestOwed
<1>16. ASSUME NEW e \in outbox.queue, EventTaken(e) PROVE InOrder' /\ YoungestOwed'
  BY <1>0, <1>15, <1>16 DEF EventTaken, TypeOK
<1>17. ASSUME NEW e \in strays, StrayTaken(e) \/ StrayVanishes(e) PROVE InOrder' /\ YoungestOwed'
  BY <1>15, <1>17 DEF StrayTaken, StrayVanishes
<1>18. CASE FleetPrunes
  BY <1>15, <1>18 DEF FleetPrunes
<1>19. CASE UNCHANGED vars
  BY <1>15, <1>19 DEF vars
<1> QED
  BY <1>1, <1>2, <1>3, <1>4, <1>6, <1>7, <1>9, <1>10, <1>11, <1>12, <1>13,
     <1>14, <1>16, <1>17, <1>18, <1>19 DEF Next

(***************************************************************************)
(* The fleet hears of the events in the order they were received, for any  *)
(* batch and any number of failed posts, lost answers, lost marks and      *)
(* restarts: a round that stops at its first failure never leaves an older *)
(* event behind a younger one.                                             *)
(***************************************************************************)
THEOREM OldestAlwaysFirst == Spec => []OldestFirst
<1>1. Init => ReachInv /\ OrderInv
  BY InitReach, InitOrder
<1>2. ReachInv /\ OrderInv /\ [Next]_vars => ReachInv' /\ OrderInv'
  BY StepReach, StepOrder
<1>3. ReachInv /\ OrderInv => OldestFirst
  <2> SUFFICES ASSUME ReachInv, InOrder, YoungestOwed, NEW e \in held \ owed, NEW f \in owed
               PROVE  Before(e, f)
    BY DEF OrderInv, OldestFirst
  <2>1. e \in Ids /\ f \in Ids /\ e < next /\ f < next
    BY DEF ReachInv, TypeOK, TablesAgree
  <2> QED BY <2>1, BeforeIsLess DEF YoungestOwed
<1> QED BY <1>1, <1>2, <1>3, PTL DEF Spec
=============================================================================
