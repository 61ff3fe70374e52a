-------------------------- MODULE ReportLaneProofs --------------------------
(***************************************************************************)
(* What the report lane guarantees for every length of a day, every batch  *)
(* size, every window of the fleet's, every set of refused days, and every *)
(* number of lost calls.                                                   *)
(***************************************************************************)
EXTENDS ReportLane, FiniteSetTheorems, TLAPS

USE ReportLaneAssumption, NoRowAssumption

OutboxType == [at : Stage, now : Times, since : Times, queue : SUBSET Report, sent : SUBSET Days]

(* A day the clock shows is one of the days. *)
LEMMA DayOfTime == \A t \in Times : LocalDay(t) \in Days
<1> SUFFICES ASSUME NEW t \in Nat, t <= LastTime
             PROVE  t \div DayLength \in 0 .. LastTime \div DayLength
  BY DEF Times, Days, LocalDay
<1> DEFINE p == t \div DayLength
           q == LastTime \div DayLength
<1>1. /\ p \in Nat /\ q \in Nat
      /\ DayLength * p <= t /\ LastTime < DayLength * (q + 1)
  OBVIOUS
<1>2. ASSUME p >= q + 1 PROVE FALSE
  <2>1. DayLength * p >= DayLength * (q + 1)
    BY <1>1, <1>2
  <2> QED BY <1>1, <2>1
<1> HIDE DEF p, q
<1>3. p \in 0 .. q
  BY <1>1, <1>2
<1> QED BY <1>3 DEF p, q

LEMMA IdleType == Idle \in OutboxType /\ Idle.at = "idle" /\ Idle.queue = {} /\ Idle.sent = {}
BY DEF Idle, OutboxType, Stage, Times

LEMMA EndRoundType ==
  ASSUME outbox \in OutboxType, NEW sent \in SUBSET Days
  PROVE  /\ EndRound(sent) \in OutboxType
         /\ EndRound(sent).queue = {} /\ EndRound(sent).sent = sent
         /\ \/ EndRound(sent) = Idle
            \/ /\ EndRound(sent).at = "marking"
               /\ EndRound(sent).now = outbox.now /\ EndRound(sent).since = outbox.since
<1>1. CASE sent = {}
  BY <1>1, IdleType DEF EndRound
<1>2. CASE sent # {}
  BY <1>2 DEF EndRound, OutboxType, Stage
<1> QED BY <1>1, <1>2

LEMMA ProceedType ==
  ASSUME outbox \in OutboxType, NEW r, NEW sent \in SUBSET Days
  PROVE  /\ Proceed(r, sent) \in OutboxType
         /\ Proceed(r, sent).queue \subseteq outbox.queue
         /\ Proceed(r, sent).sent = sent
         /\ \/ Proceed(r, sent) = Idle
            \/ /\ Proceed(r, sent).at \in {"posting", "marking"}
               /\ Proceed(r, sent).now = outbox.now /\ Proceed(r, sent).since = outbox.since
<1>1. CASE outbox.queue = {r}
  BY <1>1, EndRoundType DEF Proceed
<1>2. CASE outbox.queue # {r}
  BY <1>2 DEF Proceed, OutboxType, Stage
<1> QED BY <1>1, <1>2

(* What a round posts is what the store held when it was read. *)
LEMMA BacklogType ==
  ASSUME TypeOK
  PROVE  /\ PendingOutbound \in SUBSET Report
         /\ \A r \in PendingOutbound :
              /\ outbound[r.day] # NoRow /\ r.day \in owed
              /\ r.version = outbound[r.day].version
<1> SUFFICES ASSUME NEW r \in PendingOutbound
             PROVE  /\ r \in Report /\ outbound[r.day] # NoRow /\ r.day \in owed
                    /\ r.version = outbound[r.day].version
  OBVIOUS
<1>1. PICK d \in owed :
        /\ outbound[d] # NoRow
        /\ r = [day |-> d, id |-> outbound[d].id, version |-> outbound[d].version,
                created |-> outbound[d].created]
  BY DEF PendingOutbound
<1>2. d \in Days /\ outbound[d] \in Row
  BY <1>1 DEF TypeOK
<1>3. r.day = d /\ r.id = outbound[d].id /\ r.version = outbound[d].version
  BY <1>1
<1>4. r \in Report
  BY <1>1, <1>2 DEF Row, Report
<1> QED BY <1>1, <1>3, <1>4

LEMMA RequestType ==
  ASSUME TypeOK, NEW r \in outbox.queue
  PROVE  [day |-> r.day, version |-> r.version, signed |-> outbox.now] \in Request
BY DEF TypeOK, Report, Request

LEMMA DaysFinite == IsFiniteSet(Days) /\ \A S \in SUBSET Days : IsFiniteSet(S) /\ Cardinality(S) \in Nat
<1>1. LocalDay(LastTime) \in Int
  BY DEF LocalDay
<1>2. IsFiniteSet(Days)
  BY <1>1, FS_Interval DEF Days
<1> QED BY <1>2, FS_Subset, FS_CardinalityType

LEMMA QueueEventType ==
  ASSUME TypeOK, NEW d \in Days, QueueEvent(d)
  PROVE  /\ outbound' \in [Days -> Row \cup {NoRow}] /\ owed' = owed \cup {d}
         /\ outbound'[d] \in Row /\ outbound'[d].fate = "owed"
         /\ outbound'[d].version = IF outbound[d] = NoRow THEN 1 ELSE outbound[d].version + 1
         /\ outbound'[d].id =
              IF outbound[d] = NoRow THEN Cardinality({e \in Days : outbound[e] # NoRow}) + 1
              ELSE outbound[d].id
         /\ \A e \in Days \ {d} : outbound'[e] = outbound[e]
<1> DEFINE held == Cardinality({e \in Days : outbound[e] # NoRow})
           row  == outbound[d]
           new  == [id      |-> IF row = NoRow THEN held + 1 ELSE row.id,
                    version |-> IF row = NoRow THEN 1 ELSE row.version + 1,
                    created |-> clock,
                    fate    |-> "owed"]
<1>1. held \in Nat
  BY DaysFinite
<1>2. row \in Row \cup {NoRow} /\ clock \in Times
  BY DEF TypeOK
<1>3. new \in Row
  <2> HIDE DEF held, row
  <2> QED BY <1>1, <1>2 DEF Row, Fate
<1>4. outbound' = [outbound EXCEPT ![d] = new] /\ owed' = owed \cup {d}
  BY DEF QueueEvent
<1>5. /\ new.fate = "owed" /\ new.version = IF row = NoRow THEN 1 ELSE row.version + 1
      /\ new.id = IF row = NoRow THEN held + 1 ELSE row.id
  OBVIOUS
<1> HIDE DEF new
<1>6. outbound' \in [Days -> Row \cup {NoRow}] /\ outbound'[d] = new
  BY <1>3, <1>4 DEF TypeOK
<1>7. \A e \in Days \ {d} : outbound'[e] = outbound[e]
  BY <1>4 DEF TypeOK
<1> QED BY <1>3, <1>4, <1>5, <1>6, <1>7

(* What the outbox has in its hands has a row, which the type rests on:    *)
(* close_outbound writes over a row there is.                              *)
HasRows == /\ \A r \in outbox.queue : outbound[r.day] # NoRow
           /\ \A d \in outbox.sent : outbound[d] # NoRow

TypeInv == TypeOK /\ HasRows

LEMMA InitType == Init => TypeInv
BY IdleType, DayOfTime DEF Init, TypeInv, HasRows, TypeOK, OutboxType, Times

LEMMA StepTypeOK == TypeInv /\ [Next]_vars => TypeOK'
<1> SUFFICES ASSUME TypeOK, HasRows, [Next]_vars PROVE TypeOK'
  BY DEF TypeInv
<1>0. outbox \in OutboxType
  BY DEF TypeOK, OutboxType
<1> USE DEF TypeOK, clocks, tables
<1>1. CASE Advance
  BY <1>1 DEF Advance, Times
<1>2. ASSUME NEW c \in Times, SetClock(c) PROVE TypeOK'
  BY <1>2 DEF SetClock
<1>3. ASSUME NEW queued \in BOOLEAN, CloseTheDay(queued) PROVE TypeOK'
  <2>1. today \in Days /\ today' \in Days /\ UNCHANGED <<clocks, outbox, strays, siteDay, lost>>
    BY <1>3, DayOfTime DEF CloseTheDay
  <2>2. outbound' \in [Days -> Row \cup {NoRow}] /\ owed' \in SUBSET Days
    <3>1. CASE queued
      <4>1. QueueEvent(today)
        BY <1>3, <3>1 DEF CloseTheDay
      <4>2. outbound' \in [Days -> Row \cup {NoRow}] /\ owed' = owed \cup {today}
        BY <2>1, <4>1, QueueEventType
      <4> QED BY <2>1, <4>2
    <3>2. CASE ~queued
      BY <1>3, <3>2 DEF CloseTheDay
    <3> QED BY <3>1, <3>2
  <2> QED BY <2>1, <2>2
<1>4. CASE BeginRound
  BY <1>4, <1>0, IdleType DEF BeginRound, OutboxType, Stage
<1>5. CASE ReadBacklog
  BY <1>5, <1>0, IdleType, BacklogType DEF ReadBacklog, OutboxType, Stage
<1>6. ASSUME NEW r \in outbox.queue, AnswerTaken(r) PROVE TypeOK'
  <2>1. outbox.sent \cup {r.day} \in SUBSET Days
    BY DEF Report
  <2> QED BY <1>6, <1>0, <2>1, ProceedType DEF AnswerTaken, OutboxType
<1>7. ASSUME NEW r \in outbox.queue, AnswerRefused(r) PROVE TypeOK'
  <2>1. outbox' \in OutboxType
    BY <1>7, <1>0, ProceedType DEF AnswerRefused
  <2>2. r.day \in Days /\ outbound' = [outbound EXCEPT ![r.day].fate = "abandoned"]
    BY <1>7 DEF AnswerRefused, Report
  <2>3. outbound' \in [Days -> Row \cup {NoRow}]
    BY <2>2 DEF HasRows, Row, Fate
  <2> QED BY <1>7, <2>1, <2>3 DEF AnswerRefused, OutboxType
<1>8. CASE PostFails
  BY <1>8, <1>0, EndRoundType DEF PostFails, OutboxType
<1>9. ASSUME NEW r \in outbox.queue, PostStraggles(r) PROVE TypeOK'
  BY <1>9, <1>0, EndRoundType, RequestType DEF PostStraggles, OutboxType
<1>10. CASE AnswerLost
  BY <1>10, <1>0, EndRoundType DEF AnswerLost, OutboxType
<1>11. CASE MarkSent
  BY <1>11, IdleType DEF MarkSent, OutboxType, HasRows, Row, Fate
<1>12. CASE StoreFails
  BY <1>12, IdleType DEF StoreFails, OutboxType
<1>13. CASE Crash
  BY <1>13, IdleType, RequestType DEF Crash, OutboxType
<1>14. CASE Start
  BY <1>14, DayOfTime DEF Start
<1>15. ASSUME NEW r \in outbox.queue, ReportTaken(r) PROVE TypeOK'
  BY <1>15 DEF ReportTaken, Report, Stage
<1>16. ASSUME NEW r \in outbox.queue, ReportRefused(r) PROVE TypeOK'
  BY <1>16 DEF ReportRefused, Stage
<1>17. ASSUME NEW q \in strays, StrayHandled(q) PROVE TypeOK'
  BY <1>17 DEF StrayHandled, Request
<1>18. ASSUME NEW q \in strays, StrayVanishes(q) PROVE TypeOK'
  BY <1>18 DEF StrayVanishes
<1>19. CASE FleetPrunes
  BY <1>19 DEF FleetPrunes
<1>20. CASE UNCHANGED vars
  BY <1>20 DEF vars
<1> QED
  BY <1>1, <1>2, <1>3, <1>4, <1>5, <1>6, <1>7, <1>8, <1>9, <1>10, <1>11, <1>12,
     <1>13, <1>14, <1>15, <1>16, <1>17, <1>18, <1>19, <1>20 DEF Next

(* A row that was queued stays, whatever is written over it. *)
LEMMA RowsStay ==
  ASSUME TypeInv, [Next]_vars, NEW d \in Days, outbound[d] # NoRow
  PROVE  outbound'[d] # NoRow
<1>0. outbound \in [Days -> Row \cup {NoRow}] /\ outbound' \in [Days -> Row \cup {NoRow}]
  BY StepTypeOK DEF TypeInv, TypeOK
<1>1. CASE outbound' = outbound
  BY <1>1
<1>2. ASSUME NEW queued \in BOOLEAN, CloseTheDay(queued) PROVE outbound'[d] # NoRow
  <2>1. CASE ~queued
    BY <1>2, <2>1 DEF CloseTheDay, tables
  <2>2. CASE queued
    <3>1. today \in Days /\ QueueEvent(today)
      BY <1>2, <2>2 DEF CloseTheDay, TypeInv, TypeOK
    <3>2. outbound'[today] \in Row /\ \A e \in Days \ {today} : outbound'[e] = outbound[e]
      BY <3>1, QueueEventType DEF TypeInv
    <3> QED BY <3>2
  <2> QED BY <2>1, <2>2
<1>3. ASSUME NEW r \in outbox.queue, AnswerRefused(r) PROVE outbound'[d] # NoRow
  <2>1. [outbound[d] EXCEPT !.fate = "abandoned"] \in Row
    BY <1>0 DEF Row, Fate
  <2> QED BY <1>0, <1>3, <2>1 DEF AnswerRefused
<1>4. CASE MarkSent
  <2>1. [outbound[d] EXCEPT !.fate = "sent"] \in Row
    BY <1>0 DEF Row, Fate
  <2> QED BY <1>0, <1>4, <2>1 DEF MarkSent
<1> QED
  BY <1>1, <1>2, <1>3, <1>4
     DEF Next, vars, tables, Advance, SetClock, BeginRound, ReadBacklog, AnswerTaken, PostFails,
         PostStraggles, AnswerLost, StoreFails, Crash, Start, ReportTaken, ReportRefused,
         StrayHandled, StrayVanishes, FleetPrunes

(* What a step can do to what the outbox has in its hands. *)
LEMMA RoundSteps ==
  ASSUME TypeInv, [Next]_vars
  PROVE  /\ \/ outbox'.queue \subseteq outbox.queue
            \/ outbox'.queue = PendingOutbound /\ outbox.at = "before" /\ ReadBacklog
         /\ \/ outbox'.sent \subseteq outbox.sent
            \/ \E r \in outbox.queue : AnswerTaken(r) /\ outbox'.sent = outbox.sent \cup {r.day}
<1>0. outbox \in OutboxType
  BY DEF TypeInv, TypeOK, OutboxType
<1>1. ASSUME NEW sent \in SUBSET Days, outbox' = EndRound(sent)
      PROVE  outbox'.queue \subseteq outbox.queue /\ outbox'.sent = sent
  BY <1>0, <1>1, EndRoundType
<1>2. ASSUME NEW r \in outbox.queue, NEW sent \in SUBSET Days, outbox' = Proceed(r, sent)
      PROVE  outbox'.queue \subseteq outbox.queue /\ outbox'.sent = sent
  BY <1>0, <1>2, ProceedType
<1>3. outbox.sent \in SUBSET Days
      /\ \A r \in outbox.queue : outbox.sent \cup {r.day} \in SUBSET Days
  BY <1>0 DEF OutboxType, Report
<1>4. CASE UNCHANGED outbox
  BY <1>4
<1>5. CASE outbox' = Idle
  BY <1>5, IdleType
<1>6. CASE BeginRound
  BY <1>6, IdleType DEF BeginRound, Idle
<1>7. CASE ReadBacklog
  BY <1>0, <1>7, IdleType DEF ReadBacklog, OutboxType
<1>8. ASSUME NEW r \in outbox.queue, AnswerTaken(r)
      PROVE  outbox'.queue \subseteq outbox.queue /\ outbox'.sent = outbox.sent \cup {r.day}
  BY <1>2, <1>3, <1>8 DEF AnswerTaken
<1>9. ASSUME NEW r \in outbox.queue, AnswerRefused(r)
      PROVE  outbox'.queue \subseteq outbox.queue /\ outbox'.sent = outbox.sent
  BY <1>2, <1>3, <1>9 DEF AnswerRefused
<1>10. CASE outbox' = EndRound(outbox.sent)
  BY <1>1, <1>3, <1>10
<1>11. ASSUME NEW r \in outbox.queue, ReportTaken(r) \/ ReportRefused(r)
       PROVE  outbox'.queue = outbox.queue /\ outbox'.sent = outbox.sent
  BY <1>0, <1>11 DEF ReportTaken, ReportRefused, OutboxType
<1> QED
  BY <1>4, <1>5, <1>6, <1>7, <1>8, <1>9, <1>10, <1>11
     DEF Next, vars, tables, Advance, SetClock, CloseTheDay, PostFails, PostStraggles, AnswerLost,
         MarkSent, StoreFails, Crash, Start, StrayHandled, StrayVanishes, FleetPrunes

LEMMA StepType == TypeInv /\ [Next]_vars => TypeInv'
<1> SUFFICES ASSUME TypeInv, [Next]_vars PROVE TypeInv'
  OBVIOUS
<1>1. TypeOK /\ TypeOK'
  BY StepTypeOK DEF TypeInv
<1>2. \A d \in Days : outbound[d] # NoRow => outbound'[d] # NoRow
  BY RowsStay
<1>3. \A r \in outbox.queue \cup PendingOutbound : r.day \in Days /\ outbound[r.day] # NoRow
  BY <1>1, BacklogType DEF TypeInv, HasRows, TypeOK, Report
<1>4. \A r \in outbox'.queue : outbound'[r.day] # NoRow
  BY <1>2, <1>3, RoundSteps
<1>5. \A d \in outbox'.sent : d \in Days /\ outbound[d] # NoRow
  BY <1>1, <1>3, RoundSteps DEF TypeInv, HasRows, TypeOK
<1> QED BY <1>1, <1>2, <1>4, <1>5 DEF TypeInv, HasRows

(***************************************************************************)
(* Every variable keeps its type: no report is posted, stored or marked of *)
(* a day there is not, and none is marked that has no row.                 *)
(***************************************************************************)
THEOREM TypeCorrect == Spec => []TypeOK
<1>1. TypeInv => TypeOK
  BY DEF TypeInv
<1> QED
  BY <1>1, InitType, StepType, PTL DEF Spec
-----------------------------------------------------------------------------
(* What obsd has of a day, or need not have any more. *)
Settled(d) == siteDay[d] > 0 \/ OutOfWindow(d)

Rows == {d \in Days : outbound[d] # NoRow}

(* The identifiers handed out are as many as the rows. *)
IdsCounted == \A d \in Rows : outbound[d].id <= Cardinality(Rows)

(* Every document that was built counts from one; what the outbox heard    *)
(* taken obsd has, and so has obsd what it is answering for.               *)
RoundIsHonest ==
  /\ \A d \in Rows : outbound[d].version > 0
  /\ \A r \in outbox.queue \cup strays : r.version > 0
  /\ \A d \in outbox.sent : Settled(d)
  /\ outbox.at = "taken" => \A r \in outbox.queue : First(r) => Settled(r.day)

(* Inductive whatever the clocks do. *)
ReachInv == /\ TypeInv
            /\ IdsCounted
            /\ TablesAgree
            /\ SentIsHeld
            /\ RoundIsHonest

LEMMA FirstIsOne ==
  ASSUME TypeOK, NEW r, NEW s, First(r), First(s)
  PROVE  r = s
<1> SUFFICES ASSUME r # s PROVE FALSE
  OBVIOUS
<1>1. r \in Report /\ s \in Report
  BY DEF First, TypeOK
<1>2. Before(r, s) /\ Before(s, r)
  BY DEF First
<1> QED BY <1>1, <1>2 DEF Before, Report, Times

(* A later instant is in no earlier day. *)
LEMMA DaysGoOn ==
  ASSUME NEW t \in Nat
  PROVE  LocalDay(t) \in Nat /\ LocalDay(t) <= LocalDay(t + 1)
<1> SUFFICES t \div DayLength \in Nat /\ t \div DayLength <= (t + 1) \div DayLength
  BY DEF LocalDay
<1> DEFINE p == t \div DayLength
           q == (t + 1) \div DayLength
<1>1. /\ p \in Nat /\ q \in Nat
      /\ DayLength * p <= t /\ t + 1 < DayLength * (q + 1)
  OBVIOUS
<1>2. ASSUME p >= q + 1 PROVE FALSE
  <2>1. DayLength * p >= DayLength * (q + 1)
    BY <1>1, <1>2
  <2> QED BY <1>1, <2>1
<1> HIDE DEF p, q
<1>3. p <= q
  BY <1>1, <1>2
<1> QED BY <1>1, <1>3 DEF p, q

(* What is settled stays settled: obsd forgets a day only once it is out   *)
(* of its window, and its own clock does not go back.                      *)
LEMMA SettledStays ==
  ASSUME TypeInv, TypeOK', RoundIsHonest, [Next]_vars, NEW d \in Days, Settled(d)
  PROVE  Settled(d)'
<1> USE DEF Settled, OutOfWindow, clocks
<1>0. fleetClock \in Nat /\ siteDay[d] \in Nat /\ siteDay'[d] \in Nat /\ d \in Int
  BY DEF TypeInv, TypeOK, Times, Days
<1>1. CASE Advance
  <2>1. fleetClock' = fleetClock + 1 /\ siteDay' = siteDay
    BY <1>1 DEF Advance
  <2>2. LocalDay(fleetClock) \in Nat /\ LocalDay(fleetClock + 1) \in Nat
        /\ LocalDay(fleetClock) <= LocalDay(fleetClock + 1)
    BY <1>0, DaysGoOn
  <2> QED BY <1>0, <2>1, <2>2
<1>2. ASSUME NEW r \in outbox.queue, ReportTaken(r) PROVE Settled(d)'
  BY <1>0, <1>2 DEF ReportTaken, RoundIsHonest, TypeInv, TypeOK, Report
<1>3. ASSUME NEW q \in strays, StrayHandled(q) PROVE Settled(d)'
  BY <1>0, <1>3 DEF StrayHandled, RoundIsHonest, TypeInv, TypeOK, Request
<1>4. CASE FleetPrunes
  BY <1>0, <1>4 DEF FleetPrunes
<1>5. CASE UNCHANGED <<fleetClock, siteDay>>
  BY <1>5
<1> QED
  BY <1>1, <1>2, <1>3, <1>4, <1>5
     DEF Next, vars, SetClock, CloseTheDay, BeginRound, ReadBacklog, AnswerTaken, AnswerRefused,
         PostFails, PostStraggles, AnswerLost, MarkSent, StoreFails, Crash, Start, ReportRefused,
         StrayVanishes

(* Who writes the tables. *)
LEMMA TableSteps ==
  ASSUME [Next]_vars
  PROVE  \/ UNCHANGED tables
         \/ \E queued \in BOOLEAN : CloseTheDay(queued)
         \/ \E r \in outbox.queue : AnswerRefused(r)
         \/ MarkSent
BY DEF Next, vars, tables, Advance, SetClock, BeginRound, ReadBacklog, AnswerTaken, PostFails,
       PostStraggles, AnswerLost, StoreFails, Crash, Start, ReportTaken, ReportRefused,
       StrayHandled, StrayVanishes, FleetPrunes

(* obsd has answered for what the outbox hears taken. *)
LEMMA TakenSteps ==
  ASSUME TypeInv, [Next]_vars, outbox'.at = "taken"
  PROVE  outbox' = outbox \/ \E r \in outbox.queue : ReportTaken(r)
<1>0. outbox \in OutboxType
  BY DEF TypeInv, TypeOK, OutboxType
<1>1. \A sent \in SUBSET Days : EndRound(sent).at # "taken"
  BY <1>0, EndRoundType, IdleType
<1>2. \A r \in outbox.queue : \A sent \in SUBSET Days : Proceed(r, sent).at # "taken"
  BY <1>0, ProceedType, IdleType
<1>3. outbox.sent \in SUBSET Days
      /\ \A r \in outbox.queue : outbox.sent \cup {r.day} \in SUBSET Days
  BY <1>0 DEF OutboxType, Report
<1>4. ~BeginRound
  BY IdleType DEF BeginRound, Idle
<1>5. ~ReadBacklog
  BY <1>0, IdleType DEF ReadBacklog, OutboxType
<1>6. ASSUME NEW r \in outbox.queue PROVE ~AnswerTaken(r) /\ ~AnswerRefused(r)
  BY <1>2, <1>3 DEF AnswerTaken, AnswerRefused
<1>7. ASSUME NEW r \in outbox.queue PROVE ~ReportRefused(r)
  BY <1>0 DEF ReportRefused, OutboxType
<1>8. outbox' # Idle /\ outbox' # EndRound(outbox.sent)
  BY <1>1, <1>3, IdleType
<1> QED
  BY <1>4, <1>5, <1>6, <1>7, <1>8
     DEF Next, vars, Advance, SetClock, CloseTheDay, PostFails, PostStraggles, AnswerLost,
         MarkSent, StoreFails, Crash, Start, StrayHandled, StrayVanishes, FleetPrunes

(* The tables after a day was queued. *)
LEMMA QueueKeeps ==
  ASSUME ReachInv, NEW d \in Days, QueueEvent(d), UNCHANGED <<siteDay, fleetClock>>
  PROVE  IdsCounted' /\ TablesAgree' /\ SentIsHeld' /\ \A e \in Rows' : outbound'[e].version > 0
<1>0. TypeOK /\ outbound \in [Days -> Row \cup {NoRow}]
  BY DEF ReachInv, TypeInv, TypeOK
<1>1. /\ outbound'[d] \in Row /\ outbound'[d].fate = "owed" /\ owed' = owed \cup {d}
      /\ outbound'[d].version = IF outbound[d] = NoRow THEN 1 ELSE outbound[d].version + 1
      /\ outbound'[d].id = IF outbound[d] = NoRow THEN Cardinality(Rows) + 1 ELSE outbound[d].id
      /\ \A e \in Days \ {d} : outbound'[e] = outbound[e]
  BY <1>0, QueueEventType DEF Rows
<1>2. Rows' = Rows \cup {d}
  BY <1>0, <1>1 DEF Rows
<1>3. IsFiniteSet(Rows) /\ Cardinality(Rows) \in Nat
  BY DaysFinite DEF Rows
<1>4. Cardinality(Rows') = IF d \in Rows THEN Cardinality(Rows) ELSE Cardinality(Rows) + 1
  BY <1>2, <1>3, FS_AddElement
<1>5. \A e \in Rows : outbound[e].id \in Nat /\ outbound[e].id <= Cardinality(Rows)
                      /\ outbound[e].version \in Nat /\ outbound[e].version > 0
  BY <1>0 DEF Rows, Row, ReachInv, IdsCounted, RoundIsHonest
<1>6. d \in Rows <=> outbound[d] # NoRow
  BY DEF Rows
<1>7. IdsCounted'
  BY <1>1, <1>2, <1>3, <1>4, <1>5, <1>6 DEF IdsCounted, Rows
<1>8. \A e \in Rows' : outbound'[e].version > 0
  BY <1>1, <1>2, <1>5, <1>6 DEF Rows
<1>9. TablesAgree'
  <2>1. owed' = {e \in Days : Has(e, "owed")'}
    BY <1>0, <1>1 DEF ReachInv, TablesAgree, Has
  <2>2. ASSUME NEW e \in Rows', NEW f \in Rows', e # f PROVE outbound'[e].id # outbound'[f].id
    <3>1. \A g \in Rows \ {d} : outbound'[g] = outbound[g]
      BY <1>1 DEF Rows
    <3>2. \A g \in Rows, h \in Rows : g # h => outbound[g].id # outbound[h].id
      BY DEF Rows, ReachInv, TablesAgree
    <3>3. \A g \in Rows \ {d} : outbound'[d].id # outbound[g].id
      BY <1>1, <1>3, <1>5, <1>6, <3>2
    <3> QED BY <1>2, <2>2, <3>1, <3>2, <3>3
  <2> QED BY <2>1, <2>2 DEF TablesAgree, Rows
<1>10. SentIsHeld'
  BY <1>0, <1>1 DEF ReachInv, SentIsHeld, Has, OutOfWindow
<1> QED BY <1>7, <1>8, <1>9, <1>10

(* The tables after rows were closed. *)
LEMMA CloseKeeps ==
  ASSUME ReachInv, TypeOK', NEW S \in SUBSET Rows, NEW fate \in {"sent", "abandoned"},
         outbound' = [d \in Days |-> IF d \in S THEN [outbound[d] EXCEPT !.fate = fate]
                                     ELSE outbound[d]],
         owed' = owed \ S
  PROVE  /\ IdsCounted' /\ TablesAgree' /\ \A e \in Rows' : outbound'[e].version > 0
         /\ \A d \in Days : Has(d, "sent")' => d \in S \/ Has(d, "sent")
         /\ \A d \in Days : Has(d, "abandoned")' =>
                                 (fate = "abandoned" /\ d \in S) \/ Has(d, "abandoned")
<1>0. outbound \in [Days -> Row \cup {NoRow}] /\ outbound' \in [Days -> Row \cup {NoRow}]
      /\ \A d \in Rows : outbound[d] \in Row
  BY DEF ReachInv, TypeInv, TypeOK, Rows
<1>1. \A d \in S : /\ outbound'[d] \in Row /\ outbound'[d].fate = fate
                   /\ outbound'[d].id = outbound[d].id
                   /\ outbound'[d].version = outbound[d].version
  BY <1>0 DEF Row, Fate, Rows
<1>2. \A d \in Days \ S : outbound'[d] = outbound[d]
  OBVIOUS
<1>3. Rows' = Rows
  BY <1>1, <1>2 DEF Rows
<1>4. \A d \in Rows : outbound'[d].id = outbound[d].id /\ outbound'[d].version = outbound[d].version
  BY <1>1, <1>2 DEF Rows
<1>5. \A d \in Rows : outbound[d].id <= Cardinality(Rows) /\ outbound[d].version > 0
  BY DEF ReachInv, IdsCounted, RoundIsHonest
<1>6. IdsCounted' /\ \A e \in Rows' : outbound'[e].version > 0
  BY <1>3, <1>4, <1>5 DEF IdsCounted
<1>7. owed' = {d \in Days : Has(d, "owed")'}
  BY <1>1, <1>2 DEF ReachInv, TablesAgree, Has, Rows
<1>8. \A e, f \in Rows : e # f => outbound'[e].id # outbound'[f].id
  BY <1>4 DEF Rows, ReachInv, TablesAgree
<1>9. TablesAgree'
  BY <1>3, <1>7, <1>8 DEF TablesAgree, Rows
<1> QED BY <1>1, <1>2, <1>6, <1>9 DEF Has, Rows

LEMMA InitReach == Init => ReachInv
<1> SUFFICES ASSUME Init PROVE ReachInv
  OBVIOUS
<1>1. Rows = {} /\ outbound = [d \in Days |-> NoRow]
  BY DEF Init, Rows
<1> QED
  BY <1>1, InitType, IdleType
     DEF Init, ReachInv, IdsCounted, TablesAgree, SentIsHeld, RoundIsHonest, Has

LEMMA StepReach == ReachInv /\ [Next]_vars => ReachInv'
<1> SUFFICES ASSUME ReachInv, [Next]_vars PROVE ReachInv'
  OBVIOUS
<1>0. TypeInv /\ TypeInv' /\ TypeOK /\ TypeOK'
  BY StepType DEF ReachInv, TypeInv
<1>1. \A d \in Days : Settled(d) => Settled(d)'
  BY <1>0, SettledStays DEF ReachInv
<1>2. /\ \A d \in Days : Has(d, "sent") => Settled(d)
      /\ \A r \in outbox.queue : r.day \in Rows
      /\ outbox.sent \in SUBSET Rows
  BY <1>0 DEF ReachInv, SentIsHeld, Settled, TypeInv, HasRows, TypeOK, Rows, Report
<1>3. IdsCounted' /\ TablesAgree' /\ SentIsHeld' /\ \A d \in Rows' : outbound'[d].version > 0
  <2>1. CASE UNCHANGED tables
    <3>1. UNCHANGED <<outbound, owed>>
      BY <2>1 DEF tables
    <3>2. IdsCounted' /\ TablesAgree' /\ \A d \in Rows' : outbound'[d].version > 0
      BY <3>1 DEF ReachInv, IdsCounted, TablesAgree, RoundIsHonest, Rows, Has
    <3>3. SentIsHeld'
      BY <1>1, <1>2, <3>1 DEF SentIsHeld, Settled, Has
    <3> QED BY <3>2, <3>3
  <2>2. ASSUME NEW queued \in BOOLEAN, CloseTheDay(queued), ~(UNCHANGED tables)
        PROVE  IdsCounted' /\ TablesAgree' /\ SentIsHeld' /\ \A d \in Rows' : outbound'[d].version > 0
    <3>1. today \in Days /\ QueueEvent(today) /\ UNCHANGED <<siteDay, fleetClock>>
      BY <1>0, <2>2 DEF CloseTheDay, TypeOK, clocks
    <3> QED BY <3>1, QueueKeeps
  <2>3. ASSUME NEW r \in outbox.queue, AnswerRefused(r)
        PROVE  IdsCounted' /\ TablesAgree' /\ SentIsHeld' /\ \A d \in Rows' : outbound'[d].version > 0
    <3>1. {r.day} \in SUBSET Rows
      BY <1>2
    <3>2. /\ owed' = owed \ {r.day}
          /\ outbound' = [d \in Days |-> IF d \in {r.day}
                                         THEN [outbound[d] EXCEPT !.fate = "abandoned"]
                                         ELSE outbound[d]]
      BY <1>0, <2>3, <3>1 DEF AnswerRefused, TypeOK
    <3>3. /\ IdsCounted' /\ TablesAgree' /\ \A d \in Rows' : outbound'[d].version > 0
          /\ \A d \in Days : Has(d, "sent")' => d = r.day \/ Has(d, "sent")
      BY <1>0, <3>1, <3>2, CloseKeeps
    <3>4. ~Has(r.day, "sent")'
      BY <1>0, <1>2, <2>3 DEF AnswerRefused, Has, TypeOK, Rows, Row
    <3> QED BY <1>1, <1>2, <3>3, <3>4 DEF SentIsHeld, Settled
  <2>4. CASE MarkSent
    <3>1. /\ IdsCounted' /\ TablesAgree' /\ \A d \in Rows' : outbound'[d].version > 0
          /\ \A d \in Days : Has(d, "sent")' => d \in outbox.sent \/ Has(d, "sent")
      BY <1>0, <1>2, <2>4, CloseKeeps DEF MarkSent
    <3> QED BY <1>1, <1>2, <3>1 DEF ReachInv, RoundIsHonest, SentIsHeld, Settled
  <2> QED BY <2>1, <2>2, <2>3, <2>4, TableSteps
<1>4. \A d \in outbox'.sent : Settled(d)'
  <2>1. ASSUME NEW r \in outbox.queue, AnswerTaken(r) PROVE Settled(r.day)
    BY <2>1 DEF AnswerTaken, ReachInv, RoundIsHonest
  <2>2. \A d \in outbox'.sent : d \in Days /\ Settled(d)
    BY <1>0, <2>1, RoundSteps DEF ReachInv, RoundIsHonest, TypeOK
  <2> QED BY <1>1, <2>2
<1>5. outbox'.at = "taken" => \A r \in outbox'.queue : First(r)' => Settled(r.day)'
  <2> SUFFICES ASSUME outbox'.at = "taken", NEW r \in outbox'.queue, First(r)'
               PROVE  Settled(r.day)'
    OBVIOUS
  <2>0. r.day \in Days
    BY <1>0 DEF TypeOK, Report
  <2>1. CASE outbox' = outbox
    BY <1>1, <2>0, <2>1 DEF ReachInv, RoundIsHonest, First
  <2>2. ASSUME NEW s \in outbox.queue, ReportTaken(s) PROVE Settled(r.day)'
    <3>1. outbox'.queue = outbox.queue /\ First(s) /\ siteDay' = [siteDay EXCEPT ![s.day] = s.version]
      BY <1>0, <2>2 DEF ReportTaken, TypeOK
    <3>2. First(r)
      BY <3>1 DEF First
    <3>3. r = s
      BY <1>0, <3>1, <3>2, FirstIsOne
    <3>4. siteDay'[r.day] > 0
      BY <1>0, <2>0, <3>1, <3>3 DEF TypeOK, ReachInv, RoundIsHonest
    <3> QED BY <3>4 DEF Settled
  <2> QED BY <1>0, <2>1, <2>2, TakenSteps
<1>6. \A r \in outbox'.queue : r.version > 0
  <2>1. \A r \in PendingOutbound : r.version > 0
    BY <1>0, BacklogType DEF ReachInv, RoundIsHonest, Rows, TypeOK
  <2> QED BY <1>0, <2>1, RoundSteps DEF ReachInv, RoundIsHonest
<1>7. \A q \in strays' : q.version > 0
  <2>1. \A q \in strays : q.version > 0 /\ \A r \in outbox.queue : r.version > 0
    BY DEF ReachInv, RoundIsHonest
  <2>2. CASE strays' \subseteq strays
    BY <2>1, <2>2
  <2>3. ASSUME NEW r \in outbox.queue,
               strays' = strays \cup {[day |-> r.day, version |-> r.version, signed |-> outbox.now]}
        PROVE  \A q \in strays' : q.version > 0
    BY <2>1, <2>3 DEF ReachInv, RoundIsHonest
  <2> QED
    BY <2>2, <2>3
       DEF Next, vars, Advance, SetClock, CloseTheDay, BeginRound, ReadBacklog, AnswerTaken,
           AnswerRefused, PostFails, PostStraggles, AnswerLost, MarkSent, StoreFails, Crash, Start,
           ReportTaken, ReportRefused, StrayHandled, StrayVanishes, FleetPrunes
<1> QED BY <1>0, <1>3, <1>4, <1>5, <1>6, <1>7 DEF ReachInv, RoundIsHonest

(***************************************************************************)
(* A day has one row and the row is open exactly while it is owed, however *)
(* often and under whatever clock it is queued.                            *)
(***************************************************************************)
THEOREM TablesAlwaysAgree == Spec => []TablesAgree
<1>1. ReachInv => TablesAgree
  BY DEF ReachInv
<1> QED
  BY <1>1, InitReach, StepReach, PTL DEF Spec

(***************************************************************************)
(* No report is marked as sent that obsd has nothing of, wherever a round  *)
(* is cut short and however late its requests arrive.                      *)
(***************************************************************************)
THEOREM SentAlwaysHeld == Spec => []SentIsHeld
<1>1. ReachInv => SentIsHeld
  BY DEF ReachInv
<1> QED
  BY <1>1, InitReach, StepReach, PTL DEF Spec
-----------------------------------------------------------------------------
(* A round began before now, whatever the box's own clock says of it. *)
RoundHasBegun == outbox.at # "idle" => outbox.since <= fleetClock

(* What is answered with a refusal is one obsd read and will not have, or  *)
(* one whose signature it could not take for fresh, then or now.           *)
RefusalHasCause ==
  outbox.at = "refused" =>
    \A r \in outbox.queue : First(r) => r.day \in Refused \cup Unverifiable

(* Inductive however long a round lasts and however the clock is set. *)
GiveUpInv == /\ ReachInv
             /\ RoundHasBegun
             /\ RefusalHasCause

(* A refusal is only ever heard after obsd has given it. *)
LEMMA RefusedSteps ==
  ASSUME TypeInv, [Next]_vars, outbox'.at = "refused"
  PROVE  outbox' = outbox \/ \E r \in outbox.queue : ReportRefused(r)
<1>0. outbox \in OutboxType
  BY DEF TypeInv, TypeOK, OutboxType
<1>1. \A sent \in SUBSET Days : EndRound(sent).at # "refused"
  BY <1>0, EndRoundType, IdleType
<1>2. \A r \in outbox.queue : \A sent \in SUBSET Days : Proceed(r, sent).at # "refused"
  BY <1>0, ProceedType, IdleType
<1>3. outbox.sent \in SUBSET Days
      /\ \A r \in outbox.queue : outbox.sent \cup {r.day} \in SUBSET Days
  BY <1>0 DEF OutboxType, Report
<1>4. ~BeginRound
  BY IdleType DEF BeginRound, Idle
<1>5. ~ReadBacklog
  BY <1>0, IdleType DEF ReadBacklog, OutboxType
<1>6. ASSUME NEW r \in outbox.queue PROVE ~AnswerTaken(r) /\ ~AnswerRefused(r)
  BY <1>2, <1>3 DEF AnswerTaken, AnswerRefused
<1>7. ASSUME NEW r \in outbox.queue PROVE ~ReportTaken(r)
  BY <1>0 DEF ReportTaken, OutboxType
<1>8. outbox' # Idle /\ outbox' # EndRound(outbox.sent)
  BY <1>1, <1>3, IdleType
<1> QED
  BY <1>4, <1>5, <1>6, <1>7, <1>8
     DEF Next, vars, Advance, SetClock, CloseTheDay, PostFails, PostStraggles, AnswerLost,
         MarkSent, StoreFails, Crash, Start, StrayHandled, StrayVanishes, FleetPrunes

(* A round keeps the instants it began with. *)
LEMMA RoundKeepsItsInstants ==
  ASSUME TypeInv, [Next]_vars, outbox'.at # "idle"
  PROVE  \/ BeginRound
         \/ outbox.at # "idle" /\ outbox'.now = outbox.now /\ outbox'.since = outbox.since
<1>0. outbox \in OutboxType
  BY DEF TypeInv, TypeOK, OutboxType
<1>1. \A sent \in SUBSET Days :
        EndRound(sent).at # "idle"
          => EndRound(sent).now = outbox.now /\ EndRound(sent).since = outbox.since
  BY <1>0, EndRoundType, IdleType
<1>2. \A r \in outbox.queue : \A sent \in SUBSET Days :
        Proceed(r, sent).at # "idle"
          => Proceed(r, sent).now = outbox.now /\ Proceed(r, sent).since = outbox.since
  BY <1>0, ProceedType, IdleType
<1>3. outbox.sent \in SUBSET Days
      /\ \A r \in outbox.queue : outbox.sent \cup {r.day} \in SUBSET Days
  BY <1>0 DEF OutboxType, Report
<1>4. outbox' # Idle
  BY IdleType
<1>5. ASSUME NEW r \in outbox.queue, AnswerTaken(r) \/ AnswerRefused(r)
      PROVE  outbox.at # "idle" /\ outbox'.now = outbox.now /\ outbox'.since = outbox.since
  BY <1>2, <1>3, <1>5 DEF AnswerTaken, AnswerRefused
<1>6. ASSUME NEW r \in outbox.queue, ReportTaken(r) \/ ReportRefused(r)
      PROVE  outbox.at # "idle" /\ outbox'.now = outbox.now /\ outbox'.since = outbox.since
  BY <1>0, <1>6 DEF ReportTaken, ReportRefused, OutboxType
<1>7. ASSUME NEW r \in outbox.queue, PostStraggles(r)
      PROVE  outbox.at # "idle" /\ outbox'.now = outbox.now /\ outbox'.since = outbox.since
  BY <1>1, <1>3, <1>7 DEF PostStraggles
<1>8. ASSUME PostFails \/ AnswerLost
      PROVE  outbox.at # "idle" /\ outbox'.now = outbox.now /\ outbox'.since = outbox.since
  BY <1>1, <1>3, <1>8 DEF PostFails, AnswerLost
<1>9. ASSUME ReadBacklog
      PROVE  outbox.at # "idle" /\ outbox'.now = outbox.now /\ outbox'.since = outbox.since
  BY <1>0, <1>4, <1>9 DEF ReadBacklog, OutboxType
<1>10. CASE outbox' = outbox
  BY <1>10
<1> QED
  BY <1>4, <1>5, <1>6, <1>7, <1>8, <1>9, <1>10
     DEF Next, vars, Advance, SetClock, CloseTheDay, MarkSent, StoreFails, Crash, Start,
         StrayHandled, StrayVanishes, FleetPrunes

LEMMA InitGiveUp == Init => GiveUpInv
BY InitReach, IdleType DEF Init, GiveUpInv, RoundHasBegun, RefusalHasCause

(* obsd's clock is never set back. *)
LEMMA FleetClockGoesOn ==
  ASSUME TypeOK, [Next]_vars
  PROVE  fleetClock' \in Nat /\ fleetClock \in Nat /\ fleetClock <= fleetClock'
<1>1. fleetClock \in Nat
  BY DEF TypeOK, Times
<1>2. fleetClock' = fleetClock \/ fleetClock' = fleetClock + 1
  BY DEF Next, vars, clocks, Advance, SetClock, CloseTheDay, BeginRound, ReadBacklog,
         AnswerTaken, AnswerRefused, PostFails, PostStraggles, AnswerLost, MarkSent, StoreFails,
         Crash, Start, ReportTaken, ReportRefused, StrayHandled, StrayVanishes, FleetPrunes
<1> QED BY <1>1, <1>2

LEMMA StepGiveUp == GiveUpInv /\ [Next]_vars => GiveUpInv'
<1> SUFFICES ASSUME GiveUpInv, [Next]_vars PROVE GiveUpInv'
  OBVIOUS
<1>0. ReachInv /\ ReachInv' /\ TypeInv /\ TypeOK /\ TypeOK' /\ outbox \in OutboxType
  BY StepReach DEF GiveUpInv, ReachInv, TypeInv, TypeOK, OutboxType
<1>1. fleetClock \in Nat /\ outbox.now \in Nat /\ outbox.since \in Nat
  BY <1>0 DEF TypeOK, OutboxType, Times
<1>2. fleetClock' \in Nat /\ fleetClock <= fleetClock'
  BY <1>0, FleetClockGoesOn
<1>3. RoundHasBegun'
  <2>1. CASE BeginRound
    BY <1>2, <2>1 DEF BeginRound, Idle, RoundHasBegun, clocks
  <2>2. ASSUME outbox'.at # "idle", ~BeginRound PROVE outbox'.since <= fleetClock'
    BY <1>0, <1>1, <1>2, <2>2, RoundKeepsItsInstants DEF GiveUpInv, RoundHasBegun
  <2> QED BY <2>1, <2>2 DEF RoundHasBegun
<1>4. RefusalHasCause'
  <2> SUFFICES ASSUME outbox'.at = "refused", NEW r \in outbox'.queue, First(r)'
               PROVE  r.day \in Refused \/ r.day \in Unverifiable'
    BY DEF RefusalHasCause
  <2>1. CASE outbox' = outbox
    <3>1. r.day \in Refused \/ r.day \in Unverifiable
      BY <2>1 DEF GiveUpInv, RefusalHasCause, First
    <3>2. Overlong => Overlong'
      BY <1>1, <1>2, <2>1, ReportLaneAssumption DEF Overlong, Skew, RoundAge
    <3> QED BY <2>1, <3>1, <3>2 DEF Unverifiable
  <2>2. ASSUME NEW s \in outbox.queue, ReportRefused(s)
        PROVE  r.day \in Refused \/ r.day \in Unverifiable'
    <3>1. /\ outbox.at = "posting" /\ First(s) /\ fleetClock' = fleetClock
          /\ outbox'.queue = outbox.queue
          /\ outbox'.now = outbox.now /\ outbox'.since = outbox.since
      BY <1>0, <2>2 DEF ReportRefused, OutboxType, clocks
    <3>2. r = s /\ r.day \in Days
      BY <1>0, <3>1, FirstIsOne DEF First, OutboxType, Report
    <3>3. ~Verified(outbox.now) => Overlong'
      <4>1. outbox.since <= fleetClock
        BY <3>1 DEF GiveUpInv, RoundHasBegun
      <4> QED BY <1>1, <3>1, <4>1, ReportLaneAssumption DEF Verified, Overlong, Skew, RoundAge
    <3> QED BY <2>2, <3>2, <3>3 DEF ReportRefused, Unverifiable
  <2> QED BY <1>0, <2>1, <2>2, RefusedSteps
<1> QED BY <1>0, <1>3, <1>4 DEF GiveUpInv

(* A row is given up in one place only. *)
LEMMA GivenUpIsRefused ==
  ASSUME GiveUpInv, [Next]_vars, NEW d \in Days, Has(d, "owed"), Has(d, "abandoned")'
  PROVE  d \in Refused \cup Unverifiable
<1>0. TypeInv /\ TypeOK /\ outbound \in [Days -> Row \cup {NoRow}]
  BY DEF GiveUpInv, ReachInv, TypeInv, TypeOK
<1>1. ~UNCHANGED tables
  BY DEF tables, Has
<1>2. ASSUME NEW queued \in BOOLEAN, CloseTheDay(queued) PROVE FALSE
  <2>1. today \in Days /\ QueueEvent(today)
    BY <1>0, <1>1, <1>2 DEF CloseTheDay, TypeOK
  <2>2. outbound'[today].fate = "owed" /\ \A e \in Days \ {today} : outbound'[e] = outbound[e]
    BY <1>0, <2>1, QueueEventType
  <2> QED BY <2>2 DEF Has
<1>3. ASSUME NEW r \in outbox.queue, AnswerRefused(r) PROVE d \in Refused \cup Unverifiable
  <2>1. r.day \in Refused \cup Unverifiable
    BY <1>3 DEF AnswerRefused, GiveUpInv, RefusalHasCause
  <2>2. d # r.day => outbound'[d] = outbound[d]
    BY <1>0, <1>3 DEF AnswerRefused
  <2> QED BY <2>1, <2>2 DEF Has
<1>4. CASE MarkSent
  <2>1. IF d \in outbox.sent THEN outbound'[d] = [outbound[d] EXCEPT !.fate = "sent"]
        ELSE outbound'[d] = outbound[d]
    BY <1>4 DEF MarkSent
  <2>2. d \in outbox.sent => outbound[d] \in Row
    BY <1>0 DEF TypeInv, HasRows, TypeOK
  <2> QED BY <2>1, <2>2 DEF Has, Row
<1> QED BY <1>0, <1>1, <1>2, <1>3, <1>4, TableSteps

(***************************************************************************)
(* However long a round lasts, however many calls come to nothing and      *)
(* however the clock is set: the box gives up on no report but one obsd    *)
(* read and will not have, and those of a round that outlasts the          *)
(* tolerance, less what the clocks already differed by when it began.      *)
(***************************************************************************)
THEOREM GivenUpAlwaysReadOrLate == Spec => GivenUpIsReadOrLate
<1>1. GiveUpInv /\ [Next]_vars
        => [\A d \in Days : Has(d, "owed") /\ Has(d, "abandoned")'
                              => d \in Refused \cup Unverifiable]_vars
  BY GivenUpIsRefused
<1> QED
  BY <1>1, InitGiveUp, StepGiveUp, PTL DEF Spec, GivenUpIsReadOrLate
-----------------------------------------------------------------------------
(***************************************************************************)
(* The lane implements the at-least-once leg.                              *)
(***************************************************************************)
Taken == {d \in Days : siteDay[d] > 0}

LEMMA LegStep ==
  ASSUME GiveUpInv, [Next]_vars
  PROVE  [Leg!Next]_(Leg!vars)
<1>0. ReachInv /\ TypeOK /\ HasRows /\ RoundIsHonest /\ outbox \in OutboxType
  BY DEF GiveUpInv, ReachInv, TypeInv, TypeOK, OutboxType
<1> USE DEF clocks, tables
<1>due. Due' \in SUBSET Days
  BY DEF Due
<1> USE <1>due DEF Due
<1>elapse. ASSUME UNCHANGED <<owed, siteDay>> PROVE Leg!Next
  BY <1>elapse DEF Leg!Next, Leg!Elapse
<1>1. ASSUME NEW queued \in BOOLEAN, CloseTheDay(queued) PROVE Leg!Next
  <2>1. CASE ~queued
    BY <1>1, <2>1, <1>elapse DEF CloseTheDay
  <2>2. CASE queued
    <3>1. PICK new \in SUBSET Days : new = {today}
      BY <1>0, <1>1 DEF CloseTheDay, TypeOK
    <3>2. Leg!Write(new, {})
      BY <1>1, <2>2, <3>1 DEF Leg!Write, CloseTheDay, QueueEvent
    <3> QED BY <3>2 DEF Leg!Next
  <2> QED BY <2>1, <2>2
<1>2. ASSUME NEW r \in outbox.queue, AnswerRefused(r) PROVE Leg!Next
  <2>1. r.day \in Days
    BY <1>0 DEF OutboxType, Report
  <2>2. r.day \in Due
    BY <1>2, <2>1 DEF AnswerRefused, GiveUpInv, RefusalHasCause
  <2>3. PICK S \in SUBSET Days : S = {r.day}
    BY <2>1
  <2>4. Leg!Acknowledge(S)
    BY <1>2, <2>2, <2>3 DEF AnswerRefused, Leg!Acknowledge
  <2> QED BY <2>4 DEF Leg!Next
<1>3. CASE MarkSent
  <2>1. outbox.sent \in SUBSET Days
    BY <1>0 DEF OutboxType
  <2>2. outbox.sent \subseteq Taken \cup Due
    BY <1>0, <2>1 DEF RoundIsHonest, Settled, Taken
  <2>3. Leg!Acknowledge(outbox.sent)
    BY <1>3, <2>2 DEF MarkSent, Leg!Acknowledge, Taken
  <2> QED BY <2>1, <2>3 DEF Leg!Next
<1>4. ASSUME NEW d \in Days, NEW version \in Nat, version > 0,
             siteDay' = [siteDay EXCEPT ![d] = version], UNCHANGED owed
      PROVE  Leg!Next
  <2>1. \A e \in Days : siteDay'[e] > 0 <=> e \in Taken \cup {d}
    BY <1>0, <1>4 DEF Taken, TypeOK
  <2>2. PICK S \in SUBSET Days : S = {d}
    BY <1>4
  <2>3. Leg!Take(S)
    BY <1>4, <2>1, <2>2 DEF Leg!Take, Taken
  <2> QED BY <2>3 DEF Leg!Next
<1>5. ASSUME NEW r \in outbox.queue, ReportTaken(r) PROVE Leg!Next
  BY <1>0, <1>4, <1>5 DEF ReportTaken, OutboxType, Report, RoundIsHonest
<1>6. ASSUME NEW q \in strays, StrayHandled(q) PROVE Leg!Next
  <2>1. CASE siteDay' = siteDay
    BY <1>6, <2>1, <1>elapse DEF StrayHandled
  <2>2. CASE siteDay' = [siteDay EXCEPT ![q.day] = q.version]
    BY <1>0, <1>4, <1>6, <2>2 DEF StrayHandled, TypeOK, Request, RoundIsHonest
  <2> QED BY <1>6, <2>1, <2>2 DEF StrayHandled
<1>7. CASE FleetPrunes
  <2>1. PICK released \in SUBSET Days :
              \A d \in Days : d \in released <=> OutOfWindow(d)
    <3>1. {d \in Days : OutOfWindow(d)} \in SUBSET Days
      OBVIOUS
    <3> QED BY <3>1
  <2>2. \A d \in Days : siteDay'[d] > 0 <=> d \in Taken \ released
    BY <1>0, <1>7, <2>1 DEF FleetPrunes, Taken, TypeOK
  <2>3. Leg!Release(released)
    BY <1>7, <2>1, <2>2 DEF FleetPrunes, Leg!Release, Taken
  <2> QED BY <2>3 DEF Leg!Next
<1>8. CASE UNCHANGED <<owed, siteDay>> /\ Next
  BY <1>8, <1>elapse
<1>9. CASE UNCHANGED vars
  BY <1>9 DEF vars, Leg!vars, OutOfWindow, Unverifiable, Overlong, Skew, RoundAge
<1> QED
  BY <1>1, <1>2, <1>3, <1>5, <1>6, <1>7, <1>8, <1>9
     DEF Next, Advance, SetClock, BeginRound, ReadBacklog, AnswerTaken, PostFails, PostStraggles,
         AnswerLost, StoreFails, Crash, Start, ReportRefused, StrayVanishes

(***************************************************************************)
(* However long a round lasts and however the clock is set, a day stops    *)
(* being owed only once obsd has taken it, has read and refused it, or     *)
(* keeps days that old no more, or while the box posts it in a round that  *)
(* has outlasted the tolerance: every step of the lane is a step of the    *)
(* at-least-once leg or leaves it alone.                                   *)
(***************************************************************************)
THEOREM LaneIsAtLeastOnce == Spec => ImplementsAtLeastOnce
<1>1. Init => Leg!Init
  BY DEF Init, Leg!Init, Due
<1>2. GiveUpInv /\ [Next]_vars => [Leg!Next]_(Leg!vars)
  BY LegStep
<1> QED
  BY <1>1, <1>2, InitGiveUp, StepGiveUp, PTL DEF Spec, ImplementsAtLeastOnce, Leg!Spec
=============================================================================
