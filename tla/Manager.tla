------------------------------- MODULE Manager -------------------------------
(***************************************************************************)
(* A customer energy manager driving one asset of the household over S2:   *)
(*                                                                         *)
(*   hems-flex session.rs       the resource manager's half of the         *)
(*                              conversation: one Session a connection     *)
(*   hemsd runtime/s2.rs        serve pumps a connection, apply puts what  *)
(*                              the session decided into the shared map    *)
(*                              Cem, whose lock is held for one operation  *)
(*   hemsd runtime/control.rs   reads the map, decides, and only then says *)
(*                              what the guard took back                   *)
(*                                                                         *)
(* Nothing stops a manager from opening a second connection for the same   *)
(* asset while the first one is still thought to be there: every           *)
(* connection is a task of its own, and the map is shared by all of them.  *)
(***************************************************************************)
EXTENDS Integers, Sequences, SequencesExt

CONSTANTS Conns,        \* the connections there can be at one time, numbered
          For,          \* instruction_for
          MaxPending,   \* MAX_PENDING
          NoRequest,    \* no entry in the map
          NoInstruction,
          LastTime,     \* bound: the last instant of the run
          MaxId         \* bound: the instructions that are sent

ASSUME ManagerAssumption ==
  /\ Conns \subseteq Nat
  /\ For \in Nat
  /\ MaxPending \in Nat
  /\ LastTime \in Nat
  /\ MaxId \in Nat
  /\ NoInstruction \notin 1 .. MaxId

Times == 0 .. LastTime

(* An instruction is named by its place among all that were sent: S2 wants *)
(* identifiers nobody has used before.                                     *)
Id == 1 .. MaxId

State == {"Gone", "AwaitingHandshake", "AwaitingVersion", "AwaitingControlType",
          "Active", "Closed"}
Scheduled == [at : Times, instruction : Id]

(* The events apply acts on; the others are counted or logged. *)
Event == [kind : {"Instructed", "Released"}, instruction : Id \cup {NoInstruction}]

(* The messages about an instruction: what came of receiving it, and its   *)
(* statuses.  What is said about the session itself is left out.           *)
Says == {"OK", "InvalidContent", "TemporaryError",
         "Accepted", "Rejected", "Started", "Revoked", "Aborted"}

CemRequest == [instruction : Id, until : 0 .. LastTime + For]
Outstanding == [id : Id, told : BOOLEAN]

ASSUME NoRequestAssumption == NoRequest \notin CemRequest \cup Outstanding

VARIABLES
  now,       \* the wall clock, which everybody reads
  session,   \* each connection's Session
  held,      \* Held, for this asset
  loop,      \* where the control loop is in a tick, and whose word it read
  sent,      \* history: who sent each instruction
  said       \* history: what the sessions said of each instruction, in order

vars == <<now, session, held, loop, sent, said>>

NoSession == [state |-> "Gone", pending |-> << >>, events |-> << >>]
NothingHeld == [request |-> NoRequest, outstanding |-> NoRequest, overridden |-> FALSE]
Waiting == [at |-> "waiting", managed |-> NoInstruction]

Init == /\ now = 0
        /\ session = [c \in Conns |-> NoSession]
        /\ held = NothingHeld
        /\ loop = Waiting
        /\ sent = << >>
        /\ said = [i \in Id |-> << >>]

Tick == /\ now < LastTime
        /\ now' = now + 1
        /\ UNCHANGED <<session, held, loop, sent, said>>
-----------------------------------------------------------------------------
(* Session *)

Emit(i, kind) == [kind |-> kind, instruction |-> i]

(* The outbox is emptied onto the wire before the next message is read:    *)
(* what is due has begun, then what is said of the one instruction the     *)
(* message is about.                                                       *)
Speak(due, i, words) ==
  said' = [j \in Id |->
    said[j] \o (IF \E n \in DOMAIN due : due[n].instruction = j THEN <<"Started">> ELSE << >>)
            \o (IF j = i THEN words ELSE << >>)]

(* partition_point: how many of a queue in time order are for no later than *)
(* an instant.                                                             *)
Until(pending, at) ==
  CHOOSE k \in 0 .. Len(pending) : \A n \in DOMAIN pending : pending[n].at <= at <=> n <= k

(* advance: whatever is due starts, in the order of the queue.  The code   *)
(* takes the due out one by one; in a queue in time order they stand first. *)
Due(s) == IF s.state = "Active" THEN SubSeq(s.pending, 1, Until(s.pending, now)) ELSE << >>

(* start: the event that makes it happen. *)
StartEvents(due) == [n \in DOMAIN due |-> Emit(due[n].instruction, "Instructed")]
Started(s, due) == [s EXCEPT !.pending = SubSeq(@, Len(due) + 1, Len(@)),
                             !.events = @ \o StartEvents(due)]
Advanced(s) == Started(s, Due(s))

(* open, on a connection the surface has just accepted: it takes the first *)
(* place that is free.                                                     *)
Connect(c) == /\ session[c].state = "Gone"
              /\ \A d \in Conns : d < c => session[d].state # "Gone"
              /\ session' = [session EXCEPT ![c].state = "AwaitingHandshake"]
              /\ UNCHANGED <<now, held, loop, sent, said>>

(* serve is at its select: all that happened is in the map. *)
Listening(c) == session[c].state \notin {"Gone", "Closed"} /\ session[c].events = << >>

(* Mutant: what was asked for is said before the message is acknowledged. *)
AnswerLast(c, s, i, reception, says) ==
  /\ Listening(c)
  /\ session' = [session EXCEPT ![c] = s]
  /\ Speak(Due(session[c]), i, says \o reception)
  /\ UNCHANGED <<now, held, loop>>

(* on_message, for a session s in which what was due has started and the   *)
(* message, about instruction i if any, has been handled: the              *)
(* ReceptionStatus goes in behind what was due, and before whatever the    *)
(* handler said.                                                           *)
Answer(c, s, i, reception, says) ==
  /\ Listening(c)
  /\ session' = [session EXCEPT ![c] = s]
  /\ Speak(Due(session[c]), i, reception \o says)
  /\ UNCHANGED <<now, held, loop>>

(* A message that is about no instruction. *)
Acknowledge(c, s) == /\ Answer(c, s, NoInstruction, << >>, << >>)
                     /\ UNCHANGED sent

(* close: the schedule goes with the manager that made it. *)
CloseSession(s) == [s EXCEPT !.state = "Closed", !.pending = << >>]

Handshake(c) ==
  /\ session[c].state = "AwaitingHandshake"
  /\ Acknowledge(c, [session[c] EXCEPT !.state = "AwaitingVersion"])

HandshakeResponse(c) ==
  /\ session[c].state = "AwaitingVersion"
  /\ Acknowledge(c, [session[c] EXCEPT !.state = "AwaitingControlType"])

(* A version that is not ours, a control type that was not offered, or a   *)
(* message the state does not expect.                                      *)
Breach(c) == Acknowledge(c, CloseSession(Advanced(session[c])))

(* select, of the control type on offer: again, or for the first time. *)
Select(c) ==
  LET s == Advanced(session[c]) IN
  /\ session[c].state \in {"AwaitingControlType", "Active"}
  /\ Acknowledge(c, [s EXCEPT !.state = "Active"])

(* select, of no control type: the manager lets go. *)
Deselect(c) ==
  LET s == Advanced(session[c])
      released == IF s.state = "Active" THEN <<Emit(NoInstruction, "Released")>> ELSE << >>
  IN
  /\ session[c].state \in {"AwaitingControlType", "Active"}
  /\ Acknowledge(c, [s EXCEPT !.state = "AwaitingControlType", !.pending = << >>,
                              !.events = @ \o released])

(* revoke: only what still waits can be withdrawn. *)
Revoke(c, i) ==
  LET s == Advanced(session[c])
      waiting == {n \in DOMAIN s.pending : s.pending[n].instruction = i}
  IN
  /\ session[c].state = "Active"
  /\ \/ /\ waiting = {}
        /\ Answer(c, s, i, << >>, << >>)
     \/ \E n \in waiting :
          Answer(c, [s EXCEPT !.pending = RemoveAt(@, n)], i, << >>, <<"Revoked">>)
  /\ UNCHANGED sent

(* A message an active session has no use for: a clock to go by, no more. *)
Ignore(c) == /\ session[c].state = "Active"
             /\ Acknowledge(c, Advanced(session[c]))

NewId == Len(sent) + 1

(* instructed, in the Err arm: nothing this resource described. *)
InstructBadly(c) ==
  LET s == Advanced(session[c]) IN
  /\ session[c].state = "Active"
  /\ NewId \in Id
  /\ sent' = Append(sent, c)
  /\ Answer(c, s, NewId, <<"InvalidContent">>, <<"Rejected">>)

(* In time order, and behind what is for the same time. *)
Enqueued(pending, p) == InsertAt(pending, Until(pending, p.at) + 1, p)

(* instructed, for the time it names: at once, refused, or put in the queue. *)
Instruct(c, at) ==
  LET s == Advanced(session[c])
      p == [at |-> at, instruction |-> NewId]
  IN
  /\ session[c].state = "Active"
  /\ NewId \in Id
  /\ sent' = Append(sent, c)
  /\ \/ /\ at <= now
        /\ Answer(c, [s EXCEPT !.events = @ \o StartEvents(<<p>>)], NewId, <<"OK">>,
                  <<"Accepted", "Started">>)
     \/ /\ at > now
        /\ Len(s.pending) >= MaxPending
        /\ Answer(c, s, NewId, <<"TemporaryError">>, <<"Accepted", "Rejected">>)
     \/ /\ at > now
        /\ Len(s.pending) < MaxPending
        /\ Answer(c, [s EXCEPT !.pending = Enqueued(@, p)], NewId, <<"OK">>, <<"Accepted">>)
-----------------------------------------------------------------------------
(* serve and the map *)

(* Mutant: a report is about measurements only. *)
ReportNothingDue(s) == << >>

(* report: the household's schedule is kept even while the manager is quiet. *)
ReportDue(s) == Due(s)

(* The reports' interval: owed_abort takes the answer it owes, and         *)
(* instruction_became gives it if the session is one that can.             *)
ReportTick(c) ==
  LET due == ReportDue(session[c])
      owed == /\ held.overridden
              /\ held.outstanding # NoRequest
              /\ ~held.outstanding.told
      aborted == IF owed /\ session[c].state = "Active"
                 THEN held.outstanding.id ELSE NoInstruction
  IN
  /\ Listening(c)
  /\ session' = [session EXCEPT ![c] = Started(@, due)]
  /\ Speak(due, aborted, <<"Aborted">>)
  /\ held' = IF owed THEN [held EXCEPT !.outstanding.told = TRUE] ELSE held
  /\ UNCHANGED <<now, loop, sent>>

(* Mutant: what was told of one instruction counts for the next. *)
InstructedOver(i) ==
  [held EXCEPT !.request = [instruction |-> i, until |-> now + For],
               !.outstanding = IF @ = NoRequest THEN [id |-> i, told |-> FALSE]
                               ELSE [id |-> i, told |-> @.told]]

(* Mutant: a request that outlives its time by an instant. *)
InstructedLonger(i) ==
  [held EXCEPT !.request = [instruction |-> i, until |-> now + For + 1],
               !.outstanding = [id |-> i, told |-> FALSE]]

(* instruct: the newest word is the one in force, and nothing has been     *)
(* told of it.                                                             *)
Instructed(i) == [held EXCEPT !.request = [instruction |-> i, until |-> now + For],
                              !.outstanding = [id |-> i, told |-> FALSE]]

(* Mutant: the last instruction runs out on its own. *)
LetGo == [held EXCEPT !.outstanding = NoRequest, !.overridden = FALSE]

(* closed: nobody's word is in force from now on. *)
Cleared == NothingHeld

(* apply, one event and one taking of the lock at a time. *)
Apply(c) ==
  LET event == Head(session[c].events) IN
  /\ session[c].events # << >>
  /\ session' = [session EXCEPT ![c].events = Tail(@)]
  /\ held' = IF event.kind = "Instructed" THEN Instructed(event.instruction) ELSE Cleared
  /\ UNCHANGED <<now, loop, sent, said>>

(* The connection ends, or fails, while the manager had the word. *)
Lost(c) == /\ session[c].state \notin {"Gone", "Closed"}
           /\ session[c].events = << >>
           /\ session' = [session EXCEPT ![c] = [NoSession EXCEPT !.state = "Closed"]]
           /\ UNCHANGED <<now, held, loop, sent, said>>

(* After the loop: whatever was still queued for the manager is dropped. *)
Finish(c) == /\ session[c].state = "Closed"
             /\ session[c].events = << >>
             /\ session' = [session EXCEPT ![c] = NoSession]
             /\ held' = Cleared
             /\ UNCHANGED <<now, loop, sent, said>>
-----------------------------------------------------------------------------
(* The control loop *)

Live == held.request # NoRequest /\ now <= held.request.until

(* active: what has expired drops out on the way past; the rest is what    *)
(* the tick decides about.                                                 *)
LoopReads == /\ loop.at = "waiting"
             /\ held' = IF Live THEN held ELSE [held EXCEPT !.request = NoRequest]
             /\ loop' = [at |-> "deciding",
                         managed |-> IF Live THEN held.request.instruction ELSE NoInstruction]
             /\ UNCHANGED <<now, session, sent, said>>

(* The tick, and tell_the_manager: with nobody to tell, nothing is noted. *)
LoopTells(overriding) ==
  /\ loop.at = "deciding"
  /\ loop' = Waiting
  /\ \/ /\ loop.managed = NoInstruction
        /\ UNCHANGED <<held>>
     \/ /\ loop.managed # NoInstruction
        /\ held' = [held EXCEPT !.overridden = overriding]
  /\ UNCHANGED <<now, session, sent, said>>
-----------------------------------------------------------------------------
Next == \/ Tick
        \/ \E c \in Conns :
             \/ Connect(c)
             \/ Handshake(c)
             \/ HandshakeResponse(c)
             \/ Breach(c)
             \/ Select(c)
             \/ Deselect(c)
             \/ \E i \in Id : Revoke(c, i)
             \/ Ignore(c)
             \/ InstructBadly(c)
             \/ \E at \in Times : Instruct(c, at)
             \/ ReportTick(c)
             \/ Apply(c)
             \/ Lost(c)
             \/ Finish(c)
        \/ LoopReads
        \/ \E overriding \in BOOLEAN : LoopTells(overriding)

Spec == Init /\ [][Next]_vars

(* Time passes; a task that can go on does; and the reports' interval      *)
(* fires for ever, whatever else the select may pick in between.           *)
Fairness == /\ WF_vars(Tick)
            /\ \A c \in Conns : /\ WF_vars(Apply(c))
                                /\ WF_vars(Finish(c))
                                /\ SF_vars(ReportTick(c))

FairSpec == Spec /\ Fairness
-----------------------------------------------------------------------------
InTimeOrder(pending) ==
  \A m, n \in DOMAIN pending : m < n => pending[m].at <= pending[n].at

TypeOK ==
  /\ now \in Times
  /\ session \in [Conns -> [state : State, pending : Seq(Scheduled), events : Seq(Event)]]
  /\ \A c \in Conns : /\ Len(session[c].pending) <= MaxPending
                      /\ InTimeOrder(session[c].pending)
  /\ held \in [request : CemRequest \cup {NoRequest},
               outstanding : Outstanding \cup {NoRequest},
               overridden : BOOLEAN]
  /\ loop \in [at : {"waiting", "deciding"}, managed : Id \cup {NoInstruction}]
  /\ sent \in Seq(Conns) /\ Len(sent) <= MaxId
  /\ said \in [Id -> Seq(Says)]

Said(i, says) == Contains(said[i], says)

(* The word of a manager ends with the manager: whoever gave the request   *)
(* in force is still driving, or the clearing of the map is on its way;    *)
(* and nothing is left waiting of a schedule whose maker has let go.       *)
NobodyElsesWord ==
  /\ held.request # NoRequest =>
       LET s == session[sent[held.request.instruction]] IN
       \/ s.state \in {"Active", "Closed"}
       \/ \E n \in DOMAIN s.events : s.events[n].kind = "Released"
  /\ \A c \in Conns : session[c].pending # << >> => session[c].state = "Active"

(* What the sessions say of an instruction, from the acknowledgement of    *)
(* the message to the last status, is a story S2 knows, whichever of them  *)
(* it is that takes the abort.                                             *)
Story == {<<"OK", "Accepted", "Started", "Aborted">>,
          <<"OK", "Accepted", "Revoked">>,
          <<"TemporaryError", "Accepted", "Rejected">>,
          <<"InvalidContent", "Rejected">>}
StatusesTellAStory == \A i \in Id : \E story \in Story : IsPrefix(said[i], story)

(* What the household accepted for later is begun, or the manager withdrew *)
(* it, or it let go - however quiet everybody is in between.               *)
Waits(c, i) == \E n \in DOMAIN session[c].pending : session[c].pending[n].instruction = i
AcceptedIsAnswered ==
  \A c \in Conns, i \in Id :
    Waits(c, i) ~> (Said(i, "Started") \/ Said(i, "Revoked") \/ session[c].state # "Active")

(* A manager whose instruction the guard overrides hears of it, unless the *)
(* override lifts or the instruction is replaced or taken back first; with *)
(* no other connection to take the answer.                                 *)
Overridden(i) == /\ held.overridden
                 /\ held.outstanding # NoRequest
                 /\ held.outstanding.id = i
OverrideIsTold == \A i \in Id : Overridden(i) ~> (Said(i, "Aborted") \/ ~Overridden(i))
=============================================================================
