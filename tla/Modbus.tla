------------------------------- MODULE Modbus -------------------------------
(***************************************************************************)
(* A device of the household behind one Modbus socket, from the register   *)
(* to what the control loop believes of it:                                *)
(*                                                                         *)
(*   hems-drv modbus/mod.rs, modbus/scan.rs     the SunSpec driver         *)
(*   hems-drv modbus/registers.rs               the declared-map driver    *)
(*   hemsd runtime/transport.rs   the task that owns the socket            *)
(*   hemsd drivers.rs             the registry, behind one lock            *)
(*                                                                         *)
(* A driver is a value behind one interface, and all it does happens under *)
(* the registry's lock: driver says which of the two is registered.  What  *)
(* is interleaved is the transport task, the control loop (which observes  *)
(* and then commands, once a second), the device, and time.  Every         *)
(* deadline is kept as what is left of it.                                 *)
(***************************************************************************)
EXTENDS Integers, Sequences, FiniteSets, SequencesExt

CONSTANTS Drivers,     \* which drivers may be registered
          Bases,       \* BASES, how many
          Base,        \* the one the device answers on
          Chain,       \* the models it publishes, in its order
          Polled,      \* POLLED, the models worth reading, in that order
          Controls,    \* the model a curtailment is written to
          MaxModels,   \* MAX_MODELS
          Points,      \* the points the household declared, how many
          Wants,       \* what may be commanded
          Poll,        \* cadence.poll
          Timeout,     \* cadence.timeout
          BackoffMax,  \* BACKOFF_MAX, the least being one
          MaxHeld,     \* bound: the requests a device may sit on
          MaxQueued,   \* bound: the commands a driver may have to send or hear of
          None

(* What is asked, and the measurement being put together. *)
Purposes == [is : {"Marker", "Header", "Poll", "Curtail", "Readback",   \* SunSpec
                    "Point", "Write"},                                 \* Registers
             n : Nat]
Requests == [id : Nat, purpose : Purposes, age : 0 .. Timeout, held : BOOLEAN]
Pendings == [id : Nat, purpose : Purposes, age : 0 .. Timeout]
Partials == [age : 0 .. Timeout, session : {0, 1}, tainted : BOOLEAN]

ASSUME ModbusAssumption ==
  /\ Drivers \subseteq {"SunSpec", "Registers"}
  /\ Bases \in Nat /\ Base \in 0 .. Bases - 1
  /\ Poll \in Nat \ {0} /\ Timeout \in Nat \ {0} /\ BackoffMax \in Nat \ {0}
  /\ Points \in Nat \ {0} /\ MaxModels \in Nat /\ MaxHeld \in Nat /\ MaxQueued \in Nat
  /\ Wants \subseteq Nat /\ Chain \in Seq(STRING) /\ Polled \in Seq(STRING)
  /\ None \notin Nat \cup {"clean", "tainted"} \cup Partials

VARIABLES
  driver,    \* the driver that is registered
  d,         \* its state
  conn,      \* the transport task
  wire,      \* the requests sent on this socket and not answered
  device,    \* the setpoint it stores, and whether it is in force
  entry,     \* Entry: what the registry believes
  turn       \* where the control loop is in its second

vars == <<driver, d, conn, wire, device, entry, turn>>

Probing(i) == [at |-> "Probing", n |-> i]
Walking(seen) == [at |-> "Walking", n |-> seen]
Done == [at |-> "Done", n |-> 0]

NoEvents == [link |-> None, measured |-> None, outcome |-> None]

NewDriver == [link |-> "Down", outbox |-> << >>, pending |-> None, due |-> None,
              partial |-> None, events |-> NoEvents,
              walk |-> Probing(0), found |-> {}, cursor |-> 0,   \* SunSpec only
              written |-> {}]                                    \* Registers only

Init == /\ driver \in Drivers
        /\ d = NewDriver
        /\ conn = [at |-> "dialling", backoff |-> 1, wake |-> None, session |-> 0]
        /\ wire = << >>
        /\ device = [setpoint |-> 0, on |-> FALSE]
        /\ entry = [link |-> "Down", latest |-> None]
        /\ turn = "observe"
-----------------------------------------------------------------------------
(* Either driver *)

Least(S) == CHOOSE x \in S : \A y \in S : x <= y
Smaller(a, b) == IF a = None THEN b ELSE IF b = None THEN a ELSE Least({a, b})

(* The identifiers wrap at sixteen bits, long after the last request that  *)
(* bears one is gone: any that nobody holds is as good.                    *)
Transaction(s) ==
  LET used == {r.id : r \in Range(s.outbox) \cup Range(wire)} \cup s.written
                \cup (IF s.pending = None THEN {} ELSE {s.pending.id})
  IN  Least((1 .. Cardinality(used) + 1) \ used)

Send(s, id, purpose) ==
  [s EXCEPT !.outbox = Append(@, [id |-> id, purpose |-> purpose, age |-> 0, held |-> FALSE])]

(* read: one request is outstanding, and it is the last one. *)
Ask(s, is, n) ==
  LET id == Transaction(s)
      purpose == [is |-> is, n |-> n]
  IN  [Send(s, id, purpose) EXCEPT !.pending = [id |-> id, purpose |-> purpose, age |-> 0]]

Linked(s, state) ==
  IF s.link = state THEN s ELSE [s EXCEPT !.link = state, !.events.link = state]

Outcome(s, accepted, confirmed) ==
  [s EXCEPT !.events.outcome = [accepted |-> accepted, confirmed |-> confirmed]]

NewPartial == [age |-> 0, session |-> conn.session, tainted |-> FALSE]

(* fold: an answer to what was asked before the round began, or on another *)
(* socket, taints the measurement.                                         *)
Folded(partial, r) ==
  IF partial = None THEN None
  ELSE [partial EXCEPT !.tainted = \/ @
                                   \/ r.age > partial.age
                                   \/ partial.session # conn.session]

(* What is published is told apart by where it came from, and no more. *)
Published(partial) == IF partial.tainted THEN "tainted" ELSE "clean"
-----------------------------------------------------------------------------
(* SunSpec *)

(* next_poll: the rest of the models this round reads. *)
NextPoll(s) == {i \in DOMAIN Polled : i > s.cursor /\ Polled[i] \in s.found}

FinishPoll(s) ==
  [s EXCEPT !.events.measured = IF s.partial = None THEN @ ELSE Published(s.partial),
            !.partial = None, !.cursor = 0, !.due = Poll]

PollWhenDue(s) ==
  IF s.due \notin {None, 0} THEN s
  ELSE IF NextPoll(s) = {} THEN FinishPoll(s)
  ELSE Ask([s EXCEPT !.partial = IF @ = None THEN NewPartial ELSE @], "Poll", Least(NextPoll(s)))

(* advance: discovery first, then the poll when it is due. *)
Advance(s) ==
  IF s.pending # None THEN s
  ELSE CASE s.walk.at = "Probing" -> Ask(s, "Marker", s.walk.n)
         [] s.walk.at = "Walking" -> Ask(s, "Header", s.walk.n)
         [] s.walk.at = "Done"    -> PollWhenDue(Linked(s, "Up"))

(* abandon_command: a curtailment that will never be answered. *)
Abandoned(s) ==
  IF s.pending # None /\ s.pending.purpose.is \in {"Curtail", "Readback"}
  THEN Outcome(s, FALSE, None) ELSE s

(* Mutant: the write's own answer is taken for the device's word. *)
BelieveWrite(s, p, r, reply) ==
  CASE p.is = "Curtail" -> Outcome(s, TRUE, p.n)
    [] p.is = "Poll"    -> [s EXCEPT !.partial = Folded(@, r), !.cursor = p.n]
    [] p.is = "Marker"  -> [s EXCEPT !.walk = IF reply.value THEN Walking(0) ELSE Probing((p.n + 1) % Bases)]
    [] p.is = "Header"  -> IF reply.value = None THEN [s EXCEPT !.walk = Done]
                           ELSE [s EXCEPT !.found = @ \cup {reply.value}, !.walk = Walking(p.n + 1)]
    [] OTHER -> s

(* What an answer other than an exception means, by what was asked: the    *)
(* marker and saw_marker, a header and saw_header, a body and fold, a      *)
(* write and the read-back that has to follow it, and readback.            *)
Understand(s, p, r, reply) ==
  CASE p.is = "Marker" ->
         [s EXCEPT !.walk = IF reply.value THEN Walking(0) ELSE Probing((p.n + 1) % Bases)]
    [] p.is = "Header" ->
         IF reply.value = None \/ p.n >= MaxModels THEN [s EXCEPT !.walk = Done]
         ELSE [s EXCEPT !.found = @ \cup {reply.value}, !.walk = Walking(p.n + 1)]
    [] p.is = "Poll" -> [s EXCEPT !.partial = Folded(@, r), !.cursor = p.n]
    [] p.is = "Curtail" -> Ask(s, "Readback", p.n)
    [] p.is = "Readback" ->
         IF reply.value = None THEN Outcome(s, FALSE, None)
         ELSE Outcome(s, reply.value.on, reply.value.setpoint)

(* An exception: a command refused, the next base, or the end of the walk. *)
Refused(s, p) ==
  CASE p.is \in {"Curtail", "Readback"} -> Outcome(s, FALSE, None)
    [] p.is = "Marker" -> [s EXCEPT !.walk = Probing((p.n + 1) % Bases)]
    [] OTHER -> [s EXCEPT !.walk = Done]

(* Mutant: any answer will do for what is outstanding. *)
HandleAny(s, r, reply) ==
  LET heard == [s EXCEPT !.pending = None] IN
  IF s.pending = None \/ s.pending.purpose.is # r.purpose.is THEN s
  ELSE IF reply.is = "Exception" THEN Refused(heard, s.pending.purpose)
  ELSE Understand(heard, s.pending.purpose, r, reply)

(* handle: what answers nothing that is outstanding is dropped. *)
Handle(s, r, reply) ==
  LET heard == [s EXCEPT !.pending = None] IN
  IF s.pending = None \/ s.pending.id # r.id THEN s
  ELSE IF reply.is = "Exception" THEN Refused(heard, s.pending.purpose)
  ELSE Understand(heard, s.pending.purpose, r, reply)

(* on_link: all that a session owns is dropped, and the walk starts again. *)
SunSpecOnLink(s, state) ==
  LET dropped == [Abandoned(s) EXCEPT !.outbox = << >>, !.pending = None, !.partial = None,
                                      !.due = None, !.walk = Probing(0), !.cursor = 0]
  IN  IF state = "Up" THEN Advance(Linked(dropped, state)) ELSE Linked(dropped, state)

(* Mutant: a request that was not answered stays the one to wait for. *)
SunSpecWaitsOn(s) == IF s.pending # None THEN Linked(s, IF s.pending.age >= Timeout THEN "Stale" ELSE s.link)
                     ELSE Advance(s)

(* on_timeout: an unanswered request, or the next poll. *)
SunSpecOnTimeout(s) ==
  IF s.pending # None /\ s.pending.age >= Timeout
  THEN Advance(Linked([Abandoned(s) EXCEPT !.pending = None, !.partial = None,
                                           !.walk = Probing(0), !.cursor = 0], "Stale"))
  ELSE Advance(s)
-----------------------------------------------------------------------------
(* Registers *)

StartRound(s) == Ask([s EXCEPT !.partial = NewPartial], "Point", 1)

(* absorb: the answer to a write, or the next point of the round.  A point *)
(* the device refuses is left out of the measurement.                      *)
RegistersAbsorb(s, r, reply) ==
  LET heard == [s EXCEPT !.pending = None,
                         !.partial = IF reply.is = "Exception" THEN @ ELSE Folded(@, r)]
  IN
  CASE r.id \in s.written -> Outcome([s EXCEPT !.written = @ \ {r.id}], reply.is # "Exception", None)
    [] r.id \notin s.written /\ (s.pending = None \/ s.pending.id # r.id) -> s
    [] OTHER -> IF r.purpose.n < Points THEN Ask(heard, "Point", r.purpose.n + 1)
                ELSE [heard EXCEPT !.events.measured = Published(heard.partial),
                                      !.partial = None, !.due = Poll]

RegistersOnLink(s, state) ==
  LET dropped == Linked([s EXCEPT !.outbox = << >>, !.written = {}, !.pending = None,
                                  !.partial = None], state)
  IN  IF state = "Up" THEN StartRound(dropped) ELSE [dropped EXCEPT !.due = None]

(* on_timeout: the round is abandoned; the next one starts on a usable     *)
(* link.                                                                   *)
RegistersOnTimeout(s) ==
  LET late == s.pending # None /\ s.pending.age >= Timeout
      gone == IF late THEN [s EXCEPT !.pending = None, !.partial = None, !.due = Poll] ELSE s
      told == IF late /\ s.link = "Up" THEN Linked(gone, "Stale") ELSE gone
  IN  IF told.pending = None /\ told.due = 0 /\ told.link = "Up" THEN StartRound(told) ELSE told
-----------------------------------------------------------------------------
(* Driver, the interface *)

OnFrame(s, r, reply) ==
  IF driver = "SunSpec" THEN Advance(Handle(s, r, reply)) ELSE RegistersAbsorb(s, r, reply)

(* on_bytes, where the frame cannot be parsed. *)
OnRubbish(s) ==
  IF driver = "SunSpec" THEN [s EXCEPT !.pending = None]
  ELSE [s EXCEPT !.pending = None, !.partial = None]

OnLink(s, state) ==
  IF driver = "SunSpec" THEN SunSpecOnLink(s, state) ELSE RegistersOnLink(s, state)

OnTimeout(s) == IF driver = "SunSpec" THEN SunSpecOnTimeout(s) ELSE RegistersOnTimeout(s)

(* poll_deadline, as what is left until it. *)
Deadline(s) ==
  LET left == IF s.pending = None THEN None ELSE Timeout - s.pending.age IN
  IF driver = "SunSpec" THEN Smaller(left, s.due)
  ELSE IF s.pending = None THEN s.due ELSE left

(* Whether command takes a setpoint at all, and what it does with it. *)
Takes(s) == driver = "SunSpec" => s.link = "Up" /\ Controls \in s.found
Commanded(s, w) ==
  IF driver = "SunSpec" THEN Ask(s, "Curtail", w)
  ELSE LET id == Transaction(s)
       IN  [Send(s, id, [is |-> "Write", n |-> w]) EXCEPT !.written = @ \cup {id}]
-----------------------------------------------------------------------------
(* The transport task *)

(* Registry::on_link, for the entry. *)
RegistryOnLink(state) ==
  entry' = [entry EXCEPT !.link = state, !.latest = IF state = "Up" THEN @ ELSE None]

Connected ==
  /\ conn.at = "dialling"
  /\ conn' = [conn EXCEPT !.at = "turning", !.backoff = 1]
  /\ d' = OnLink(d, "Up")
  /\ RegistryOnLink("Up")
  /\ UNCHANGED <<driver, wire, device, turn>>

(* No connection, and a longer wait before the next try. *)
Resting == [conn EXCEPT !.at = "resting", !.wake = conn.backoff,
                        !.backoff = Least({2 * conn.backoff, BackoffMax})]

DialFails == /\ conn.at = "dialling"
             /\ conn' = Resting
             /\ UNCHANGED <<driver, d, wire, device, entry, turn>>

Dial == /\ conn.at = "resting"
        /\ conn.wake = 0
        /\ conn' = [conn EXCEPT !.at = "dialling", !.wake = None]
        /\ UNCHANGED <<driver, d, wire, device, entry, turn>>

(* All the driver wants to say goes out; then it sleeps until the driver's *)
(* deadline, or until bytes arrive.                                        *)
Park == /\ conn.at = "turning"
        /\ conn' = [conn EXCEPT !.at = "parked", !.wake = Deadline(d)]
        /\ wire' = wire \o d.outbox
        /\ d' = [d EXCEPT !.outbox = << >>]
        /\ UNCHANGED <<driver, device, entry, turn>>

Wake == /\ conn.at = "parked"
        /\ conn.wake = 0
        /\ conn' = [conn EXCEPT !.at = "turning", !.wake = None]
        /\ d' = OnTimeout(d)
        /\ UNCHANGED <<driver, wire, device, entry, turn>>

(* The peer closed, or the socket failed. *)
Close == /\ conn.at \in {"turning", "parked"}
         /\ conn' = [Resting EXCEPT !.session = 1 - @]
         /\ wire' = << >>
         /\ d' = OnLink(d, "Down")
         /\ RegistryOnLink("Down")
         /\ UNCHANGED <<driver, device, turn>>
-----------------------------------------------------------------------------
(* The device *)

Says(is, value) == [is |-> is, value |-> value]

(* What it may say to a request, the setpoint it then stores being stored: *)
(* a write is obeyed, clipped to something else, or taken and not enabled. *)
Replies(p, stored) ==
  CASE p.is = "Marker"   -> {Says("Registers", p.n = Base)}
    [] p.is = "Header"   -> {Says("Registers", IF p.n < Len(Chain) THEN Chain[p.n + 1] ELSE None)}
    [] p.is = "Readback" -> {Says("Registers", stored), Says("Registers", None)}
    [] p.is \in {"Curtail", "Write"} -> {Says("WriteAccepted", None)}
    [] OTHER             -> {Says("Registers", None)}

Answer(n, reply, stored) ==
  /\ conn.at = "parked"
  /\ conn' = [conn EXCEPT !.at = "turning", !.wake = None]
  /\ wire' = RemoveAt(wire, n)
  /\ device' = stored
  /\ d' = OnFrame(d, wire[n], reply)
  /\ UNCHANGED <<driver, entry, turn>>

Answers(n) ==
  LET p == wire[n].purpose IN
  \/ /\ p.is \notin {"Curtail", "Write"}
     /\ \E reply \in Replies(p, device) : Answer(n, reply, device)
  \/ /\ p.is \in {"Curtail", "Write"}
     /\ \E setpoint \in Wants, on \in BOOLEAN :
          Answer(n, Says("WriteAccepted", None), [setpoint |-> setpoint, on |-> on])

Prompt(n) == n \in DOMAIN wire /\ ~wire[n].held /\ \A k \in 1 .. n - 1 : wire[k].held
AnswersPromptly == \E n \in DOMAIN wire : Prompt(n) /\ Answers(n)

(* What may go wrong: no answer for now, or ever; one that comes late; a   *)
(* refusal; a frame nobody can read; the wrong base answering like any     *)
(* other register.                                                         *)
Holds == /\ conn.at = "parked"
         /\ Cardinality({n \in DOMAIN wire : wire[n].held}) < MaxHeld
         /\ \E n \in DOMAIN wire : Prompt(n) /\ wire' = [wire EXCEPT ![n].held = TRUE]
         /\ UNCHANGED <<driver, d, conn, device, entry, turn>>

AnswersLate == \E n \in DOMAIN wire : wire[n].held /\ Answers(n)

Refuses == \E n \in DOMAIN wire : Prompt(n) /\ Answer(n, Says("Exception", None), device)

Garbles ==
  /\ conn.at = "parked"
  /\ \E n \in DOMAIN wire : Prompt(n) /\ wire' = RemoveAt(wire, n)
  /\ conn' = [conn EXCEPT !.at = "turning", !.wake = None]
  /\ d' = OnRubbish(d)
  /\ UNCHANGED <<driver, device, entry, turn>>

Fault == DialFails \/ Close \/ Holds \/ AnswersLate \/ Refuses \/ Garbles
-----------------------------------------------------------------------------
(* The control loop, and time *)

Newest(new, old) == IF new = None THEN old ELSE new

(* observe, and the drain of the same second: absorb, first. *)
Observe ==
  /\ turn = "observe"
  /\ turn' = "command"
  /\ entry' = [link |-> Newest(d.events.link, entry.link),
               latest |-> Newest(d.events.measured, entry.latest)]
  /\ d' = [d EXCEPT !.events = NoEvents]
  /\ UNCHANGED <<driver, conn, wire, device>>

(* deliver: a setpoint the driver takes, or an error that is logged, or    *)
(* nothing new to say.                                                     *)
Command(w) ==
  /\ turn = "command"
  /\ turn' = "done"
  /\ Takes(d)
  /\ Len(d.outbox) < MaxQueued /\ Cardinality(d.written) < MaxQueued
  /\ d' = Commanded(d, w)
  /\ UNCHANGED <<driver, conn, wire, device, entry>>

NoCommand == /\ turn = "command"
             /\ turn' = "done"
             /\ UNCHANGED <<driver, d, conn, wire, device, entry>>

Older(x, field, most) == IF x = None \/ x[field] >= most THEN x ELSE [x EXCEPT ![field] = @ + 1]
Sooner(left) == IF left \in {None, 0} THEN left ELSE left - 1

(* A second: everybody has done what there was to do in the last one, but  *)
(* a transport that has to wake may be slow to.                            *)
Tick ==
  /\ turn = "done"
  /\ conn.at \in {"parked", "resting"}
  /\ \A n \in DOMAIN wire : wire[n].held
  /\ turn' = "observe"
  /\ d' = [d EXCEPT !.pending = Older(@, "age", Timeout), !.partial = Older(@, "age", Timeout),
                    !.due = Sooner(@),
                    !.outbox = [n \in DOMAIN @ |-> Older(@[n], "age", Timeout)]]
  /\ wire' = [n \in DOMAIN wire |-> Older(wire[n], "age", Timeout)]
  /\ conn' = [conn EXCEPT !.wake = Sooner(@)]
  /\ UNCHANGED <<driver, device, entry>>
-----------------------------------------------------------------------------
Next == \/ Connected \/ DialFails \/ Dial \/ Park \/ Wake \/ Close
        \/ AnswersPromptly \/ Holds \/ AnswersLate \/ Refuses \/ Garbles
        \/ Observe \/ (\E w \in Wants : Command(w)) \/ NoCommand
        \/ Tick

Spec == Init /\ [][Next]_vars

(* The tasks of the box run; time passes whatever a task is busy with; and *)
(* a device that does not fail answers, which the select of the transport  *)
(* looks for first - for a driver whose deadline is past has it woken over *)
(* and over, until the answer is there.                                    *)
Fairness == /\ WF_vars(Connected) /\ WF_vars(Dial) /\ WF_vars(Park) /\ WF_vars(Wake)
            /\ SF_vars(AnswersPromptly)
            /\ WF_vars(Observe) /\ WF_vars(NoCommand) /\ SF_vars(Tick)

FairSpec == Spec /\ Fairness
-----------------------------------------------------------------------------
(* What the registry believes a device measured was said on one socket, in *)
(* answer to what was asked once the measurement's own time had come: no   *)
(* answer that outlived its request, its round or its socket is in it.     *)
MeasuredInOneGo == "tainted" \notin {d.events.measured, entry.latest}

(* A curtailment is believed because the device has it in force when it is *)
(* asked, and not because it took the frame.                               *)
Believed == d.events.outcome # None /\ d.events.outcome.accepted /\ d.events.outcome.confirmed # None
ConfirmedIsInForce ==
  [][d'.events.outcome # d.events.outcome /\ Believed'
       => device.on /\ device.setpoint = d'.events.outcome.confirmed]_vars

(* A device that stopped answering, refused, was garbled or lost its       *)
(* socket is read again, for as often as it does so - but for the two ways *)
(* in which one bad answer puts the driver out of reach of its own clock:  *)
(* a frame that cannot be read while nothing else is due, and a header     *)
(* refused before any model worth reading was found.                       *)
Stranded == conn.at = "parked" /\ conn.wake = None
WalkCutShort == d.walk = Done /\ d.found \cap Range(Polled) = {}
Reads == d.events.measured # None
ReadAgain == \/ []<><<Fault>>_vars
             \/ []<>Reads
             \/ <>[](Stranded \/ (driver = "SunSpec" /\ WalkCutShort))
SunSpecReadsAgain == driver = "SunSpec" => ReadAgain

=============================================================================
