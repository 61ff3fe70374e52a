---------------------------- MODULE ModbusProofs ----------------------------
(***************************************************************************)
(* The Modbus drivers for any number of registers, blocks and retries, any *)
(* timeouts and any number of faults: a measurement is made of the answers *)
(* to its own questions, and a curtailment is confirmed by its read-back.  *)
(* Of the driver's numbers the argument needs only that they are natural.  *)
(***************************************************************************)
EXTENDS Modbus, FiniteSetTheorems, SequenceTheorems, TLAPS

(* What the driver, the socket and the device are made of. *)
Setpoints == [setpoint : Nat, on : BOOLEAN]
Outcomes == [accepted : BOOLEAN, confirmed : Nat \cup {None}]
Links == {"Down", "Up", "Stale"}
Events == [link : Links \cup {None}, measured : {"clean", None},
           outcome : Outcomes \cup {None}]
Walks == [at : {"Probing", "Walking", "Done"}, n : Nat]
States == [link : Links, outbox : Seq(Requests), pending : Pendings \cup {None},
           due : Nat \cup {None}, partial : Partials \cup {None}, events : Events,
           walk : Walks, found : SUBSET STRING, cursor : Nat, written : SUBSET Nat]

(* The world a driver lives in: nothing in it depends on the driver. *)
World == /\ driver \in {"SunSpec", "Registers"}
         /\ wire \in Seq(Requests)
         /\ device \in Setpoints
         /\ conn = [at |-> conn.at, backoff |-> conn.backoff, wake |-> conn.wake,
                    session |-> conn.session]
         /\ conn.session \in {0, 1}

(* A measurement in the making is of this socket, and nothing in it is old. *)
Untainted(s) ==
  /\ s \in States /\ IsFiniteSet(s.written)
  /\ s.partial # None => ~s.partial.tainted /\ s.partial.session = conn.session

(* A request that bears the identifier of the outstanding one is that one, *)
(* and no older than the measurement its answer goes into.                 *)
Own(s, r) ==
  s.pending # None /\ r.id = s.pending.id
    => /\ r.purpose = s.pending.purpose
       /\ s.partial # None => r.age <= s.partial.age

(* What a driver asks for with a pending request. *)
Kinds == IF driver = "SunSpec" THEN {"Marker", "Header", "Poll", "Curtail", "Readback"}
         ELSE {"Point"}

(* Whatever is asked is asked by the driver there is, and a reading is a   *)
(* part of a measurement.                                                  *)
Asked(s) ==
  /\ \A r \in Range(s.outbox) \cup Range(wire) : Own(s, r)
  /\ s.pending # None => /\ s.pending.purpose.is \in Kinds
                         /\ driver = "Registers" => s.partial # None

(* What every handler leaves behind if it finds it. *)
Sound(s) == Untainted(s) /\ Asked(s)

LEMMA LeastIs ==
  ASSUME NEW S \in SUBSET Nat, S # {}
  PROVE  Least(S) \in S
<1>1. \E n \in S : \A k \in S : ~(<<k, n>> \in OpToRel(<, Nat))
  BY WFMin, NatLessThanWellFounded
<1>2. PICK n \in S : \A k \in S : ~(k < n)
  BY <1>1 DEF OpToRel
<1>3. \A k \in S : n <= k
  BY <1>2
<1> QED BY <1>3 DEF Least

(* The identifiers of a queue are finitely many. *)
LEMMA IdsAreFinite ==
  ASSUME NEW q \in Seq(Requests)
  PROVE  IsFiniteSet({r.id : r \in Range(q)}) /\ {r.id : r \in Range(q)} \subseteq Nat
<1> DEFINE T == {r.id : r \in Range(q)}
           f == [i \in 1 .. Len(q) |-> q[i].id]
<1>1. T = {q[i].id : i \in 1 .. Len(q)}
  BY DEF Range
<1>2. f \in Surjection(1 .. Len(q), T)
  BY <1>1 DEF Surjection
<1>3. IsFiniteSet(1 .. Len(q))
  BY FS_Interval
<1>4. IsFiniteSet(T)
  <2> HIDE DEF T, f
  <2> QED BY <1>2, <1>3, FS_Surjection
<1>5. T \subseteq Nat
  <2>1. \A i \in 1 .. Len(q) : q[i] \in Requests
    OBVIOUS
  <2>2. \A r \in Requests : r.id \in Nat
    BY DEF Requests
  <2> QED BY <1>1, <2>1, <2>2
<1> QED BY <1>4, <1>5

(* A new request bears an identifier that nobody holds. *)
LEMMA TransactionIsFresh ==
  ASSUME NEW s \in States, IsFiniteSet(s.written), wire \in Seq(Requests)
  PROVE  /\ Transaction(s) \in Nat
         /\ \A r \in Range(s.outbox) \cup Range(wire) : r.id # Transaction(s)
         /\ s.pending # None => s.pending.id # Transaction(s)
<1> DEFINE queued == {r.id : r \in Range(s.outbox) \cup Range(wire)}
           waited == IF s.pending = None THEN {} ELSE {s.pending.id}
           used == queued \cup s.written \cup waited
           free == (1 .. Cardinality(used) + 1) \ used
<1>1. queued = {r.id : r \in Range(s.outbox)} \cup {r.id : r \in Range(wire)}
  OBVIOUS
<1>2. s.outbox \in Seq(Requests) /\ s.written \subseteq Nat
  BY DEF States
<1>3. IsFiniteSet(queued) /\ queued \subseteq Nat
  <2> DEFINE A == {r.id : r \in Range(s.outbox)}
             B == {r.id : r \in Range(wire)}
  <2>1. IsFiniteSet(A) /\ A \subseteq Nat
    BY <1>2, IdsAreFinite
  <2>2. IsFiniteSet(B) /\ B \subseteq Nat
    BY IdsAreFinite
  <2>3. queued = A \cup B
    BY <1>1
  <2> HIDE DEF A, B, queued
  <2> QED BY <2>1, <2>2, <2>3, FS_Union
<1>4. IsFiniteSet(waited) /\ waited \subseteq Nat
  BY FS_EmptySet, FS_Singleton DEF States, Pendings
<1>5. IsFiniteSet(used) /\ used \subseteq Nat
  <2> HIDE DEF queued, waited
  <2> QED BY <1>2, <1>3, <1>4, FS_Union
<1>6. free # {}
  <2> HIDE DEF used
  <2>1. Cardinality(used) \in Nat
    BY <1>5, FS_CardinalityType
  <2>2. ASSUME free = {} PROVE FALSE
    <3>1. 1 .. Cardinality(used) + 1 \subseteq used
      BY <2>2
    <3>2. Cardinality(1 .. Cardinality(used) + 1) <= Cardinality(used)
      BY <3>1, <1>5, FS_Subset
    <3>3. Cardinality(1 .. Cardinality(used) + 1) = Cardinality(used) + 1
      BY <2>1, FS_Interval
    <3> QED BY <2>1, <3>2, <3>3
  <2> QED BY <2>2
<1>7. free \subseteq Nat
  <2> HIDE DEF used
  <2>1. Cardinality(used) \in Nat
    BY <1>5, FS_CardinalityType
  <2> QED BY <2>1
<1>8. Transaction(s) = Least(free)
  BY DEF Transaction
<1>9. Transaction(s) \in free
  <2> HIDE DEF free
  <2> QED BY <1>6, <1>7, <1>8, LeastIs
<1>10. Transaction(s) \in Nat /\ Transaction(s) \notin used
  <2> HIDE DEF used
  <2> QED BY <1>7, <1>9
<1>11. Transaction(s) \notin queued
  BY <1>10
<1>12. s.pending # None => Transaction(s) \notin {s.pending.id}
  BY <1>10
<1> QED BY <1>10, <1>11, <1>12

(* What is queued behind others. *)
LEMMA Behind ==
  ASSUME NEW q \in Seq(Requests), NEW r \in Requests
  PROVE  Append(q, r) \in Seq(Requests) /\ Range(Append(q, r)) = Range(q) \cup {r}
<1>1. Append(q, r) \in Seq(Requests) /\ Len(Append(q, r)) = Len(q) + 1
  OBVIOUS
<1>2. \A i \in 1 .. Len(q) : Append(q, r)[i] = q[i]
  OBVIOUS
<1>3. Append(q, r)[Len(q) + 1] = r
  OBVIOUS
<1>4. Len(q) \in Nat /\ 1 .. Len(q) + 1 = (1 .. Len(q)) \cup {Len(q) + 1}
  OBVIOUS
<1>5. DOMAIN q = 1 .. Len(q) /\ DOMAIN Append(q, r) = 1 .. Len(q) + 1
  OBVIOUS
<1>6. \A x \in Range(Append(q, r)) : x \in Range(q) \cup {r}
  BY <1>2, <1>3, <1>4, <1>5 DEF Range
<1>7. \A x \in Range(q) \cup {r} : x \in Range(Append(q, r))
  BY <1>2, <1>3, <1>4, <1>5 DEF Range
<1> QED BY <1>1, <1>6, <1>7

(* What is sent was queued. *)
LEMMA Joined ==
  ASSUME NEW p \in Seq(Requests), NEW q \in Seq(Requests)
  PROVE  p \o q \in Seq(Requests) /\ Range(p \o q) \subseteq Range(p) \cup Range(q)
<1>1. p \o q \in Seq(Requests) /\ Len(p \o q) = Len(p) + Len(q) /\ Len(p) \in Nat /\ Len(q) \in Nat
  OBVIOUS
<1>2. ASSUME NEW i \in 1 .. Len(p) + Len(q) PROVE (p \o q)[i] \in Range(p) \cup Range(q)
  <2>1. CASE i <= Len(p)
    <3>1. (p \o q)[i] = p[i] /\ i \in DOMAIN p
      BY <2>1
    <3> QED BY <3>1 DEF Range
  <2>2. CASE i > Len(p)
    <3>1. (p \o q)[i] = q[i - Len(p)] /\ i - Len(p) \in DOMAIN q
      BY <1>1, <2>2
    <3> QED BY <3>1 DEF Range
  <2> QED BY <1>1, <2>1, <2>2
<1>3. Range(p \o q) = {(p \o q)[i] : i \in 1 .. Len(p) + Len(q)}
  BY <1>1 DEF Range
<1> QED BY <1>1, <1>2, <1>3

(* What is taken out of a queue was in it. *)
LEMMA TakenOut ==
  ASSUME NEW q \in Seq(Requests), NEW n \in DOMAIN q
  PROVE  RemoveAt(q, n) \in Seq(Requests) /\ Range(RemoveAt(q, n)) \subseteq Range(q)
<1>1. n \in 1 .. Len(q) /\ Len(q) \in Nat /\ DOMAIN q = 1 .. Len(q)
  OBVIOUS
<1>2. PICK front \in Seq(Requests) : front = SubSeq(q, 1, n - 1)
  <2>1. n - 1 \in Int /\ \A i \in 1 .. n - 1 : q[i] \in Requests
    BY <1>1
  <2>2. SubSeq(q, 1, n - 1) \in Seq(Requests)
    BY <2>1, 1 \in Int, SubSeqProperties
  <2> QED BY <2>2
<1>3. PICK rest \in Seq(Requests) : rest = SubSeq(q, n + 1, Len(q))
  <2>1. n + 1 \in Int /\ \A i \in n + 1 .. Len(q) : q[i] \in Requests
    BY <1>1
  <2>2. Len(q) \in Int
    BY <1>1
  <2>3. SubSeq(q, n + 1, Len(q)) \in Seq(Requests)
    BY <2>1, <2>2, SubSeqProperties
  <2> QED BY <2>3
<1>4. Range(front) \subseteq Range(q)
  BY <1>1, <1>2 DEF Range
<1>5. Range(rest) \subseteq Range(q)
  <2>1. Len(rest) = Len(q) - n /\ \A i \in 1 .. Len(q) - n : rest[i] = q[n + i]
    BY <1>1, <1>3
  <2> QED BY <1>1, <2>1 DEF Range
<1>6. RemoveAt(q, n) = front \o rest
  BY <1>2, <1>3 DEF RemoveAt
<1> QED BY <1>4, <1>5, <1>6, Joined

(* A question is of a measurement that goes on, or of none. *)
LEMMA AskIsSound ==
  ASSUME World, NEW s, Untainted(s), NEW is \in Kinds, NEW n \in Nat,
         driver = "Registers" => s.partial # None
  PROVE  Sound(Ask(s, is, n)) /\ Ask(s, is, n).events = s.events
<1> USE ModbusAssumption
<1> DEFINE id == Transaction(s)
           purpose == [is |-> is, n |-> n]
           new == [id |-> id, purpose |-> purpose, age |-> 0, held |-> FALSE]
           p == [id |-> id, purpose |-> purpose, age |-> 0]
           t == [s EXCEPT !.outbox = Append(s.outbox, new), !.pending = p]
<1>1. s \in States /\ IsFiniteSet(s.written) /\ wire \in Seq(Requests) /\ s.outbox \in Seq(Requests)
  BY DEF Untainted, World, States
<1>2. id \in Nat /\ \A r \in Range(s.outbox) \cup Range(wire) : r.id # id
  BY <1>1, TransactionIsFresh
<1>3. purpose \in Purposes
  <2>1. is \in {"Marker", "Header", "Poll", "Curtail", "Readback", "Point", "Write"}
    BY DEF Kinds
  <2> QED BY <2>1 DEF Purposes
<1>4. new \in Requests /\ p \in Pendings
  BY <1>2, <1>3 DEF Requests, Pendings
<1>5. Ask(s, is, n) = t
  BY <1>1 DEF Ask, Send, States
<1>6. /\ Append(s.outbox, new) \in Seq(Requests)
      /\ Range(Append(s.outbox, new)) = Range(s.outbox) \cup {new}
  BY <1>1, <1>4, Behind
<1> HIDE DEF p, new
<1>7. /\ t \in States /\ t.events = s.events /\ t.partial = s.partial /\ t.written = s.written
      /\ t.outbox = Append(s.outbox, new) /\ t.pending = p
  BY <1>1, <1>4, <1>6 DEF States
<1> HIDE DEF t
<1>8. Untainted(t)
  BY <1>7 DEF Untainted
<1>9. p.id = id /\ p.purpose = purpose /\ new.id = id /\ new.purpose = purpose /\ new.age = 0
  BY DEF p, new
<1>10. ASSUME NEW r \in Range(t.outbox) \cup Range(wire) PROVE Own(t, r)
  <2>1. CASE r = new
    <3>1. t.partial # None => 0 <= t.partial.age
      BY <1>7 DEF States, Partials
    <3> QED BY <2>1, <3>1, <1>7, <1>9 DEF Own
  <2>2. CASE r # new
    <3>1. r \in Range(s.outbox) \cup Range(wire)
      BY <2>2, <1>6, <1>7
    <3> QED BY <3>1, <1>2, <1>7, <1>9 DEF Own
  <2> QED BY <2>1, <2>2
<1>11. t.pending.purpose.is \in Kinds
  BY <1>7, <1>9
<1> QED BY <1>5, <1>7, <1>8, <1>10, <1>11 DEF Sound, Asked

(* What a driver says of its link changes nothing else. *)
LEMMA LinkedIs ==
  ASSUME NEW s \in States, NEW state \in Links
  PROVE  LET t == Linked(s, state) IN
         /\ t \in States /\ t.events.outcome = s.events.outcome
         /\ t.outbox = s.outbox /\ t.pending = s.pending /\ t.partial = s.partial
         /\ t.due = s.due /\ t.walk = s.walk /\ t.found = s.found
         /\ t.cursor = s.cursor /\ t.written = s.written
BY DEF Linked, States, Events

LEMMA OutcomeIs ==
  ASSUME NEW s \in States, NEW accepted \in BOOLEAN, NEW confirmed \in Nat \cup {None}
  PROVE  LET t == Outcome(s, accepted, confirmed) IN
         /\ t \in States
         /\ t.events.outcome = [accepted |-> accepted, confirmed |-> confirmed]
         /\ t.outbox = s.outbox /\ t.pending = s.pending /\ t.partial = s.partial
         /\ t.due = s.due /\ t.walk = s.walk /\ t.found = s.found
         /\ t.cursor = s.cursor /\ t.written = s.written
<1>1. [accepted |-> accepted, confirmed |-> confirmed] \in Outcomes
  BY DEF Outcomes
<1> QED BY <1>1 DEF Outcome, States, Events
(* What is published was put together on one socket. *)
LEMMA PublishedIs ==
  ASSUME NEW s, Untainted(s), s.partial # None
  PROVE  Published(s.partial) = "clean"
BY DEF Untainted, Published

LEMMA FinishPollIsSound ==
  ASSUME World, driver = "SunSpec", NEW s, Untainted(s), s.pending = None
  PROVE  Sound(FinishPoll(s)) /\ FinishPoll(s).events.outcome = s.events.outcome
<1> DEFINE measured == IF s.partial = None THEN s.events.measured ELSE Published(s.partial)
           t == FinishPoll(s)
<1>1. s \in States /\ Poll \in Nat
  BY ModbusAssumption DEF Untainted
<1>2. measured \in {"clean", None}
  BY <1>1, PublishedIs DEF States, Events
<1>3. t = [s EXCEPT !.events = [s.events EXCEPT !.measured = measured],
                    !.partial = None, !.cursor = 0, !.due = Poll]
  BY <1>1 DEF FinishPoll, States, Events
<1> HIDE DEF measured
<1>4. [s.events EXCEPT !.measured = measured] \in Events
  BY <1>1, <1>2 DEF States, Events
<1>5. PICK e \in Events : e = [s.events EXCEPT !.measured = measured]
  BY <1>4
<1>6. t = [s EXCEPT !.events = e, !.partial = None, !.cursor = 0, !.due = Poll]
  BY <1>3, <1>5
<1>7. e.outcome = s.events.outcome
  BY <1>1, <1>5 DEF States, Events
<1> HIDE DEF t
<1>8. t \in States /\ t.partial = None /\ t.pending = None /\ t.written = s.written
      /\ t.events = e
  BY <1>1, <1>6 DEF States
<1>9. Sound(t)
  BY <1>8 DEF Sound, Untainted, Asked, Own
<1>10. t.events.outcome = s.events.outcome
  BY <1>7, <1>8
<1> QED BY <1>9, <1>10 DEF t

LEMMA PollWhenDueIsSound ==
  ASSUME World, driver = "SunSpec", NEW s, Untainted(s), s.pending = None
  PROVE  Sound(PollWhenDue(s)) /\ PollWhenDue(s).events.outcome = s.events.outcome
<1>1. s \in States
  BY DEF Untainted
<1>2. CASE s.due \notin {None, 0}
  BY <1>2 DEF PollWhenDue, Sound, Asked, Own
<1>3. CASE s.due \in {None, 0} /\ NextPoll(s) = {}
  <2>1. PollWhenDue(s) = FinishPoll(s)
    BY <1>3 DEF PollWhenDue
  <2> QED BY <2>1, FinishPollIsSound
<1>4. CASE s.due \in {None, 0} /\ NextPoll(s) # {}
  <2> DEFINE t == [s EXCEPT !.partial = IF s.partial = None THEN NewPartial ELSE s.partial]
  <2>1. PollWhenDue(s) = Ask(t, "Poll", Least(NextPoll(s)))
    BY <1>1, <1>4 DEF PollWhenDue
  <2>2. DOMAIN Polled \subseteq Nat
    BY ModbusAssumption
  <2>3. Least(NextPoll(s)) \in Nat
    BY <1>4, <2>2, LeastIs DEF NextPoll
  <2>4. NewPartial \in Partials /\ ~NewPartial.tainted /\ NewPartial.session = conn.session
    BY ModbusAssumption DEF NewPartial, Partials, World
  <2>5. t \in States /\ t.events = s.events /\ t.written = s.written
        /\ t.partial = (IF s.partial = None THEN NewPartial ELSE s.partial)
    BY <1>1, <2>4 DEF States
  <2> HIDE DEF t
  <2>6. Untainted(t)
    BY <2>4, <2>5 DEF Untainted
  <2>7. "Poll" \in Kinds
    BY DEF Kinds
  <2>8. /\ Sound(Ask(t, "Poll", Least(NextPoll(s))))
        /\ Ask(t, "Poll", Least(NextPoll(s))).events = t.events
    BY <2>3, <2>6, <2>7, AskIsSound
  <2> QED BY <2>1, <2>5, <2>8
<1> QED BY <1>2, <1>3, <1>4

(* advance, whatever it decides to ask. *)
LEMMA AdvanceIsSound ==
  ASSUME World, driver = "SunSpec", NEW s, Sound(s)
  PROVE  Sound(Advance(s)) /\ Advance(s).events.outcome = s.events.outcome
<1>1. s \in States /\ Untainted(s)
  BY DEF Sound, Untainted
<1>2. CASE s.pending # None
  BY <1>2 DEF Advance
<1>3. CASE s.pending = None /\ s.walk.at = "Probing"
  <2>1. Advance(s) = Ask(s, "Marker", s.walk.n)
    BY <1>3 DEF Advance
  <2>2. s.walk.n \in Nat /\ "Marker" \in Kinds
    BY <1>1 DEF States, Walks, Kinds
  <2>3. driver = "Registers" => s.partial # None
    OBVIOUS
  <2> QED BY <1>1, <2>1, <2>2, <2>3, AskIsSound
<1>4. CASE s.pending = None /\ s.walk.at = "Walking"
  <2>1. Advance(s) = Ask(s, "Header", s.walk.n)
    BY <1>4 DEF Advance
  <2>2. s.walk.n \in Nat /\ "Header" \in Kinds
    BY <1>1 DEF States, Walks, Kinds
  <2>3. driver = "Registers" => s.partial # None
    OBVIOUS
  <2> QED BY <1>1, <2>1, <2>2, <2>3, AskIsSound
<1>5. CASE s.pending = None /\ s.walk.at = "Done"
  <2>1. PICK up : up = Linked(s, "Up")
    OBVIOUS
  <2>2. "Up" \in Links
    BY DEF Links
  <2>3. /\ up \in States /\ up.events.outcome = s.events.outcome
        /\ up.pending = s.pending /\ up.partial = s.partial /\ up.written = s.written
    BY <1>1, <2>1, <2>2, LinkedIs
  <2>4. Untainted(up)
    BY <1>1, <2>3 DEF Untainted
  <2>5. Advance(s) = PollWhenDue(up)
    BY <1>5, <2>1 DEF Advance
  <2>6. up.pending = None
    BY <1>5, <2>3
  <2>7. Sound(PollWhenDue(up)) /\ PollWhenDue(up).events.outcome = up.events.outcome
    BY <2>4, <2>6, PollWhenDueIsSound
  <2> QED BY <2>3, <2>5, <2>7
<1>6. s.walk.at \in {"Probing", "Walking", "Done"}
  BY <1>1 DEF States, Walks
<1> QED BY <1>2, <1>3, <1>4, <1>5, <1>6
(* Who waits for nothing confuses nothing. *)
LEMMA IdleIsSound ==
  ASSUME NEW s, Untainted(s), s.pending = None
  PROVE  Sound(s)
BY DEF Sound, Asked, Own

(* No curtailment is confirmed between the one state and the other. *)
Quiet(s, t) ==
  \/ t.events.outcome = s.events.outcome
  \/ ~t.events.outcome.accepted
  \/ t.events.outcome.confirmed = None

(* ... or it is, by what the device said that it has stored. *)
InForce(t, stored) == stored.on /\ stored.setpoint = t.events.outcome.confirmed

LEMMA WalksAre ==
  ASSUME NEW n \in Nat
  PROVE  /\ Probing((n + 1) % Bases) \in Walks
         /\ Walking(0) \in Walks /\ Walking(n + 1) \in Walks
         /\ Probing(0) \in Walks /\ Done \in Walks
<1>1. Bases \in Nat \ {0}
  BY ModbusAssumption
<1>2. (n + 1) % Bases \in Nat
  BY <1>1
<1> QED BY <1>2 DEF Walks, Probing, Walking, Done

LEMMA RefusedIsSound ==
  ASSUME World, driver = "SunSpec", NEW s, Untainted(s), s.pending = None, NEW p \in Purposes
  PROVE  Sound(Refused(s, p)) /\ Quiet(s, Refused(s, p))
<1>1. s \in States
  BY DEF Untainted
<1>2. CASE p.is \in {"Curtail", "Readback"}
  <2>1. PICK t : t = Outcome(s, FALSE, None)
    OBVIOUS
  <2>2. Refused(s, p) = t
    BY <1>2, <2>1 DEF Refused
  <2>3. /\ t \in States /\ t.events.outcome = [accepted |-> FALSE, confirmed |-> None]
        /\ t.pending = s.pending /\ t.partial = s.partial /\ t.written = s.written
    BY <1>1, <2>1, OutcomeIs
  <2>4. Untainted(t)
    BY <2>3 DEF Untainted
  <2> QED BY <2>2, <2>3, <2>4, IdleIsSound DEF Quiet
<1>3. CASE p.is = "Marker"
  <2>1. PICK w \in Walks : w = Probing((p.n + 1) % Bases)
    BY WalksAre DEF Purposes
  <2>2. PICK t : t = [s EXCEPT !.walk = w]
    OBVIOUS
  <2>3. Refused(s, p) = t
    BY <1>3, <2>1, <2>2 DEF Refused
  <2>4. /\ t \in States /\ t.events = s.events
        /\ t.pending = s.pending /\ t.partial = s.partial /\ t.written = s.written
    BY <1>1, <2>2 DEF States
  <2>5. Untainted(t)
    BY <2>4 DEF Untainted
  <2> QED BY <2>3, <2>4, <2>5, IdleIsSound DEF Quiet
<1>4. CASE p.is \notin {"Curtail", "Readback", "Marker"}
  <2>1. Done \in Walks
    BY DEF Walks, Done
  <2>2. PICK t : t = [s EXCEPT !.walk = Done]
    OBVIOUS
  <2>3. Refused(s, p) = t
    BY <1>4, <2>2 DEF Refused
  <2>4. /\ t \in States /\ t.events = s.events
        /\ t.pending = s.pending /\ t.partial = s.partial /\ t.written = s.written
    BY <1>1, <2>1, <2>2 DEF States
  <2>5. Untainted(t)
    BY <2>4 DEF Untainted
  <2> QED BY <2>3, <2>4, <2>5, IdleIsSound DEF Quiet
<1> QED BY <1>2, <1>3, <1>4

(* fold, for an answer of the round's own. *)
LEMMA FoldedIs ==
  ASSUME World, NEW s, Untainted(s), NEW r \in Requests,
         s.partial # None => r.age <= s.partial.age
  PROVE  Folded(s.partial, r) = s.partial
<1>1. CASE s.partial = None
  BY <1>1 DEF Folded
<1>2. CASE s.partial # None
  <2>1. s.partial \in Partials /\ s.partial.tainted = FALSE /\ s.partial.session = conn.session
    BY <1>2 DEF Untainted, States, Partials
  <2>2. ~(r.age > s.partial.age)
    BY <1>2, <2>1 DEF Partials, Requests
  <2>3. (s.partial.tainted \/ r.age > s.partial.age \/ s.partial.session # conn.session) = FALSE
    BY <2>1, <2>2
  <2>4. Folded(s.partial, r) = [s.partial EXCEPT !.tainted = FALSE]
    BY <1>2, <2>3 DEF Folded
  <2> QED BY <2>1, <2>4 DEF Partials
<1> QED BY <1>1, <1>2

LEMMA UnderstandIsSound ==
  ASSUME World, driver = "SunSpec", NEW s, Untainted(s), s.pending = None,
         NEW p \in Purposes, p.is \in Kinds, NEW r \in Requests,
         s.partial # None => r.age <= s.partial.age,
         NEW stored \in Setpoints, NEW reply \in Replies(p, stored)
  PROVE  LET t == Understand(s, p, r, reply) IN
         /\ Sound(t)
         /\ Quiet(s, t) \/ (p.is = "Readback" /\ InForce(t, stored))
<1>1. s \in States
  BY DEF Untainted
<1>2. CASE p.is = "Marker"
  <2>1. PICK w \in Walks : w = IF reply.value THEN Walking(0) ELSE Probing((p.n + 1) % Bases)
    BY WalksAre DEF Purposes
  <2>2. PICK t : t = [s EXCEPT !.walk = w]
    OBVIOUS
  <2>3. Understand(s, p, r, reply) = t
    BY <1>2, <2>1, <2>2 DEF Understand
  <2>4. /\ t \in States /\ t.events = s.events
        /\ t.pending = s.pending /\ t.partial = s.partial /\ t.written = s.written
    BY <1>1, <2>2 DEF States
  <2>5. Untainted(t)
    BY <2>4 DEF Untainted
  <2> QED BY <2>3, <2>4, <2>5, IdleIsSound DEF Quiet
<1>3. CASE p.is = "Header" /\ (reply.value = None \/ p.n >= MaxModels)
  <2>1. Done \in Walks
    BY DEF Walks, Done
  <2>2. PICK t : t = [s EXCEPT !.walk = Done]
    OBVIOUS
  <2>3. Understand(s, p, r, reply) = t
    BY <1>3, <2>2 DEF Understand
  <2>4. /\ t \in States /\ t.events = s.events
        /\ t.pending = s.pending /\ t.partial = s.partial /\ t.written = s.written
    BY <1>1, <2>1, <2>2 DEF States
  <2>5. Untainted(t)
    BY <2>4 DEF Untainted
  <2> QED BY <2>3, <2>4, <2>5, IdleIsSound DEF Quiet
<1>4. CASE p.is = "Header" /\ ~(reply.value = None \/ p.n >= MaxModels)
  <2>1. PICK w \in Walks : w = Walking(p.n + 1)
    BY WalksAre DEF Purposes
  <2>2. PICK t : t = [s EXCEPT !.found = s.found \cup {reply.value}, !.walk = w]
    OBVIOUS
  <2>3. Understand(s, p, r, reply) = t
    BY <1>1, <1>4, <2>1, <2>2 DEF Understand, States
  <2>4. reply.value \in STRING
    <3>1. reply = Says("Registers", IF p.n < Len(Chain) THEN Chain[p.n + 1] ELSE None)
      BY <1>4 DEF Replies
    <3>2. p.n < Len(Chain) /\ reply.value = Chain[p.n + 1]
      BY <1>4, <3>1 DEF Says
    <3>3. p.n \in Nat /\ Chain \in Seq(STRING)
      BY ModbusAssumption DEF Purposes
    <3> QED BY <3>2, <3>3
  <2>5. /\ t \in States /\ t.events = s.events
        /\ t.pending = s.pending /\ t.partial = s.partial /\ t.written = s.written
    BY <1>1, <2>2, <2>4 DEF States
  <2>6. Untainted(t)
    BY <2>5 DEF Untainted
  <2> QED BY <2>3, <2>5, <2>6, IdleIsSound DEF Quiet
<1>5. CASE p.is = "Poll"
  <2>1. PICK t : t = [s EXCEPT !.partial = s.partial, !.cursor = p.n]
    OBVIOUS
  <2>2. Understand(s, p, r, reply) = t
    BY <1>1, <1>5, <2>1, FoldedIs DEF Understand, States
  <2>3. p.n \in Nat
    BY DEF Purposes
  <2>4. /\ t \in States /\ t.events = s.events
        /\ t.pending = s.pending /\ t.partial = s.partial /\ t.written = s.written
    BY <1>1, <2>1, <2>3 DEF States
  <2>5. Untainted(t)
    BY <2>4 DEF Untainted
  <2> QED BY <2>2, <2>4, <2>5, IdleIsSound DEF Quiet
<1>6. CASE p.is = "Curtail"
  <2>1. Understand(s, p, r, reply) = Ask(s, "Readback", p.n)
    BY <1>6 DEF Understand
  <2>2. "Readback" \in Kinds /\ p.n \in Nat
    BY DEF Kinds, Purposes
  <2>3. driver = "Registers" => s.partial # None
    OBVIOUS
  <2> QED BY <2>1, <2>2, <2>3, AskIsSound DEF Quiet
<1>7. CASE p.is = "Readback" /\ reply.value = None
  <2>1. PICK t : t = Outcome(s, FALSE, None)
    OBVIOUS
  <2>2. Understand(s, p, r, reply) = t
    BY <1>7, <2>1 DEF Understand
  <2>3. /\ t \in States /\ t.events.outcome = [accepted |-> FALSE, confirmed |-> None]
        /\ t.pending = s.pending /\ t.partial = s.partial /\ t.written = s.written
    BY <1>1, <2>1, OutcomeIs
  <2>4. Untainted(t)
    BY <2>3 DEF Untainted
  <2> QED BY <2>2, <2>3, <2>4, IdleIsSound DEF Quiet
<1>8. CASE p.is = "Readback" /\ reply.value # None
  <2>1. reply = Says("Registers", stored)
    BY <1>8 DEF Replies, Says
  <2>2. stored.on \in BOOLEAN /\ stored.setpoint \in Nat
    BY DEF Setpoints
  <2>3. PICK t : t = Outcome(s, stored.on, stored.setpoint)
    OBVIOUS
  <2>4. Understand(s, p, r, reply) = t
    BY <1>8, <2>1, <2>3 DEF Understand, Says
  <2>5. /\ t \in States
        /\ t.events.outcome = [accepted |-> stored.on, confirmed |-> stored.setpoint]
        /\ t.pending = s.pending /\ t.partial = s.partial /\ t.written = s.written
    BY <1>1, <2>2, <2>3, OutcomeIs
  <2>6. Untainted(t)
    BY <2>5 DEF Untainted
  <2>7. Quiet(s, t) \/ InForce(t, stored)
    BY <2>2, <2>5 DEF Quiet, InForce
  <2> QED BY <1>8, <2>4, <2>6, <2>7, <2>5, IdleIsSound
<1>9. p.is \in {"Marker", "Header", "Poll", "Curtail", "Readback"}
  BY DEF Kinds
<1> QED BY <1>2, <1>3, <1>4, <1>5, <1>6, <1>7, <1>8, <1>9
(* What the device may say, and to what it may say it. *)
MaySay(r, stored) == Replies(r.purpose, stored) \cup {Says("Exception", None)}

LEMMA HandleIsSound ==
  ASSUME World, driver = "SunSpec", NEW s, Sound(s), NEW r \in Range(wire),
         NEW stored \in Setpoints, NEW reply \in MaySay(r, stored)
  PROVE  LET t == Handle(s, r, reply) IN
         /\ Sound(t)
         /\ Quiet(s, t) \/ (r.purpose.is = "Readback" /\ InForce(t, stored))
<1>1. s \in States /\ Untainted(s) /\ Own(s, r) /\ r \in Requests
  BY DEF Sound, Asked, Untainted, World, Range
<1>2. CASE s.pending = None \/ s.pending.id # r.id
  BY <1>2 DEF Handle, Quiet
<1>3. CASE s.pending # None /\ s.pending.id = r.id
  <2>1. PICK heard : heard = [s EXCEPT !.pending = None]
    OBVIOUS
  <2>2. /\ heard \in States /\ heard.pending = None /\ heard.events = s.events
        /\ heard.partial = s.partial /\ heard.written = s.written
    BY <1>1, <2>1 DEF States
  <2>3. Untainted(heard)
    BY <1>1, <2>2 DEF Untainted
  <2>4. PICK p : p = s.pending.purpose
    OBVIOUS
  <2>5. p \in Purposes /\ p.is \in Kinds /\ p = r.purpose
    BY <1>1, <1>3, <2>4 DEF States, Pendings, Sound, Asked, Own
  <2>6. heard.partial # None => r.age <= heard.partial.age
    BY <1>1, <1>3, <2>2 DEF Own
  <2>7. CASE reply.is = "Exception"
    <3>1. Handle(s, r, reply) = Refused(heard, p)
      BY <1>3, <2>1, <2>4, <2>7 DEF Handle
    <3>2. Sound(Refused(heard, p)) /\ Quiet(heard, Refused(heard, p))
      BY <2>2, <2>3, <2>5, RefusedIsSound
    <3> QED BY <3>1, <3>2, <2>2 DEF Quiet
  <2>8. CASE reply.is # "Exception"
    <3>1. PICK t : t = Understand(heard, p, r, reply)
      OBVIOUS
    <3>2. Handle(s, r, reply) = t
      BY <1>3, <2>1, <2>4, <2>8, <3>1 DEF Handle
    <3>3. reply \in Replies(p, stored)
      BY <2>5, <2>8 DEF MaySay, Says
    <3>4. Sound(t) /\ (Quiet(heard, t) \/ (p.is = "Readback" /\ InForce(t, stored)))
      BY <1>1, <2>2, <2>3, <2>5, <2>6, <3>1, <3>3, UnderstandIsSound
    <3> QED BY <2>2, <2>5, <3>2, <3>4 DEF Quiet
  <2> QED BY <2>7, <2>8
<1> QED BY <1>2, <1>3

LEMMA AbandonedIs ==
  ASSUME NEW s \in States
  PROVE  LET t == Abandoned(s) IN
         /\ t \in States /\ Quiet(s, t)
         /\ t.outbox = s.outbox /\ t.pending = s.pending /\ t.partial = s.partial
         /\ t.written = s.written
<1>1. CASE s.pending # None /\ s.pending.purpose.is \in {"Curtail", "Readback"}
  <2>1. PICK t : t = Outcome(s, FALSE, None)
    OBVIOUS
  <2>2. Abandoned(s) = t
    BY <1>1, <2>1 DEF Abandoned
  <2>3. /\ t \in States /\ t.events.outcome = [accepted |-> FALSE, confirmed |-> None]
        /\ t.outbox = s.outbox /\ t.pending = s.pending /\ t.partial = s.partial
        /\ t.written = s.written
    BY <2>1, OutcomeIs
  <2> QED BY <2>2, <2>3 DEF Quiet
<1>2. CASE ~(s.pending # None /\ s.pending.purpose.is \in {"Curtail", "Readback"})
  BY <1>2 DEF Abandoned, Quiet
<1> QED BY <1>1, <1>2

(* on_link, of the SunSpec driver: nothing of the old socket is left. *)
LEMMA SunSpecOnLinkIsSound ==
  ASSUME World, driver = "SunSpec", NEW s, s \in States, IsFiniteSet(s.written),
         NEW state \in {"Up", "Down"}
  PROVE  LET t == SunSpecOnLink(s, state) IN
         /\ Sound(t) /\ Quiet(s, t)
         /\ state = "Down" => t.partial = None /\ t.pending = None
<1>1. PICK gone : gone = Abandoned(s)
  OBVIOUS
<1>2. gone \in States /\ Quiet(s, gone) /\ gone.written = s.written
  BY <1>1, AbandonedIs
<1>3. PICK dropped : dropped = [gone EXCEPT !.outbox = << >>, !.pending = None, !.partial = None,
                                            !.due = None, !.walk = Probing(0), !.cursor = 0]
  OBVIOUS
<1>4. Probing(0) \in Walks
  BY WalksAre
<1>5. /\ dropped \in States /\ dropped.events = gone.events /\ dropped.pending = None
      /\ dropped.partial = None /\ dropped.written = s.written
  <2>1. PICK nothing \in Seq(Requests) : nothing = << >>
    <3>1. << >> \in Seq(Requests)
      OBVIOUS
    <3> QED BY <3>1
  <2>2. PICK w \in Walks : w = Probing(0)
    BY <1>4
  <2>3. dropped = [gone EXCEPT !.outbox = nothing, !.pending = None, !.partial = None,
                               !.due = None, !.walk = w, !.cursor = 0]
    BY <1>3, <2>1, <2>2
  <2> QED BY <1>2, <2>3 DEF States
<1>6. PICK told : told = Linked(dropped, state)
  OBVIOUS
<1>7. state \in Links
  BY DEF Links
<1>8. /\ told \in States /\ told.events.outcome = dropped.events.outcome /\ told.pending = None
      /\ told.partial = None /\ told.written = s.written
  BY <1>5, <1>6, <1>7, LinkedIs
<1>9. Sound(told)
  BY <1>8, IdleIsSound DEF Untainted
<1>10. Quiet(s, told)
  BY <1>2, <1>5, <1>8 DEF Quiet
<1>11. SunSpecOnLink(s, state) = IF state = "Up" THEN Advance(told) ELSE told
  BY <1>1, <1>3, <1>6 DEF SunSpecOnLink
<1>12. CASE state = "Up"
  <2>1. Sound(Advance(told)) /\ Advance(told).events.outcome = told.events.outcome
    BY <1>9, AdvanceIsSound
  <2> QED BY <1>10, <1>11, <1>12, <2>1 DEF Quiet
<1>13. CASE state = "Down"
  BY <1>8, <1>9, <1>10, <1>11, <1>13
<1> QED BY <1>12, <1>13

LEMMA SunSpecOnTimeoutIsSound ==
  ASSUME World, driver = "SunSpec", NEW s, Sound(s)
  PROVE  Sound(SunSpecOnTimeout(s)) /\ Quiet(s, SunSpecOnTimeout(s))
<1>1. s \in States /\ IsFiniteSet(s.written)
  BY DEF Sound, Untainted
<1>2. CASE s.pending # None /\ s.pending.age >= Timeout
  <2>1. PICK gone : gone = Abandoned(s)
    OBVIOUS
  <2>2. gone \in States /\ Quiet(s, gone) /\ gone.written = s.written
    BY <1>1, <2>1, AbandonedIs
  <2>3. PICK dropped : dropped = [gone EXCEPT !.pending = None, !.partial = None,
                                              !.walk = Probing(0), !.cursor = 0]
    OBVIOUS
  <2>4. Probing(0) \in Walks
    BY WalksAre
  <2>5. /\ dropped \in States /\ dropped.events = gone.events /\ dropped.pending = None
        /\ dropped.partial = None /\ dropped.written = s.written
    BY <2>2, <2>3, <2>4 DEF States
  <2>6. PICK told : told = Linked(dropped, "Stale")
    OBVIOUS
  <2>7. "Stale" \in Links
    BY DEF Links
  <2>8. /\ told \in States /\ told.events.outcome = dropped.events.outcome /\ told.pending = None
        /\ told.partial = None /\ told.written = s.written
    BY <2>5, <2>6, <2>7, LinkedIs
  <2>9. Sound(told)
    BY <1>1, <2>8, IdleIsSound DEF Untainted
  <2>10. SunSpecOnTimeout(s) = Advance(told)
    BY <1>2, <2>1, <2>3, <2>6 DEF SunSpecOnTimeout
  <2>11. Sound(Advance(told)) /\ Advance(told).events.outcome = told.events.outcome
    BY <2>9, AdvanceIsSound
  <2> QED BY <2>2, <2>5, <2>8, <2>10, <2>11 DEF Quiet
<1>3. CASE ~(s.pending # None /\ s.pending.age >= Timeout)
  <2>1. SunSpecOnTimeout(s) = Advance(s)
    BY <1>3 DEF SunSpecOnTimeout
  <2> QED BY <2>1, AdvanceIsSound DEF Quiet
<1> QED BY <1>2, <1>3

(* A round of the declared map begins with nothing measured. *)
LEMMA StartRoundIsSound ==
  ASSUME World, driver = "Registers", NEW s, s \in States, IsFiniteSet(s.written)
  PROVE  Sound(StartRound(s)) /\ StartRound(s).events = s.events
<1>1. PICK t : t = [s EXCEPT !.partial = NewPartial]
  OBVIOUS
<1>2. NewPartial \in Partials /\ ~NewPartial.tainted /\ NewPartial.session = conn.session
  BY ModbusAssumption DEF NewPartial, Partials, World
<1>3. NewPartial # None
  BY <1>2, ModbusAssumption
<1>4. t \in States /\ t.partial = NewPartial /\ t.events = s.events /\ t.written = s.written
  BY <1>1, <1>2 DEF States
<1>5. Untainted(t) /\ t.partial # None
  BY <1>2, <1>3, <1>4 DEF Untainted
<1>6. StartRound(s) = Ask(t, "Point", 1)
  BY <1>1 DEF StartRound
<1>7. "Point" \in Kinds /\ 1 \in Nat
  BY DEF Kinds
<1> QED BY <1>4, <1>5, <1>6, <1>7, AskIsSound
LEMMA RegistersAbsorbIsSound ==
  ASSUME World, driver = "Registers", NEW s, Sound(s), NEW r \in Range(wire),
         NEW stored \in Setpoints, NEW reply \in MaySay(r, stored)
  PROVE  Sound(RegistersAbsorb(s, r, reply)) /\ Quiet(s, RegistersAbsorb(s, r, reply))
<1>1. s \in States /\ Untainted(s) /\ Own(s, r) /\ r \in Requests
  BY DEF Sound, Asked, Untainted, World, Range
<1>2. CASE r.id \in s.written
  <2>1. PICK left : left = s.written \ {r.id}
    OBVIOUS
  <2>2. IsFiniteSet(left) /\ left \subseteq Nat
    BY <1>1, <2>1, FS_Subset DEF Untainted, States
  <2>3. PICK answered : answered = [s EXCEPT !.written = left]
    OBVIOUS
  <2>4. /\ answered \in States /\ answered.written = left /\ answered.outbox = s.outbox
        /\ answered.pending = s.pending /\ answered.partial = s.partial
    BY <1>1, <2>2, <2>3 DEF States
  <2>5. PICK accepted \in BOOLEAN : accepted = (reply.is # "Exception")
    OBVIOUS
  <2>6. PICK t : t = Outcome(answered, accepted, None)
    OBVIOUS
  <2>7. RegistersAbsorb(s, r, reply) = t
    BY <1>2, <2>1, <2>3, <2>5, <2>6 DEF RegistersAbsorb
  <2>8. /\ t \in States /\ t.events.outcome = [accepted |-> accepted, confirmed |-> None]
        /\ t.outbox = s.outbox /\ t.pending = s.pending /\ t.partial = s.partial
        /\ t.written = left
    <3>1. None \in Nat \cup {None}
      OBVIOUS
    <3> QED BY <2>4, <2>6, <3>1, OutcomeIs
  <2>9. Sound(t)
    BY <2>2, <2>8 DEF Sound, Untainted, Asked, Own
  <2> QED BY <2>7, <2>8, <2>9 DEF Quiet
<1>3. CASE r.id \notin s.written /\ (s.pending = None \/ s.pending.id # r.id)
  <2>1. RegistersAbsorb(s, r, reply) = s
    BY <1>3 DEF RegistersAbsorb
  <2> QED BY <2>1 DEF Quiet
<1>4. CASE r.id \notin s.written /\ s.pending # None /\ s.pending.id = r.id
  <2>1. s.partial # None /\ r.age <= s.partial.age /\ r.purpose.n \in Nat
    BY <1>1, <1>4 DEF Sound, Asked, Own, Requests, Purposes
  <2>2. Folded(s.partial, r) = s.partial
    BY <1>1, <2>1, FoldedIs
  <2>3. PICK heard : heard = [s EXCEPT !.pending = None, !.partial = s.partial]
    OBVIOUS
  <2>4. heard = [s EXCEPT !.pending = None,
                          !.partial = IF reply.is = "Exception" THEN @ ELSE Folded(@, r)]
    BY <1>1, <2>2, <2>3 DEF States
  <2>5. /\ heard \in States /\ heard.pending = None /\ heard.partial = s.partial
        /\ heard.events = s.events /\ heard.written = s.written
    BY <1>1, <2>3 DEF States
  <2>6. Untainted(heard) /\ heard.partial # None
    BY <1>1, <2>1, <2>5 DEF Untainted
  <2>7. CASE r.purpose.n < Points
    <3>1. RegistersAbsorb(s, r, reply) = Ask(heard, "Point", r.purpose.n + 1)
      BY <1>4, <2>4, <2>7 DEF RegistersAbsorb
    <3>2. "Point" \in Kinds /\ r.purpose.n + 1 \in Nat
      BY <2>1 DEF Kinds
    <3> QED BY <2>5, <2>6, <3>1, <3>2, AskIsSound DEF Quiet
  <2>8. CASE ~(r.purpose.n < Points)
    <3>1. Published(heard.partial) = "clean"
      BY <2>6, PublishedIs
    <3>2. PICK e \in Events : e = [heard.events EXCEPT !.measured = "clean"]
      BY <2>5 DEF States, Events
    <3>3. e.outcome = s.events.outcome
      BY <2>5, <3>2 DEF States, Events
    <3>4. PICK t : t = [heard EXCEPT !.events = e, !.partial = None, !.due = Poll]
      OBVIOUS
    <3>5. RegistersAbsorb(s, r, reply) = [heard EXCEPT !.events.measured = Published(heard.partial),
                                                       !.partial = None, !.due = Poll]
      BY <1>4, <2>4, <2>8 DEF RegistersAbsorb
    <3>6. RegistersAbsorb(s, r, reply) = t
      BY <2>5, <3>1, <3>2, <3>4, <3>5 DEF States, Events
    <3>7. Poll \in Nat
      BY ModbusAssumption
    <3>8. /\ t \in States /\ t.pending = None /\ t.partial = None /\ t.events = e
          /\ t.written = s.written
      BY <2>5, <3>4, <3>7 DEF States
    <3>9. Untainted(t)
      BY <1>1, <3>8 DEF Untainted
    <3> QED BY <3>3, <3>6, <3>8, <3>9, IdleIsSound DEF Quiet
  <2> QED BY <2>7, <2>8
<1> QED BY <1>2, <1>3, <1>4

LEMMA LinkedIsSound ==
  ASSUME NEW s, Sound(s), NEW state \in Links
  PROVE  Sound(Linked(s, state)) /\ Linked(s, state).events.outcome = s.events.outcome
<1>1. PICK t : t = Linked(s, state)
  OBVIOUS
<1>2. s \in States
  BY DEF Sound, Untainted
<1>3. /\ t \in States /\ t.events.outcome = s.events.outcome
      /\ t.outbox = s.outbox /\ t.pending = s.pending /\ t.partial = s.partial
      /\ t.written = s.written
  BY <1>1, <1>2, LinkedIs
<1>4. Sound(t)
  BY <1>3 DEF Sound, Untainted, Asked, Own
<1> QED BY <1>1, <1>3, <1>4

LEMMA RegistersOnLinkIsSound ==
  ASSUME World, driver = "Registers", NEW s, s \in States, NEW state \in {"Up", "Down"}
  PROVE  LET t == RegistersOnLink(s, state) IN
         /\ Sound(t) /\ Quiet(s, t)
         /\ state = "Down" => t.partial = None /\ t.pending = None
<1>1. PICK nothing \in Seq(Requests) : nothing = << >>
  <2>1. << >> \in Seq(Requests)
    OBVIOUS
  <2> QED BY <2>1
<1>2. PICK gone : gone = [s EXCEPT !.outbox = nothing, !.written = {}, !.pending = None, !.partial = None]
  OBVIOUS
<1>3. /\ gone \in States /\ gone.events = s.events /\ gone.pending = None
      /\ gone.partial = None /\ gone.written = {}
  BY <1>2 DEF States
<1>4. PICK told : told = Linked(gone, state)
  OBVIOUS
<1>5. state \in Links
  BY DEF Links
<1>6. /\ told \in States /\ told.events.outcome = s.events.outcome /\ told.pending = None
      /\ told.partial = None /\ told.written = {}
  BY <1>3, <1>4, <1>5, LinkedIs
<1>7. IsFiniteSet(told.written)
  BY <1>6, FS_EmptySet
<1>8. RegistersOnLink(s, state) = IF state = "Up" THEN StartRound(told) ELSE [told EXCEPT !.due = None]
  BY <1>1, <1>2, <1>4 DEF RegistersOnLink
<1>9. CASE state = "Up"
  BY <1>6, <1>7, <1>8, <1>9, StartRoundIsSound DEF Quiet
<1>10. CASE state = "Down"
  <2>1. PICK t : t = [told EXCEPT !.due = None]
    OBVIOUS
  <2>2. /\ t \in States /\ t.events = told.events /\ t.pending = None
        /\ t.partial = None /\ t.written = {}
    BY <1>6, <2>1 DEF States
  <2>3. Untainted(t)
    BY <2>2, FS_EmptySet DEF Untainted
  <2> QED BY <1>6, <1>8, <1>10, <2>1, <2>2, <2>3, IdleIsSound DEF Quiet
<1> QED BY <1>9, <1>10

LEMMA RegistersOnTimeoutIsSound ==
  ASSUME World, driver = "Registers", NEW s, Sound(s)
  PROVE  Sound(RegistersOnTimeout(s)) /\ Quiet(s, RegistersOnTimeout(s))
<1>1. s \in States /\ IsFiniteSet(s.written)
  BY DEF Sound, Untainted
<1>2. PICK late \in BOOLEAN : late = (s.pending # None /\ s.pending.age >= Timeout)
  OBVIOUS
<1>3. PICK gone : gone = IF late THEN [s EXCEPT !.pending = None, !.partial = None, !.due = Poll] ELSE s
  OBVIOUS
<1>4. Sound(gone) /\ gone.events = s.events
  <2>1. CASE late
    <3>1. Poll \in Nat
      BY ModbusAssumption
    <3>2. /\ gone \in States /\ gone.events = s.events /\ gone.pending = None
          /\ gone.partial = None /\ gone.written = s.written
      BY <1>1, <1>3, <2>1, <3>1 DEF States
    <3>3. Untainted(gone)
      BY <1>1, <3>2 DEF Untainted
    <3> QED BY <3>2, <3>3, IdleIsSound
  <2>2. CASE ~late
    BY <1>3, <2>2
  <2> QED BY <2>1, <2>2
<1>5. PICK told : told = IF late /\ s.link = "Up" THEN Linked(gone, "Stale") ELSE gone
  OBVIOUS
<1>6. Sound(told) /\ told.events.outcome = s.events.outcome
  <2>1. "Stale" \in Links
    BY DEF Links
  <2> QED BY <1>4, <1>5, <2>1, LinkedIsSound
<1>7. RegistersOnTimeout(s)
        = IF told.pending = None /\ told.due = 0 /\ told.link = "Up" THEN StartRound(told) ELSE told
  BY <1>2, <1>3, <1>5 DEF RegistersOnTimeout
<1>8. told \in States /\ IsFiniteSet(told.written)
  BY <1>6 DEF Sound, Untainted
<1>9. Sound(StartRound(told)) /\ StartRound(told).events = told.events
  BY <1>8, StartRoundIsSound
<1> QED BY <1>6, <1>7, <1>9 DEF Quiet
(* A command is one more request, and for a SunSpec device the one that is *)
(* outstanding.                                                            *)
LEMMA CommandedIsSound ==
  ASSUME World, NEW s, Sound(s), NEW w \in Nat
  PROVE  Sound(Commanded(s, w)) /\ Quiet(s, Commanded(s, w))
<1>1. s \in States /\ IsFiniteSet(s.written) /\ wire \in Seq(Requests) /\ s.outbox \in Seq(Requests)
  BY DEF Sound, Untainted, World, States
<1>2. CASE driver = "SunSpec"
  <2>1. Commanded(s, w) = Ask(s, "Curtail", w)
    BY <1>2 DEF Commanded
  <2>2. "Curtail" \in Kinds
    BY <1>2 DEF Kinds
  <2>3. Untainted(s) /\ (driver = "Registers" => s.partial # None)
    BY <1>2 DEF Sound
  <2> QED BY <2>1, <2>2, <2>3, AskIsSound DEF Quiet
<1>3. CASE driver = "Registers"
  <2>1. PICK id : id = Transaction(s)
    OBVIOUS
  <2>2. id \in Nat /\ (s.pending # None => s.pending.id # id)
    BY <1>1, <2>1, TransactionIsFresh
  <2>3. PICK purpose \in Purposes : purpose = [is |-> "Write", n |-> w]
    BY DEF Purposes
  <2>4. PICK new : new = [id |-> id, purpose |-> purpose, age |-> 0, held |-> FALSE]
    OBVIOUS
  <2>5. new \in Requests /\ new.id = id
    BY <2>2, <2>4, ModbusAssumption DEF Requests
  <2>6. PICK more : more = Append(s.outbox, new)
    OBVIOUS
  <2>7. more \in Seq(Requests) /\ Range(more) = Range(s.outbox) \cup {new}
    BY <1>1, <2>5, <2>6, Behind
  <2>8. PICK awaited : awaited = s.written \cup {id}
    OBVIOUS
  <2>9. IsFiniteSet(awaited) /\ awaited \subseteq Nat
    BY <1>1, <2>2, <2>8, FS_AddElement DEF States
  <2>10. PICK t : t = [s EXCEPT !.outbox = more, !.written = awaited]
    OBVIOUS
  <2>11. ~(driver = "SunSpec")
    BY <1>3
  <2>12. Commanded(s, w) = t
    BY <1>1, <2>1, <2>3, <2>4, <2>6, <2>8, <2>10, <2>11 DEF Commanded, Send, States
  <2>13. /\ t \in States /\ t.outbox = more /\ t.pending = s.pending /\ t.partial = s.partial
         /\ t.written = awaited /\ t.events = s.events
    BY <1>1, <2>7, <2>9, <2>10 DEF States
  <2>14. Untainted(t)
    BY <2>9, <2>13 DEF Sound, Untainted
  <2>15. ASSUME NEW r \in Range(t.outbox) \cup Range(wire) PROVE Own(t, r)
    <3>1. CASE r = new
      BY <2>2, <2>5, <2>13, <3>1 DEF Own
    <3>2. CASE r # new
      <4>1. Own(s, r)
        BY <2>7, <2>13, <3>2 DEF Sound, Asked
      <4> QED BY <2>13, <4>1 DEF Own
    <3> QED BY <3>1, <3>2
  <2>16. Asked(t)
    BY <2>13, <2>15 DEF Sound, Asked
  <2> QED BY <2>12, <2>13, <2>14, <2>16 DEF Sound, Quiet
<1> QED BY <1>2, <1>3 DEF World

LEMMA OnRubbishIsSound ==
  ASSUME World, NEW s, Sound(s)
  PROVE  Sound(OnRubbish(s)) /\ Quiet(s, OnRubbish(s))
<1>1. s \in States /\ Untainted(s)
  BY DEF Sound, Untainted
<1>2. PICK t : t = OnRubbish(s)
  OBVIOUS
<1>3. /\ t \in States /\ t.pending = None /\ t.partial \in {s.partial, None}
      /\ t.written = s.written /\ t.events = s.events
  <2>1. CASE driver = "SunSpec"
    BY <1>1, <1>2, <2>1 DEF OnRubbish, States
  <2>2. CASE ~(driver = "SunSpec")
    BY <1>1, <1>2, <2>2 DEF OnRubbish, States
  <2> QED BY <2>1, <2>2
<1>4. Untainted(t)
  BY <1>1, <1>3 DEF Untainted
<1> QED BY <1>2, <1>3, <1>4, IdleIsSound DEF Quiet

LEMMA OnFrameIsSound ==
  ASSUME World, NEW s, Sound(s), NEW r \in Range(wire),
         NEW stored \in Setpoints, NEW reply \in MaySay(r, stored)
  PROVE  LET t == OnFrame(s, r, reply) IN
         /\ Sound(t)
         /\ Quiet(s, t) \/ (r.purpose.is = "Readback" /\ InForce(t, stored))
<1>1. CASE driver = "SunSpec"
  <2>1. PICK heard : heard = Handle(s, r, reply)
    OBVIOUS
  <2>2. Sound(heard) /\ (Quiet(s, heard) \/ (r.purpose.is = "Readback" /\ InForce(heard, stored)))
    BY <1>1, <2>1, HandleIsSound
  <2>3. Sound(Advance(heard)) /\ Advance(heard).events.outcome = heard.events.outcome
    BY <1>1, <2>2, AdvanceIsSound
  <2>4. OnFrame(s, r, reply) = Advance(heard)
    BY <1>1, <2>1 DEF OnFrame
  <2> QED BY <2>2, <2>3, <2>4 DEF Quiet, InForce
<1>2. CASE driver = "Registers"
  <2>1. ~(driver = "SunSpec")
    BY <1>2
  <2>2. OnFrame(s, r, reply) = RegistersAbsorb(s, r, reply)
    BY <2>1 DEF OnFrame
  <2> QED BY <1>2, <2>2, RegistersAbsorbIsSound
<1> QED BY <1>1, <1>2 DEF World

LEMMA OnLinkIsSound ==
  ASSUME World, NEW s, s \in States, IsFiniteSet(s.written), NEW state \in {"Up", "Down"}
  PROVE  LET t == OnLink(s, state) IN
         /\ Sound(t) /\ Quiet(s, t)
         /\ state = "Down" => t.partial = None /\ t.pending = None
<1>1. CASE driver = "SunSpec"
  <2>1. OnLink(s, state) = SunSpecOnLink(s, state)
    BY <1>1 DEF OnLink
  <2> QED BY <1>1, <2>1, SunSpecOnLinkIsSound
<1>2. CASE driver = "Registers"
  <2>1. ~(driver = "SunSpec")
    BY <1>2
  <2>2. OnLink(s, state) = RegistersOnLink(s, state)
    BY <2>1 DEF OnLink
  <2> QED BY <1>2, <2>2, RegistersOnLinkIsSound
<1> QED BY <1>1, <1>2 DEF World

LEMMA OnTimeoutIsSound ==
  ASSUME World, NEW s, Sound(s)
  PROVE  Sound(OnTimeout(s)) /\ Quiet(s, OnTimeout(s))
<1>1. CASE driver = "SunSpec"
  <2>1. OnTimeout(s) = SunSpecOnTimeout(s)
    BY <1>1 DEF OnTimeout
  <2> QED BY <1>1, <2>1, SunSpecOnTimeoutIsSound
<1>2. CASE driver = "Registers"
  <2>1. ~(driver = "SunSpec")
    BY <1>2
  <2>2. OnTimeout(s) = RegistersOnTimeout(s)
    BY <2>1 DEF OnTimeout
  <2> QED BY <1>2, <2>2, RegistersOnTimeoutIsSound
<1> QED BY <1>1, <1>2 DEF World
-----------------------------------------------------------------------------
(* From second to second *)

Entries == [link : Links, latest : {"clean", None}]

SocketInv == World /\ Sound(d) /\ entry \in Entries

Confirmed == d'.events.outcome # d.events.outcome /\ Believed'
               => device.on /\ device.setpoint = d'.events.outcome.confirmed

LEMMA QuietConfirms ==
  ASSUME Quiet(d, d')
  PROVE  Confirmed
BY DEF Quiet, Confirmed, Believed

(* What is sound stays so while nothing is queued. *)
LEMMA Carried ==
  ASSUME NEW s, NEW t, Sound(s), t \in States, IsFiniteSet(t.written),
         t.pending = s.pending, t.partial = s.partial,
         Range(t.outbox) \cup Range(wire') \subseteq Range(s.outbox) \cup Range(wire),
         d' = t, driver' = driver, conn'.session = conn.session
  PROVE  Sound(d)'
<1>1. Untainted(d)'
  BY DEF Sound, Untainted
<1>2. ASSUME NEW r \in Range(d'.outbox) \cup Range(wire')
      PROVE  d'.pending # None /\ r.id = d'.pending.id
               => /\ r.purpose = d'.pending.purpose
                  /\ d'.partial # None => r.age <= d'.partial.age
  <2>1. Own(s, r)
    BY <1>2 DEF Sound, Asked
  <2> QED BY <2>1 DEF Own
<1>3. d'.pending # None => /\ d'.pending.purpose.is \in Kinds'
                           /\ driver' = "Registers" => d'.partial # None
  BY DEF Sound, Asked, Kinds
<1>4. Asked(d)'
  BY <1>2, <1>3 DEF Asked, Own
<1> QED BY <1>1, <1>4 DEF Sound

(* A second later. *)
LEMMA OlderRequest ==
  ASSUME NEW r \in Requests, NEW o, o = Older(r, "age", Timeout)
  PROVE  /\ o \in Requests /\ o.id = r.id /\ o.purpose = r.purpose
         /\ o.age <= IF r.age >= Timeout THEN r.age ELSE r.age + 1
<1>1. Timeout \in Nat /\ r.age \in 0 .. Timeout
  BY ModbusAssumption DEF Requests
<1>2. CASE r = None \/ r.age >= Timeout
  <2>1. o = r
    BY <1>2 DEF Older
  <2> QED BY <1>1, <2>1
<1>3. CASE ~(r = None \/ r.age >= Timeout)
  <2>1. o = [r EXCEPT !.age = r.age + 1]
    BY <1>3 DEF Older, Requests
  <2>2. r.age + 1 \in 0 .. Timeout
    BY <1>1, <1>3
  <2> QED BY <1>1, <1>3, <2>1, <2>2 DEF Requests
<1> QED BY <1>2, <1>3

LEMMA OlderPending ==
  ASSUME NEW p \in Pendings, NEW o, o = Older(p, "age", Timeout)
  PROVE  o \in Pendings /\ o.id = p.id /\ o.purpose = p.purpose
<1>1. Timeout \in Nat /\ p.age \in 0 .. Timeout
  BY ModbusAssumption DEF Pendings
<1>2. CASE p = None \/ p.age >= Timeout
  BY <1>2 DEF Older
<1>3. CASE ~(p = None \/ p.age >= Timeout)
  <2>1. o = [p EXCEPT !.age = p.age + 1]
    BY <1>3 DEF Older, Pendings
  <2>2. p.age + 1 \in 0 .. Timeout
    BY <1>1, <1>3
  <2> QED BY <2>1, <2>2 DEF Pendings
<1> QED BY <1>2, <1>3

LEMMA OlderPartial ==
  ASSUME NEW p \in Partials, NEW o, o = Older(p, "age", Timeout)
  PROVE  /\ o \in Partials /\ o.tainted = p.tainted /\ o.session = p.session
         /\ o.age = IF p.age >= Timeout THEN p.age ELSE p.age + 1
<1>1. Timeout \in Nat /\ p.age \in 0 .. Timeout /\ p # None
  BY ModbusAssumption DEF Partials
<1>2. CASE p.age >= Timeout
  <2>1. o = p
    BY <1>2 DEF Older
  <2> QED BY <1>2, <2>1
<1>3. CASE ~(p.age >= Timeout)
  <2>1. o = [p EXCEPT !.age = p.age + 1]
    BY <1>1, <1>3 DEF Older, Partials
  <2>2. p.age + 1 \in 0 .. Timeout
    BY <1>1, <1>3
  <2> QED BY <1>3, <2>1, <2>2 DEF Partials
<1> QED BY <1>2, <1>3

(* Time passes for a request and for its measurement alike. *)
LEMMA TickIsSound ==
  ASSUME SocketInv, Tick
  PROVE  SocketInv' /\ Confirmed
<1> DEFINE older(x) == Older(x, "age", Timeout)
           queued == [n \in DOMAIN d.outbox |-> older(d.outbox[n])]
           sent == [n \in DOMAIN wire |-> older(wire[n])]
<1>1. d \in States /\ d.outbox \in Seq(Requests) /\ wire \in Seq(Requests)
  BY DEF SocketInv, Sound, Untainted, World, States
<1>2. queued \in Seq(Requests) /\ DOMAIN queued = DOMAIN d.outbox
  <2>1. \A n \in DOMAIN d.outbox : older(d.outbox[n]) \in Requests
    BY <1>1, OlderRequest
  <2> HIDE DEF older
  <2> QED BY <1>1, <2>1
<1>3. sent \in Seq(Requests) /\ DOMAIN sent = DOMAIN wire
  <2>1. \A n \in DOMAIN wire : older(wire[n]) \in Requests
    BY <1>1, OlderRequest
  <2> HIDE DEF older
  <2> QED BY <1>1, <2>1
<1>4. PICK pending : pending = older(d.pending)
  OBVIOUS
<1>5. PICK partial : partial = older(d.partial)
  OBVIOUS
<1>6. PICK due : due = Sooner(d.due)
  OBVIOUS
<1>7. pending \in Pendings \cup {None}
      /\ (pending # None => d.pending # None /\ pending.id = d.pending.id
                            /\ pending.purpose = d.pending.purpose)
  <2>1. CASE d.pending = None
    BY <1>4, <2>1 DEF Older
  <2>2. CASE d.pending # None
    <3>1. d.pending \in Pendings
      BY <1>1, <2>2 DEF States
    <3> QED BY <1>4, <2>2, <3>1, OlderPending
  <2> QED BY <2>1, <2>2
<1>8. /\ partial \in Partials \cup {None} /\ (partial = None <=> d.partial = None)
      /\ partial # None =>
           /\ partial.tainted = d.partial.tainted /\ partial.session = d.partial.session
           /\ partial.age = IF d.partial.age >= Timeout THEN d.partial.age ELSE d.partial.age + 1
  <2>1. CASE d.partial = None
    BY <1>5, <2>1 DEF Older
  <2>2. CASE d.partial # None
    <3>1. d.partial \in Partials
      BY <1>1, <2>2 DEF States
    <3>2. partial \in Partials
      BY <1>5, <3>1, OlderPartial
    <3>3. partial # None
      BY <3>2, ModbusAssumption
    <3> QED BY <1>5, <2>2, <3>1, <3>3, OlderPartial
  <2> QED BY <2>1, <2>2
<1>9. due \in Nat \cup {None}
  BY <1>1, <1>6 DEF Sooner, States
<1>10. d' = [d EXCEPT !.pending = pending, !.partial = partial, !.due = due, !.outbox = queued]
  BY <1>1, <1>4, <1>5, <1>6 DEF Tick, States
<1> HIDE DEF queued, sent
<1>11. /\ d' \in States /\ d'.pending = pending /\ d'.partial = partial /\ d'.outbox = queued
       /\ d'.written = d.written /\ d'.events = d.events
  BY <1>1, <1>2, <1>7, <1>8, <1>9, <1>10 DEF States
<1>12. wire' = sent /\ driver' = driver /\ device' = device /\ entry' = entry
       /\ conn' = [conn EXCEPT !.wake = Sooner(conn.wake)]
  BY DEF Tick, SocketInv, World, sent
<1>13. World' /\ conn'.session = conn.session
  BY <1>3, <1>12 DEF SocketInv, World
<1>14. Untainted(d)'
  BY <1>8, <1>11, <1>13 DEF SocketInv, Sound, Untainted
<1>15. ASSUME NEW r \in Range(queued) \cup Range(sent)
       PROVE  \E o \in Range(d.outbox) \cup Range(wire) : o \in Requests /\ r = older(o)
  <2>1. CASE r \in Range(queued)
    <3>1. PICK n \in DOMAIN d.outbox : r = older(d.outbox[n])
      BY <1>2, <2>1 DEF Range, queued
    <3> QED BY <1>1, <3>1 DEF Range
  <2>2. CASE r \in Range(sent)
    <3>1. PICK n \in DOMAIN wire : r = older(wire[n])
      BY <1>3, <2>2 DEF Range, sent
    <3> QED BY <1>1, <3>1 DEF Range
  <2> QED BY <1>15, <2>1, <2>2
<1>16. ASSUME NEW r \in Range(queued) \cup Range(sent), pending # None, r.id = pending.id
       PROVE  r.purpose = pending.purpose /\ (partial # None => r.age <= partial.age)
  <2>1. PICK o \in Range(d.outbox) \cup Range(wire) : o \in Requests /\ r = older(o)
    BY <1>15
  <2>2. /\ r \in Requests /\ r.id = o.id /\ r.purpose = o.purpose
        /\ r.age <= IF o.age >= Timeout THEN o.age ELSE o.age + 1
    BY <2>1, OlderRequest
  <2>3. Own(d, o)
    BY DEF SocketInv, Sound, Asked
  <2>4. o.purpose = d.pending.purpose /\ (d.partial # None => o.age <= d.partial.age)
    BY <1>7, <1>16, <2>2, <2>3 DEF Own
  <2>5. ASSUME partial # None PROVE r.age <= partial.age
    <3>1. o.age <= d.partial.age
      BY <1>8, <2>4, <2>5
    <3>2. d.partial \in Partials
      BY <1>1, <1>8, <2>5 DEF States
    <3>3. o.age \in Nat /\ o.age <= Timeout /\ d.partial.age \in Nat /\ d.partial.age <= Timeout
          /\ r.age \in Nat /\ Timeout \in Nat
      BY <2>1, <2>2, <3>2, ModbusAssumption DEF Requests, Partials
    <3>4. partial.age = IF d.partial.age >= Timeout THEN d.partial.age ELSE d.partial.age + 1
      BY <1>8, <2>5
    <3> QED BY <2>2, <3>1, <3>3, <3>4
  <2> QED BY <1>7, <1>16, <2>2, <2>4, <2>5
<1>17. Asked(d)'
  <2>1. pending # None => pending.purpose.is \in Kinds /\ (driver = "Registers" => partial # None)
    BY <1>7, <1>8 DEF SocketInv, Sound, Asked
  <2>2. Kinds' = Kinds
    BY <1>12 DEF Kinds
  <2> QED BY <1>11, <1>12, <1>16, <2>1, <2>2 DEF Asked, Own
<1>18. Confirmed
  BY <1>11, QuietConfirms DEF Quiet
<1> QED BY <1>12, <1>13, <1>14, <1>17, <1>18 DEF SocketInv, Sound
LEMMA InitIsSound == Init => SocketInv
<1> SUFFICES ASSUME Init PROVE SocketInv
  OBVIOUS
<1>1. World
  BY ModbusAssumption DEF Init, World, Setpoints
<1>2. Probing(0) \in Walks
  BY WalksAre
<1>3. NoEvents \in Events
  BY DEF NoEvents, Events
<1>4. << >> \in Seq(Requests)
  OBVIOUS
<1>5. d \in States /\ d.pending = None /\ d.partial = None /\ d.written = {}
  BY <1>2, <1>3, <1>4 DEF Init, NewDriver, States, Links
<1>6. Untainted(d)
  BY <1>5, FS_EmptySet DEF Untainted
<1>7. entry \in Entries
  BY DEF Init, Entries, Links
<1> QED BY <1>1, <1>5, <1>6, <1>7, IdleIsSound DEF SocketInv

(* The steps of the transport task that the driver hears nothing of. *)
LEMMA DialIsSound ==
  ASSUME SocketInv, DialFails \/ Dial
  PROVE  SocketInv' /\ Confirmed
<1>1. /\ driver' = driver /\ d' = d /\ wire' = wire /\ device' = device /\ entry' = entry
      /\ conn'.session = conn.session
      /\ conn' = [at |-> conn'.at, backoff |-> conn'.backoff, wake |-> conn'.wake,
                  session |-> conn'.session]
  BY DEF DialFails, Dial, Resting, SocketInv, World
<1>2. World'
  BY <1>1 DEF SocketInv, World
<1>3. Sound(d)'
  BY <1>1, Carried DEF SocketInv, Sound, Untainted
<1>4. Confirmed
  BY <1>1, QuietConfirms DEF Quiet
<1> QED BY <1>1, <1>2, <1>3, <1>4 DEF SocketInv

LEMMA ConnectedIsSound ==
  ASSUME SocketInv, Connected
  PROVE  SocketInv' /\ Confirmed
<1>1. /\ driver' = driver /\ d' = OnLink(d, "Up") /\ wire' = wire /\ device' = device
      /\ conn'.session = conn.session
      /\ conn' = [at |-> conn'.at, backoff |-> conn'.backoff, wake |-> conn'.wake,
                  session |-> conn'.session]
  BY DEF Connected, SocketInv, World
<1>2. World'
  BY <1>1 DEF SocketInv, World
<1>3. PICK t : t = OnLink(d, "Up")
  OBVIOUS
<1>4. Sound(t) /\ Quiet(d, t)
  BY <1>3, OnLinkIsSound DEF SocketInv, Sound, Untainted
<1>5. Sound(d)'
  BY <1>1, <1>3, <1>4, Carried DEF Sound, Untainted
<1>6. Confirmed
  BY <1>1, <1>3, <1>4, QuietConfirms
<1>7. entry' \in Entries
  BY DEF Connected, RegistryOnLink, SocketInv, Entries, Links
<1> QED BY <1>2, <1>5, <1>6, <1>7 DEF SocketInv

LEMMA ParkIsSound ==
  ASSUME SocketInv, Park
  PROVE  SocketInv' /\ Confirmed
<1>1. d \in States /\ d.outbox \in Seq(Requests) /\ wire \in Seq(Requests) /\ IsFiniteSet(d.written)
  BY DEF SocketInv, Sound, Untainted, World, States
<1>2. PICK nothing \in Seq(Requests) : nothing = << >>
  <2>1. << >> \in Seq(Requests)
    OBVIOUS
  <2> QED BY <2>1
<1>3. PICK t : t = [d EXCEPT !.outbox = nothing]
  OBVIOUS
<1>4. /\ t \in States /\ t.outbox = << >> /\ t.pending = d.pending /\ t.partial = d.partial
      /\ t.written = d.written /\ t.events = d.events
  BY <1>1, <1>2, <1>3 DEF States
<1>5. /\ driver' = driver /\ d' = t /\ wire' = wire \o d.outbox /\ device' = device
      /\ entry' = entry /\ conn'.session = conn.session
      /\ conn' = [at |-> conn'.at, backoff |-> conn'.backoff, wake |-> conn'.wake,
                  session |-> conn'.session]
  BY <1>2, <1>3 DEF Park, SocketInv, World
<1>6. wire' \in Seq(Requests) /\ Range(wire') \subseteq Range(d.outbox) \cup Range(wire)
  BY <1>1, <1>5, Joined
<1>7. Range(t.outbox) = {}
  BY <1>4 DEF Range
<1>8. World'
  BY <1>5, <1>6 DEF SocketInv, World
<1>9. Sound(d)'
  BY <1>1, <1>4, <1>5, <1>6, <1>7, Carried DEF SocketInv
<1>10. Confirmed
  BY <1>4, <1>5, QuietConfirms DEF Quiet
<1> QED BY <1>5, <1>8, <1>9, <1>10 DEF SocketInv

LEMMA WakeIsSound ==
  ASSUME SocketInv, Wake
  PROVE  SocketInv' /\ Confirmed
<1>1. /\ driver' = driver /\ d' = OnTimeout(d) /\ wire' = wire /\ device' = device
      /\ entry' = entry /\ conn'.session = conn.session
      /\ conn' = [at |-> conn'.at, backoff |-> conn'.backoff, wake |-> conn'.wake,
                  session |-> conn'.session]
  BY DEF Wake, SocketInv, World
<1>2. World'
  BY <1>1 DEF SocketInv, World
<1>3. PICK t : t = OnTimeout(d)
  OBVIOUS
<1>4. Sound(t) /\ Quiet(d, t)
  BY <1>3, OnTimeoutIsSound DEF SocketInv
<1>5. Sound(d)'
  BY <1>1, <1>3, <1>4, Carried DEF Sound, Untainted
<1>6. Confirmed
  BY <1>1, <1>3, <1>4, QuietConfirms
<1> QED BY <1>1, <1>2, <1>5, <1>6 DEF SocketInv

(* A socket that closes takes with it what was asked on it. *)
LEMMA CloseIsSound ==
  ASSUME SocketInv, Close
  PROVE  SocketInv' /\ Confirmed
<1>1. /\ driver' = driver /\ d' = OnLink(d, "Down") /\ wire' = << >> /\ device' = device
      /\ conn'.session = 1 - conn.session
      /\ conn' = [at |-> conn'.at, backoff |-> conn'.backoff, wake |-> conn'.wake,
                  session |-> conn'.session]
  BY DEF Close, Resting, SocketInv, World
<1>2. << >> \in Seq(Requests)
  OBVIOUS
<1>3. conn'.session \in {0, 1}
  BY <1>1 DEF SocketInv, World
<1>4. World'
  BY <1>1, <1>2, <1>3 DEF SocketInv, World
<1>5. PICK t : t = OnLink(d, "Down")
  OBVIOUS
<1>6. Sound(t) /\ Quiet(d, t) /\ t.partial = None /\ t.pending = None
  BY <1>5, OnLinkIsSound DEF SocketInv, Sound, Untainted
<1>7. Sound(d)'
  BY <1>1, <1>5, <1>6 DEF Sound, Untainted, Asked, Own
<1>8. Confirmed
  BY <1>1, <1>5, <1>6, QuietConfirms
<1>9. entry' \in Entries
  BY DEF Close, RegistryOnLink, SocketInv, Entries, Links
<1> QED BY <1>4, <1>7, <1>8, <1>9 DEF SocketInv

(* An answer, whatever it is and whenever it comes. *)
LEMMA AnswerIsSound ==
  ASSUME SocketInv, NEW n \in DOMAIN wire, NEW stored \in Setpoints,
         NEW reply \in MaySay(wire[n], stored), Answer(n, reply, stored),
         wire[n].purpose.is = "Readback" => stored = device
  PROVE  SocketInv' /\ Confirmed
<1>1. /\ driver' = driver /\ d' = OnFrame(d, wire[n], reply) /\ wire' = RemoveAt(wire, n)
      /\ device' = stored /\ entry' = entry /\ conn'.session = conn.session
      /\ conn' = [at |-> conn'.at, backoff |-> conn'.backoff, wake |-> conn'.wake,
                  session |-> conn'.session]
  BY DEF Answer, SocketInv, World
<1>2. wire \in Seq(Requests) /\ wire[n] \in Range(wire)
  BY DEF SocketInv, World, Range
<1>3. wire' \in Seq(Requests) /\ Range(wire') \subseteq Range(wire)
  BY <1>1, <1>2, TakenOut
<1>4. World'
  BY <1>1, <1>3 DEF SocketInv, World
<1>5. PICK t : t = OnFrame(d, wire[n], reply)
  OBVIOUS
<1>6. Sound(t) /\ (Quiet(d, t) \/ (wire[n].purpose.is = "Readback" /\ InForce(t, stored)))
  BY <1>2, <1>5, OnFrameIsSound DEF SocketInv
<1>7. Sound(d)'
  BY <1>1, <1>3, <1>5, <1>6, Carried DEF Sound, Untainted
<1>8. Confirmed
  <2>1. CASE Quiet(d, t)
    BY <1>1, <1>5, <2>1, QuietConfirms
  <2>2. CASE wire[n].purpose.is = "Readback" /\ InForce(t, stored)
    BY <1>1, <1>5, <2>2 DEF InForce, Confirmed
  <2> QED BY <1>6, <2>1, <2>2
<1> QED BY <1>1, <1>4, <1>7, <1>8 DEF SocketInv

LEMMA AnswersIsSound ==
  ASSUME SocketInv, NEW n \in DOMAIN wire, Answers(n)
  PROVE  SocketInv' /\ Confirmed
<1>1. device \in Setpoints
  BY DEF SocketInv, World
<1>2. CASE /\ wire[n].purpose.is \notin {"Curtail", "Write"}
           /\ \E reply \in Replies(wire[n].purpose, device) : Answer(n, reply, device)
  <2>1. PICK reply \in Replies(wire[n].purpose, device) : Answer(n, reply, device)
    BY <1>2
  <2>2. reply \in MaySay(wire[n], device)
    BY DEF MaySay
  <2> QED BY <1>1, <2>1, <2>2, AnswerIsSound
<1>3. CASE /\ wire[n].purpose.is \in {"Curtail", "Write"}
           /\ \E setpoint \in Wants, on \in BOOLEAN :
                Answer(n, Says("WriteAccepted", None), [setpoint |-> setpoint, on |-> on])
  <2>1. PICK setpoint \in Wants, on \in BOOLEAN :
               Answer(n, Says("WriteAccepted", None), [setpoint |-> setpoint, on |-> on])
    BY <1>3
  <2>2. PICK stored : stored = [setpoint |-> setpoint, on |-> on]
    OBVIOUS
  <2>3. stored \in Setpoints
    BY <2>2, ModbusAssumption DEF Setpoints
  <2>4. Says("WriteAccepted", None) \in MaySay(wire[n], stored)
    BY <1>3 DEF MaySay, Replies
  <2>5. Answer(n, Says("WriteAccepted", None), stored)
    BY <2>1, <2>2
  <2>6. wire[n].purpose.is # "Readback"
    BY <1>3
  <2> QED BY <2>3, <2>4, <2>5, <2>6, AnswerIsSound
<1> QED BY <1>2, <1>3 DEF Answers

LEMMA RefusesIsSound ==
  ASSUME SocketInv, Refuses
  PROVE  SocketInv' /\ Confirmed
<1>1. PICK n \in DOMAIN wire : Answer(n, Says("Exception", None), device)
  BY DEF Refuses
<1>2. device \in Setpoints /\ Says("Exception", None) \in MaySay(wire[n], device)
  BY DEF SocketInv, World, MaySay
<1> QED BY <1>1, <1>2, AnswerIsSound

LEMMA HoldsIsSound ==
  ASSUME SocketInv, Holds
  PROVE  SocketInv' /\ Confirmed
<1>1. /\ driver' = driver /\ d' = d /\ conn' = conn /\ device' = device /\ entry' = entry
  BY DEF Holds
<1>2. PICK n \in DOMAIN wire : wire' = [wire EXCEPT ![n].held = TRUE]
  BY DEF Holds
<1>3. wire \in Seq(Requests)
  BY DEF SocketInv, World
<1>4. PICK r : r = [wire[n] EXCEPT !.held = TRUE]
  OBVIOUS
<1>5. r \in Requests /\ r.id = wire[n].id /\ r.purpose = wire[n].purpose /\ r.age = wire[n].age
  <2>1. wire[n] \in Requests
    BY <1>3
  <2> QED BY <1>4, <2>1 DEF Requests
<1>6. wire' = [wire EXCEPT ![n] = r]
  BY <1>2, <1>4
<1>7. wire' \in Seq(Requests)
  BY <1>3, <1>5, <1>6
<1>8. World'
  BY <1>1, <1>7 DEF SocketInv, World
<1>9. ASSUME NEW x \in Range(d.outbox) \cup Range(wire') PROVE Own(d, x)
  <2>1. CASE x = r
    <3>1. Own(d, wire[n])
      BY <1>3 DEF SocketInv, Sound, Asked, Range
    <3> QED BY <1>5, <2>1, <3>1 DEF Own
  <2>2. CASE x # r
    <3>1. x \in Range(d.outbox) \cup Range(wire)
      BY <1>3, <1>6, <2>2 DEF Range
    <3> QED BY <3>1 DEF SocketInv, Sound, Asked
  <2> QED BY <2>1, <2>2
<1>10. Sound(d)'
  BY <1>1, <1>9 DEF SocketInv, Sound, Untainted, Asked, Own, Kinds
<1>11. Confirmed
  BY <1>1, QuietConfirms DEF Quiet
<1> QED BY <1>1, <1>8, <1>10, <1>11 DEF SocketInv

LEMMA GarblesIsSound ==
  ASSUME SocketInv, Garbles
  PROVE  SocketInv' /\ Confirmed
<1>1. PICK n \in DOMAIN wire : wire' = RemoveAt(wire, n)
  BY DEF Garbles
<1>2. /\ driver' = driver /\ d' = OnRubbish(d) /\ device' = device /\ entry' = entry
      /\ conn'.session = conn.session
      /\ conn' = [at |-> conn'.at, backoff |-> conn'.backoff, wake |-> conn'.wake,
                  session |-> conn'.session]
  BY DEF Garbles, SocketInv, World
<1>3. wire' \in Seq(Requests) /\ Range(wire') \subseteq Range(wire)
  BY <1>1, TakenOut DEF SocketInv, World
<1>4. World'
  BY <1>2, <1>3 DEF SocketInv, World
<1>5. PICK t : t = OnRubbish(d)
  OBVIOUS
<1>6. Sound(t) /\ Quiet(d, t)
  BY <1>5, OnRubbishIsSound DEF SocketInv
<1>7. Sound(d)'
  BY <1>2, <1>3, <1>5, <1>6, Carried DEF Sound, Untainted
<1>8. Confirmed
  BY <1>2, <1>5, <1>6, QuietConfirms
<1> QED BY <1>2, <1>4, <1>7, <1>8 DEF SocketInv
LEMMA ObserveIsSound ==
  ASSUME SocketInv, Observe
  PROVE  SocketInv' /\ Confirmed
<1>1. d \in States /\ IsFiniteSet(d.written) /\ entry \in Entries
  BY DEF SocketInv, Sound, Untainted
<1>2. NoEvents \in Events
  BY DEF NoEvents, Events
<1>3. PICK t : t = [d EXCEPT !.events = NoEvents]
  OBVIOUS
<1>4. /\ t \in States /\ t.outbox = d.outbox /\ t.pending = d.pending /\ t.partial = d.partial
      /\ t.written = d.written /\ t.events = NoEvents
  BY <1>1, <1>2, <1>3 DEF States
<1>5. driver' = driver /\ d' = t /\ conn' = conn /\ wire' = wire /\ device' = device
  BY <1>3 DEF Observe
<1>6. World'
  BY <1>5 DEF SocketInv, World
<1>7. Sound(d)'
  BY <1>1, <1>4, <1>5, Carried DEF SocketInv
<1>8. Confirmed
  <2>1. d'.events.outcome = None
    BY <1>4, <1>5 DEF NoEvents
  <2> QED BY <2>1 DEF Confirmed, Believed
<1>9. entry' \in Entries
  BY <1>1 DEF Observe, Newest, Entries, States, Events
<1> QED BY <1>6, <1>7, <1>8, <1>9 DEF SocketInv

LEMMA CommandIsSound ==
  ASSUME SocketInv, NEW w \in Wants, Command(w)
  PROVE  SocketInv' /\ Confirmed
<1>1. /\ driver' = driver /\ d' = Commanded(d, w) /\ conn' = conn /\ wire' = wire
      /\ device' = device /\ entry' = entry
  BY DEF Command
<1>2. w \in Nat
  BY ModbusAssumption
<1>3. PICK t : t = Commanded(d, w)
  OBVIOUS
<1>4. Sound(t) /\ Quiet(d, t)
  BY <1>2, <1>3, CommandedIsSound DEF SocketInv
<1>5. World'
  BY <1>1 DEF SocketInv, World
<1>6. Sound(d)'
  BY <1>1, <1>3, <1>4, Carried DEF Sound, Untainted
<1>7. Confirmed
  BY <1>1, <1>3, <1>4, QuietConfirms
<1> QED BY <1>1, <1>5, <1>6, <1>7 DEF SocketInv

LEMMA StepIsSound ==
  ASSUME SocketInv, [Next]_vars
  PROVE  SocketInv' /\ Confirmed
<1>1. CASE UNCHANGED vars
  <2>1. /\ driver' = driver /\ d' = d /\ conn' = conn /\ wire' = wire /\ device' = device
        /\ entry' = entry
    BY <1>1 DEF vars
  <2>2. World' /\ Sound(d)'
    BY <2>1 DEF SocketInv, World, Sound, Untainted, Asked, Own, Kinds
  <2>3. Confirmed
    BY <2>1, QuietConfirms DEF Quiet
  <2> QED BY <2>1, <2>2, <2>3 DEF SocketInv
<1>2. CASE NoCommand
  <2>1. /\ driver' = driver /\ d' = d /\ conn' = conn /\ wire' = wire /\ device' = device
        /\ entry' = entry
    BY <1>2 DEF NoCommand
  <2>2. World' /\ Sound(d)'
    BY <2>1 DEF SocketInv, World, Sound, Untainted, Asked, Own, Kinds
  <2>3. Confirmed
    BY <2>1, QuietConfirms DEF Quiet
  <2> QED BY <2>1, <2>2, <2>3 DEF SocketInv
<1>3. CASE Connected
  BY <1>3, ConnectedIsSound
<1>4. CASE DialFails \/ Dial
  BY <1>4, DialIsSound
<1>5. CASE Park
  BY <1>5, ParkIsSound
<1>6. CASE Wake
  BY <1>6, WakeIsSound
<1>7. CASE Close
  BY <1>7, CloseIsSound
<1>8. CASE AnswersPromptly
  BY <1>8, AnswersIsSound DEF AnswersPromptly
<1>9. CASE Holds
  BY <1>9, HoldsIsSound
<1>10. CASE AnswersLate
  BY <1>10, AnswersIsSound DEF AnswersLate
<1>11. CASE Refuses
  BY <1>11, RefusesIsSound
<1>12. CASE Garbles
  BY <1>12, GarblesIsSound
<1>13. CASE Observe
  BY <1>13, ObserveIsSound
<1>14. CASE \E w \in Wants : Command(w)
  BY <1>14, CommandIsSound
<1>15. CASE Tick
  BY <1>15, TickIsSound
<1> QED BY <1>1, <1>2, <1>3, <1>4, <1>5, <1>6, <1>7, <1>8, <1>9, <1>10, <1>11, <1>12, <1>13,
           <1>14, <1>15 DEF Next

(* Nothing that a device said to an earlier question, in an earlier round  *)
(* or on an earlier socket is in what the registry believes it measured.   *)
THEOREM SaidInOneGo == Spec => []MeasuredInOneGo
<1>1. SocketInv => MeasuredInOneGo
  <2>1. None # "tainted"
    BY ModbusAssumption
  <2> QED BY <2>1 DEF SocketInv, Sound, Untainted, States, Events, Entries, MeasuredInOneGo
<1>2. SocketInv /\ [Next]_vars => SocketInv'
  BY StepIsSound
<1> QED BY <1>1, <1>2, InitIsSound, PTL DEF Spec

(* A curtailment is confirmed by what the device has in force at that      *)
(* moment: the answer that confirms it is the answer to its read-back.     *)
THEOREM ConfirmedWhatIsInForce == Spec => ConfirmedIsInForce
<1>1. SocketInv /\ [Next]_vars => SocketInv'
  BY StepIsSound
<1>2. SocketInv /\ [Next]_vars
        => [d'.events.outcome # d.events.outcome /\ Believed'
              => device.on /\ device.setpoint = d'.events.outcome.confirmed]_vars
  BY StepIsSound DEF Confirmed
<1> QED BY <1>1, <1>2, InitIsSound, PTL DEF Spec, ConfirmedIsInForce
=============================================================================
