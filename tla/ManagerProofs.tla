--------------------------- MODULE ManagerProofs ---------------------------
(***************************************************************************)
(* The managers of an asset, for any number of connections, any length of  *)
(* the queue and any number of instructions: the types, whose word is in   *)
(* force, and the story that is told of every instruction.                 *)
(***************************************************************************)
EXTENDS Manager, SequenceTheorems, NaturalsInduction, WellFoundedInduction, TLAPS

Sessions == [state : State, pending : Seq(Scheduled), events : Seq(Event)]

Proper(s) == s \in Sessions /\ Len(s.pending) <= MaxPending /\ InTimeOrder(s.pending)

(* How far an instruction has come, by what was said of it. *)
Agreed == <<"OK", "Accepted">>
Begun  == <<"OK", "Accepted", "Started">>
Tales == {<< >>, Agreed, Begun,
          <<"OK", "Accepted", "Started", "Aborted">>,
          <<"OK", "Accepted", "Revoked">>,
          <<"TemporaryError", "Accepted", "Rejected">>,
          <<"InvalidContent", "Rejected">>}

Distinct(q) == \A m, n \in DOMAIN q : q[m].instruction = q[n].instruction => m = n

(* An instruction of this connection's manager. *)
SentBy(c, i) == i \in 1 .. Len(sent) /\ sent[i] = c

(* Whoever drives, or drove and has the clearing of the map ahead.  A      *)
(* release is the last a session has to tell.                              *)
Drives(s) == \/ s.state \in {"Active", "Closed"}
             \/ s.events # << >> /\ s.events[Len(s.events)].kind = "Released"

(* What waits was agreed to and what is about to be in the map has begun,  *)
(* each of them once, and on the connection it was sent on.                *)
Kept(c) ==
  /\ session[c].pending # << >> => session[c].state = "Active"
  /\ session[c].events # << >> => Drives(session[c])
  /\ Distinct(session[c].pending) /\ Distinct(session[c].events)
  /\ \A n \in DOMAIN session[c].pending :
       /\ SentBy(c, session[c].pending[n].instruction)
       /\ said[session[c].pending[n].instruction] = Agreed
  /\ \A n \in DOMAIN session[c].events :
       session[c].events[n].kind = "Instructed" =>
         /\ SentBy(c, session[c].events[n].instruction)
         /\ said[session[c].events[n].instruction] = Begun

(* What is in force was sent by somebody who drives. *)
InForce == held.request # NoRequest =>
             /\ held.request.instruction \in 1 .. Len(sent)
             /\ Drives(session[sent[held.request.instruction]])

(* What may still be aborted has begun, and does not begin again. *)
Abortable ==
  held.outstanding # NoRequest /\ ~held.outstanding.told =>
    /\ held.outstanding.id \in 1 .. Len(sent)
    /\ said[held.outstanding.id] = Begun
    /\ \A c \in Conns : \A n \in DOMAIN session[c].events :
         session[c].events[n].kind = "Instructed" =>
           session[c].events[n].instruction # held.outstanding.id

Tells == \A i \in Id : said[i] \in Tales /\ (i > Len(sent) => said[i] = << >>)

ManagerInv == TypeOK /\ (\A c \in Conns : Kept(c)) /\ InForce /\ Abortable /\ Tells

-----------------------------------------------------------------------------
(* Queues *)

LEMMA HasLeast ==
  ASSUME NEW S \in SUBSET Nat, S # {}
  PROVE  \E n \in S : \A k \in S : ~(k < n)
<1>1. \E n \in S : \A k \in S : ~(<<k, n>> \in OpToRel(<, Nat))
  BY WFMin, NatLessThanWellFounded
<1> QED BY <1>1 DEF OpToRel

LEMMA UntilIs ==
  ASSUME NEW q \in Seq(Scheduled), InTimeOrder(q), NEW at \in Int
  PROVE  /\ Until(q, at) \in 0 .. Len(q)
         /\ \A n \in DOMAIN q : q[n].at <= at <=> n <= Until(q, at)
<1> DEFINE L == {n \in 1 .. Len(q) : ~(q[n].at <= at)}
           Splits(k) == \A n \in DOMAIN q : q[n].at <= at <=> n <= k
<1>0. DOMAIN q = 1 .. Len(q) /\ Len(q) \in Nat /\ \A n \in 1 .. Len(q) : q[n].at \in Int
  <2>1. \A n \in 1 .. Len(q) : q[n] \in Scheduled
    OBVIOUS
  <2>2. \A p \in Scheduled : p.at \in Int
    BY DEF Scheduled, Times
  <2> QED BY <2>1, <2>2
<1>1. CASE L = {}
  <2>1. Splits(Len(q))
    BY <1>0, <1>1
  <2> QED BY <1>0, <2>1 DEF Until
<1>2. CASE L # {}
  <2>1. L \in SUBSET Nat
    BY <1>0
  <2>2. PICK n \in L : \A k \in L : ~(k < n)
    <3> HIDE DEF L
    <3> QED BY <1>2, <2>1, HasLeast
  <2>3. n - 1 \in 0 .. Len(q)
    BY <1>0
  <2>4. Splits(n - 1)
    <3>1. TAKE m \in DOMAIN q
    <3>2. CASE m <= n - 1
      <4>1. m \notin L
        BY <1>0, <2>2, <3>2
      <4> QED BY <1>0, <3>2, <4>1
    <3>3. CASE ~(m <= n - 1)
      <4>1. q[n].at <= q[m].at
        <5>1. CASE m = n
          BY <1>0, <5>1
        <5>2. CASE n < m
          BY <1>0, <5>2 DEF InTimeOrder
        <5> QED BY <1>0, <3>3, <5>1, <5>2
      <4> QED BY <1>0, <3>3, <4>1
    <3> QED BY <3>2, <3>3
  <2> QED BY <2>3, <2>4 DEF Until
<1> QED BY <1>1, <1>2

(* What becomes of a session's fields. *)
LEMMA ChangedTwice ==
  ASSUME NEW s \in Sessions, NEW q, NEW e
  PROVE  [s EXCEPT !.pending = q, !.events = e]
         = [state |-> s.state, pending |-> q, events |-> e]
<1>1. [s EXCEPT !.pending = q] = [state |-> s.state, pending |-> q, events |-> s.events]
  BY DEF Sessions
<1> DEFINE r == [state |-> s.state, pending |-> q, events |-> s.events]
<1>2. [r EXCEPT !.events = e] = [state |-> s.state, pending |-> q, events |-> e]
  OBVIOUS
<1> QED BY <1>1, <1>2

(* What is due is the head of the queue. *)
LEMMA DueIs ==
  ASSUME NEW s, Proper(s), now \in Times
  PROVE  /\ Due(s) \in Seq(Scheduled)
         /\ Len(Due(s)) <= Len(s.pending)
         /\ \A n \in 1 .. Len(Due(s)) : Due(s)[n] = s.pending[n]
<1>1. s.pending \in Seq(Scheduled) /\ InTimeOrder(s.pending) /\ now \in Int
  BY DEF Proper, Sessions, Times
<1>2. CASE s.state # "Active"
  BY <1>1, <1>2 DEF Due
<1>3. CASE s.state = "Active"
  <2>1. PICK k \in 0 .. Len(s.pending) : k = Until(s.pending, now)
    BY <1>1, UntilIs
  <2>2. Due(s) = SubSeq(s.pending, 1, k)
    BY <1>3, <2>1 DEF Due
  <2>3. \A n \in 1 .. k : s.pending[n] \in Scheduled
    BY <1>1, <2>1
  <2>4. /\ SubSeq(s.pending, 1, k) \in Seq(Scheduled)
        /\ Len(SubSeq(s.pending, 1, k)) = IF 1 <= k THEN k - 1 + 1 ELSE 0
        /\ \A n \in 1 .. k - 1 + 1 : SubSeq(s.pending, 1, k)[n] = s.pending[1 + n - 1]
    BY <2>3, SubSeqProperties
  <2>5. Len(Due(s)) = k
    BY <2>2, <2>4
  <2>6. \A n \in 1 .. k : Due(s)[n] = s.pending[n]
    BY <2>2, <2>4
  <2> QED BY <1>1, <2>2, <2>4, <2>5, <2>6
<1> QED BY <1>2, <1>3

(* The head of the queue begins, and the rest goes on waiting. *)
LEMMA StartedIs ==
  ASSUME NEW s, Proper(s), s.events = << >>, NEW due \in Seq(Scheduled),
         Len(due) <= Len(s.pending)
  PROVE  /\ Proper(Started(s, due))
         /\ Started(s, due).state = s.state
         /\ Len(Started(s, due).pending) = Len(s.pending) - Len(due)
         /\ \A n \in 1 .. Len(s.pending) - Len(due) :
              Started(s, due).pending[n] = s.pending[n + Len(due)]
         /\ Len(Started(s, due).events) = Len(due)
         /\ \A n \in 1 .. Len(due) :
              Started(s, due).events[n] = Emit(due[n].instruction, "Instructed")
<1> DEFINE k == Len(due)
           rest == SubSeq(s.pending, k + 1, Len(s.pending))
           t == Started(s, due)
<1>1. /\ s.pending \in Seq(Scheduled) /\ InTimeOrder(s.pending) /\ s.state \in State
      /\ s = [state |-> s.state, pending |-> s.pending, events |-> s.events]
      /\ Len(s.pending) \in Nat /\ k \in Nat /\ Len(s.pending) <= MaxPending
  BY DEF Proper, Sessions
<1>2. \A n \in k + 1 .. Len(s.pending) : s.pending[n] \in Scheduled
  BY <1>1
<1>3. /\ rest \in Seq(Scheduled)
      /\ Len(rest) = IF k + 1 <= Len(s.pending) THEN Len(s.pending) - (k + 1) + 1 ELSE 0
      /\ \A n \in 1 .. Len(s.pending) - (k + 1) + 1 : rest[n] = s.pending[(k + 1) + n - 1]
  BY <1>1, <1>2, SubSeqProperties
<1>4. Len(rest) = Len(s.pending) - k /\ \A n \in 1 .. Len(s.pending) - k : rest[n] = s.pending[n + k]
  BY <1>1, <1>3
<1>5. /\ StartEvents(due) \in Seq(Event) /\ Len(StartEvents(due)) = k
      /\ \A n \in 1 .. k : StartEvents(due)[n] = Emit(due[n].instruction, "Instructed")
  <2>1. \A n \in 1 .. k : Emit(due[n].instruction, "Instructed") \in Event
    <3>1. \A n \in 1 .. k : due[n] \in Scheduled
      OBVIOUS
    <3>2. \A p \in Scheduled : Emit(p.instruction, "Instructed") \in Event
      BY DEF Emit, Event, Scheduled
    <3> QED BY <3>1, <3>2
  <2>2. StartEvents(due) \in [1 .. k -> Event]
    BY <2>1 DEF StartEvents
  <2> QED BY <1>1, <2>2 DEF StartEvents
<1>6. s.events \o StartEvents(due) = StartEvents(due)
  BY <1>5, ConcatEmptySeq
<1>7. t = [state |-> s.state, pending |-> rest, events |-> StartEvents(due)]
  <2>1. \A q, e : [s EXCEPT !.pending = q, !.events = e]
                    = [state |-> s.state, pending |-> q, events |-> e]
    <3>1. s \in Sessions
      BY DEF Proper
    <3> QED BY <3>1, ChangedTwice
  <2>2. t = [state |-> s.state, pending |-> rest, events |-> s.events \o StartEvents(due)]
    BY <2>1 DEF Started
  <2> QED BY <1>6, <2>2
<1>8. InTimeOrder(rest)
  <2> HIDE DEF rest
  <2> SUFFICES ASSUME NEW m \in 1 .. Len(rest), NEW n \in 1 .. Len(rest), m < n
               PROVE  rest[m].at <= rest[n].at
    BY <1>3 DEF InTimeOrder
  <2>1. rest[m] = s.pending[m + k] /\ rest[n] = s.pending[n + k]
    BY <1>4
  <2>2. m + k \in 1 .. Len(s.pending) /\ n + k \in 1 .. Len(s.pending) /\ m + k < n + k
    BY <1>1, <1>4
  <2> QED BY <1>1, <2>1, <2>2 DEF InTimeOrder
<1>9. Proper(t)
  <2> HIDE DEF rest, t
  <2>1. t \in Sessions
    BY <1>1, <1>3, <1>5, <1>7 DEF Sessions
  <2>2. t.pending = rest /\ Len(rest) <= MaxPending
    BY <1>1, <1>4, <1>7, ManagerAssumption
  <2> QED BY <1>8, <2>1, <2>2 DEF Proper
<1> HIDE DEF rest, t
<1>10. t.state = s.state /\ t.pending = rest /\ t.events = StartEvents(due)
  BY <1>7
<1> QED BY <1>4, <1>5, <1>9, <1>10 DEF t

-----------------------------------------------------------------------------
(* What is said *)

LEMMA OneMoreWord ==
  ASSUME NEW x \in Seq(Says), NEW w \in Says
  PROVE  /\ x \o <<w>> \in Seq(Says) /\ Len(x \o <<w>>) = Len(x) + 1
         /\ \A n \in 1 .. Len(x) : (x \o <<w>>)[n] = x[n]
         /\ (x \o <<w>>)[Len(x) + 1] = w
BY AppendProperties, AppendIsConcat

LEMMA WordsAre ==
  /\ Agreed \in Seq(Says) /\ Begun \in Seq(Says)
  /\ Agreed \o <<"Started">> = Begun
  /\ Begun \o <<"Aborted">> \in Tales
  /\ Agreed \o <<"Revoked">> \in Tales
  /\ Agreed # Begun
<1>1. Agreed \in Seq(Says)
  BY DEF Agreed, Says
<1>2. Begun \in Seq(Says)
  BY DEF Begun, Says
<1>3. "Started" \in Says /\ "Aborted" \in Says /\ "Revoked" \in Says
  BY DEF Says
<1>4. /\ Len(Agreed) = 2 /\ Agreed[1] = "OK" /\ Agreed[2] = "Accepted"
      /\ Len(Begun) = 3 /\ Begun[1] = "OK" /\ Begun[2] = "Accepted" /\ Begun[3] = "Started"
  BY DEF Agreed, Begun
<1>5. Agreed \o <<"Started">> = Begun
  <2> DEFINE w == Begun
             x == Agreed \o <<"Started">>
  <2>1. w \in Seq(Says) /\ Len(w) = 3 /\ w[1] = "OK" /\ w[2] = "Accepted" /\ w[3] = "Started"
    BY <1>2, <1>4
  <2>2. x \in Seq(Says) /\ Len(x) = Len(Agreed) + 1
    BY <1>1, <1>3, OneMoreWord
  <2>3. \A n \in 1 .. Len(Agreed) : x[n] = Agreed[n]
    BY <1>1, <1>3, OneMoreWord
  <2>4. x[Len(Agreed) + 1] = "Started"
    BY <1>1, <1>3, OneMoreWord
  <2> HIDE DEF w, x
  <2>5. \A n \in 1 .. 3 : x[n] = w[n]
    <3>1. \A n \in 1 .. 3 : n = 1 \/ n = 2 \/ n = 3
      OBVIOUS
    <3>2. x[1] = Agreed[1] /\ x[2] = Agreed[2] /\ x[3] = "Started"
      BY <1>4, <2>3, <2>4
    <3> QED BY <1>4, <2>1, <3>1, <3>2
  <2>6. Len(x) = 3
    BY <1>4, <2>2
  <2>7. x = w
    BY <2>1, <2>2, <2>5, <2>6, SeqEqual
  <2> QED BY <2>7 DEF w, x
<1>6. Begun \o <<"Aborted">> = <<"OK", "Accepted", "Started", "Aborted">>
  <2> DEFINE w == <<"OK", "Accepted", "Started", "Aborted">>
             x == Begun \o <<"Aborted">>
  <2>1. /\ w \in Seq(Says) /\ Len(w) = 4
        /\ w[1] = "OK" /\ w[2] = "Accepted" /\ w[3] = "Started" /\ w[4] = "Aborted"
    BY DEF Says
  <2>2. x \in Seq(Says) /\ Len(x) = Len(Begun) + 1
    BY <1>2, <1>3, OneMoreWord
  <2>3. \A n \in 1 .. Len(Begun) : x[n] = Begun[n]
    BY <1>2, <1>3, OneMoreWord
  <2>4. x[Len(Begun) + 1] = "Aborted"
    BY <1>2, <1>3, OneMoreWord
  <2> HIDE DEF w, x
  <2>5. \A n \in 1 .. 4 : x[n] = w[n]
    <3>1. \A n \in 1 .. 4 : n = 1 \/ n = 2 \/ n = 3 \/ n = 4
      OBVIOUS
    <3>2. x[1] = Begun[1] /\ x[2] = Begun[2] /\ x[3] = Begun[3] /\ x[4] = "Aborted"
      BY <1>4, <2>3, <2>4
    <3> QED BY <1>4, <2>1, <3>1, <3>2
  <2>6. Len(x) = 4
    BY <1>4, <2>2
  <2>7. x = w
    BY <2>1, <2>2, <2>5, <2>6, SeqEqual
  <2> QED BY <2>7 DEF w, x
<1>7. Agreed \o <<"Revoked">> = <<"OK", "Accepted", "Revoked">>
  <2> DEFINE w == <<"OK", "Accepted", "Revoked">>
             x == Agreed \o <<"Revoked">>
  <2>1. w \in Seq(Says) /\ Len(w) = 3 /\ w[1] = "OK" /\ w[2] = "Accepted" /\ w[3] = "Revoked"
    BY DEF Says
  <2>2. x \in Seq(Says) /\ Len(x) = Len(Agreed) + 1
    BY <1>1, <1>3, OneMoreWord
  <2>3. \A n \in 1 .. Len(Agreed) : x[n] = Agreed[n]
    BY <1>1, <1>3, OneMoreWord
  <2>4. x[Len(Agreed) + 1] = "Revoked"
    BY <1>1, <1>3, OneMoreWord
  <2> HIDE DEF w, x
  <2>5. \A n \in 1 .. 3 : x[n] = w[n]
    <3>1. \A n \in 1 .. 3 : n = 1 \/ n = 2 \/ n = 3
      OBVIOUS
    <3>2. x[1] = Agreed[1] /\ x[2] = Agreed[2] /\ x[3] = "Revoked"
      BY <1>4, <2>3, <2>4
    <3> QED BY <1>4, <2>1, <3>1, <3>2
  <2>6. Len(x) = 3
    BY <1>4, <2>2
  <2>7. x = w
    BY <2>1, <2>2, <2>5, <2>6, SeqEqual
  <2> QED BY <2>7 DEF w, x
<1> QED BY <1>1, <1>2, <1>4, <1>5, <1>6, <1>7 DEF Tales

(* What waited and is due has begun; of another nothing is said but of the  *)
(* one the message is about.                                               *)
LEMMA SpokenIs ==
  ASSUME NEW due, NEW i, NEW words,
         said \in [Id -> Seq(Says)] /\ due \in Seq(Scheduled) /\ words \in Seq(Says)
         /\ Speak(due, i, words)
  PROVE  /\ said' \in [Id -> Seq(Says)]
         /\ \A j \in Id :
              IF \E n \in 1 .. Len(due) : due[n].instruction = j
              THEN j # i => said'[j] = said[j] \o <<"Started">>
              ELSE said'[j] = IF j = i THEN said[j] \o words ELSE said[j]
<1> DEFINE started(j) == IF \E n \in DOMAIN due : due[n].instruction = j
                         THEN <<"Started">> ELSE << >>
           rest(j) == IF j = i THEN words ELSE << >>
<1>1. DOMAIN due = 1 .. Len(due)
  OBVIOUS
<1>2. \A j : started(j) \in Seq(Says) /\ rest(j) \in Seq(Says)
  <2>1. <<"Started">> \in Seq(Says) /\ << >> \in Seq(Says)
    BY DEF Says
  <2> QED BY <2>1
<1>3. said' = [j \in Id |-> said[j] \o started(j) \o rest(j)]
  BY DEF Speak
<1>4. \A j \in Id : said[j] \o started(j) \in Seq(Says)
  BY <1>2, ConcatProperties
<1>5. \A j \in Id : said[j] \o started(j) \o rest(j) \in Seq(Says)
  <2> HIDE DEF started, rest
  <2> QED BY <1>2, <1>4, ConcatProperties
<1>6. \A x \in Seq(Says) : x \o << >> = x
  BY ConcatEmptySeq
<1>7. ASSUME NEW j \in Id
      PROVE  IF \E n \in 1 .. Len(due) : due[n].instruction = j
             THEN j # i => said'[j] = said[j] \o <<"Started">>
             ELSE said'[j] = IF j = i THEN said[j] \o words ELSE said[j]
  <2>1. said'[j] = said[j] \o started(j) \o rest(j)
    BY <1>3
  <2>2. CASE started(j) = << >>
    BY <1>1, <1>6, <2>1, <2>2
  <2>3. CASE started(j) = <<"Started">>
    <3>1. said[j] \o <<"Started">> \in Seq(Says)
      BY <1>4, <2>3
    <3>2. \E n \in 1 .. Len(due) : due[n].instruction = j
      BY <1>1, <2>3
    <3>3. j # i => rest(j) = << >>
      OBVIOUS
    <3> HIDE DEF started, rest
    <3>4. j # i => said'[j] = said[j] \o <<"Started">>
      BY <1>6, <2>1, <2>3, <3>1, <3>3
    <3> QED BY <3>2, <3>4
  <2> QED BY <2>2, <2>3
<1>8. said' \in [Id -> Seq(Says)]
  <2> HIDE DEF started, rest
  <2> QED BY <1>3, <1>5
<1> QED BY <1>7, <1>8

-----------------------------------------------------------------------------
(* A session takes a message or reports *)

(* What a queue began, and what goes on waiting in it. *)
Begins(due, j) == \E n \in 1 .. Len(due) : due[n].instruction = j
GoesOn(c, due, j) ==
  \E n \in Len(due) + 1 .. Len(session[c].pending) : session[c].pending[n].instruction = j

(* What a session may be once the due has begun and words were said of i. *)
Follows(c, s, due, i, words) ==
  /\ Proper(s)
  /\ s.pending # << >> => s.state = "Active"
  /\ s.events # << >> => Drives(s)
  /\ session[c].state = "Active" => Drives(s)
  /\ Distinct(s.pending) /\ Distinct(s.events)
  /\ \A n \in DOMAIN s.pending :
       \/ /\ GoesOn(c, due, s.pending[n].instruction)
          /\ words = <<"Revoked">> => s.pending[n].instruction # i
       \/ s.pending[n].instruction = i /\ i = NewId /\ words = Agreed
  /\ \A n \in DOMAIN s.events :
       IF s.events[n].kind = "Instructed"
       THEN \/ Begins(due, s.events[n].instruction)
            \/ s.events[n].instruction = i /\ i = NewId /\ words = Begun
       ELSE s.events[n].instruction = NoInstruction

(* What a message, or the reports' interval, says of an instruction. *)
SaysNothing(words) == words = << >> /\ UNCHANGED sent
SaysOfANewOne(c, i, words) ==
  i = NewId /\ i \in Id /\ words \in Tales /\ words # << >> /\ sent' = Append(sent, c) /\ held' = held
SaysItIsRevoked(c, due, i, words) ==
  GoesOn(c, due, i) /\ words = <<"Revoked">> /\ UNCHANGED <<sent, held>>
SaysItIsAborted(i, words) ==
  /\ held.outstanding # NoRequest /\ ~held.outstanding.told /\ held'.outstanding.told
  /\ i = held.outstanding.id /\ words = <<"Aborted">> /\ UNCHANGED sent

MapIsTold ==
  \/ held' = held
  \/ held.outstanding # NoRequest /\ held' = [held EXCEPT !.outstanding.told = TRUE]

Answers(c, s, due, i, words) ==
  /\ due \in Seq(Scheduled) /\ Len(due) <= Len(session[c].pending)
  /\ \A n \in 1 .. Len(due) : due[n] = session[c].pending[n]
  /\ Listening(c)
  /\ words \in Seq(Says)
  /\ Follows(c, s, due, i, words)
  /\ session' = [session EXCEPT ![c] = s]
  /\ Speak(due, i, words)
  /\ MapIsTold
  /\ \/ SaysNothing(words)
     \/ SaysOfANewOne(c, i, words)
     \/ SaysItIsRevoked(c, due, i, words)
     \/ SaysItIsAborted(i, words)
  /\ UNCHANGED <<now, loop>>

(* The instructions of a queue are known, agreed to and each of them once. *)
LEMMA QueueIs ==
  ASSUME ManagerInv, NEW c \in Conns, NEW n \in 1 .. Len(session[c].pending)
  PROVE  /\ session[c].pending[n].instruction \in Id
         /\ SentBy(c, session[c].pending[n].instruction)
         /\ said[session[c].pending[n].instruction] = Agreed
<1>1. session[c].pending \in Seq(Scheduled)
  BY DEF ManagerInv, TypeOK
<1>2. session[c].pending[n] \in Scheduled
  BY <1>1
<1>3. n \in DOMAIN session[c].pending
  BY <1>1
<1> QED BY <1>2, <1>3 DEF ManagerInv, Kept, Scheduled

(* What is said then: what has begun, what is said of i, and nothing else. *)
LEMMA SaidIs ==
  ASSUME ManagerInv, NEW c \in Conns, NEW s, NEW due, NEW i, NEW words,
         Answers(c, s, due, i, words)
  PROVE  /\ said' \in [Id -> Seq(Says)]
         /\ \A j \in Id : Begins(due, j) => said[j] = Agreed /\ SentBy(c, j) /\ said'[j] = Begun
         /\ \A j \in Id : ~Begins(due, j) =>
              said'[j] = IF j = i THEN said[j] \o words ELSE said[j]
         /\ \A j : GoesOn(c, due, j) =>
              j \in Id /\ ~Begins(due, j) /\ said[j] = Agreed /\ SentBy(c, j)
<1>1. said \in [Id -> Seq(Says)] /\ session[c].pending \in Seq(Scheduled)
      /\ sent \in Seq(Conns) /\ Len(sent) \in Nat
  BY DEF ManagerInv, TypeOK
<1>2. /\ due \in Seq(Scheduled) /\ Len(due) <= Len(session[c].pending)
      /\ Len(due) \in Nat /\ Len(session[c].pending) \in Nat
      /\ \A n \in 1 .. Len(due) : due[n] = session[c].pending[n]
      /\ words \in Seq(Says) /\ Speak(due, i, words)
  BY <1>1 DEF Answers
<1>3. /\ said' \in [Id -> Seq(Says)]
      /\ \A j \in Id :
           IF \E n \in 1 .. Len(due) : due[n].instruction = j
           THEN j # i => said'[j] = said[j] \o <<"Started">>
           ELSE said'[j] = IF j = i THEN said[j] \o words ELSE said[j]
  <2>1. said \in [Id -> Seq(Says)] /\ due \in Seq(Scheduled) /\ words \in Seq(Says)
        /\ Speak(due, i, words)
    BY <1>1, <1>2
  <2> QED BY <2>1, SpokenIs
<1>4. ASSUME NEW j \in Id, Begins(due, j)
      PROVE  said[j] = Agreed /\ SentBy(c, j)
  <2>1. PICK n \in 1 .. Len(due) : due[n].instruction = j
    BY <1>4 DEF Begins
  <2>2. n \in 1 .. Len(session[c].pending) /\ session[c].pending[n].instruction = j
    BY <1>2, <2>1
  <2> QED BY <2>2, QueueIs
<1>5. ASSUME NEW j, GoesOn(c, due, j)
      PROVE  j \in Id /\ ~Begins(due, j) /\ said[j] = Agreed /\ SentBy(c, j)
  <2>1. PICK n \in Len(due) + 1 .. Len(session[c].pending) : session[c].pending[n].instruction = j
    BY <1>5 DEF GoesOn
  <2>2. n \in 1 .. Len(session[c].pending)
    BY <1>2
  <2>3. ASSUME Begins(due, j) PROVE FALSE
    <3>1. PICK m \in 1 .. Len(due) : due[m].instruction = j
      BY <2>3 DEF Begins
    <3>2. m \in 1 .. Len(session[c].pending) /\ session[c].pending[m].instruction = j /\ m # n
      BY <1>2, <3>1
    <3>3. DOMAIN session[c].pending = 1 .. Len(session[c].pending)
      BY <1>1
    <3> QED BY <2>1, <2>2, <3>2, <3>3 DEF ManagerInv, Kept, Distinct
  <2> QED BY <2>1, <2>2, <2>3, QueueIs
<1>6. ASSUME NEW j \in Id, Begins(due, j)
      PROVE  said'[j] = Begun
  <2>1. said[j] = Agreed /\ SentBy(c, j)
    BY <1>4, <1>6
  <2>2. CASE j # i
    BY <1>3, <1>6, <2>1, <2>2, WordsAre DEF Begins
  <2>3. CASE j = i
    <3>1. CASE SaysNothing(words)
      <4>1. \A k \in Id : k = i => said'[k] = said[k] \o <<"Started">>
        <5>1. said'[j] = said[j] \o <<"Started">> \o << >>
          <6>1. \E n \in DOMAIN due : due[n].instruction = j
            BY <1>2, <1>6 DEF Begins
          <6> QED BY <1>2, <2>3, <3>1, <6>1 DEF Speak, SaysNothing
        <5>2. said[j] \o <<"Started">> \in Seq(Says)
          BY <2>1, WordsAre
        <5>3. said'[j] = said[j] \o <<"Started">>
          BY <5>1, <5>2, ConcatEmptySeq
        <5> QED BY <2>3, <5>3
      <4> QED BY <2>1, <2>3, <4>1, WordsAre
    <3>2. CASE SaysOfANewOne(c, i, words)
      BY <1>1, <2>1, <2>3, <3>2 DEF SaysOfANewOne, SentBy, NewId
    <3>3. CASE SaysItIsRevoked(c, due, i, words)
      BY <1>5, <1>6, <2>3, <3>3 DEF SaysItIsRevoked
    <3>4. CASE SaysItIsAborted(i, words)
      BY <2>1, <2>3, <3>4, WordsAre DEF SaysItIsAborted, ManagerInv, Abortable
    <3> QED BY <3>1, <3>2, <3>3, <3>4 DEF Answers
  <2> QED BY <2>2, <2>3
<1> QED BY <1>3, <1>4, <1>5, <1>6 DEF Begins

LEMMA AnswersType ==
  ASSUME ManagerInv, NEW c \in Conns, NEW s, NEW due, NEW i, NEW words,
         Answers(c, s, due, i, words)
  PROVE  TypeOK'
<1>1. /\ session' = [session EXCEPT ![c] = s] /\ Proper(s) /\ UNCHANGED <<now, loop>>
      /\ MapIsTold /\ (sent' = sent \/ (sent' = Append(sent, c) /\ NewId \in Id))
  BY DEF Answers, Follows, SaysNothing, SaysOfANewOne, SaysItIsRevoked, SaysItIsAborted
<1>2. TypeOK
  BY DEF ManagerInv
<1>3. /\ session' \in [Conns -> Sessions]
      /\ \A d \in Conns : Len(session'[d].pending) <= MaxPending /\ InTimeOrder(session'[d].pending)
  BY <1>1, <1>2 DEF TypeOK, Proper, Sessions
<1>4. sent' \in Seq(Conns) /\ Len(sent') <= MaxId
  <2>1. sent \in Seq(Conns) /\ Len(sent) <= MaxId /\ MaxId \in Nat
    BY <1>2, ManagerAssumption DEF TypeOK
  <2>2. /\ Append(sent, c) \in Seq(Conns) /\ Len(Append(sent, c)) = Len(sent) + 1
    BY <2>1, AppendProperties
  <2> QED BY <1>1, <2>1, <2>2 DEF NewId, Id
<1>5. held' \in [request : CemRequest \cup {NoRequest}, outstanding : Outstanding \cup {NoRequest},
                 overridden : BOOLEAN]
  <2>1. held \in [request : CemRequest \cup {NoRequest}, outstanding : Outstanding \cup {NoRequest},
                  overridden : BOOLEAN]
    BY <1>2 DEF TypeOK
  <2>2. CASE held' = held
    BY <2>1, <2>2
  <2>3. CASE held.outstanding # NoRequest /\ held' = [held EXCEPT !.outstanding.told = TRUE]
    <3>1. held.outstanding \in Outstanding
      BY <2>1, <2>3
    <3>2. [held.outstanding EXCEPT !.told = TRUE] \in Outstanding
      BY <3>1 DEF Outstanding
    <3>3. held' = [held EXCEPT !.outstanding = [held.outstanding EXCEPT !.told = TRUE]]
      BY <2>3
    <3> QED BY <2>1, <3>2, <3>3
  <2> QED BY <1>1, <2>2, <2>3 DEF MapIsTold
<1>6. said' \in [Id -> Seq(Says)]
  BY SaidIs
<1> QED BY <1>1, <1>2, <1>3, <1>4, <1>5, <1>6 DEF TypeOK, Sessions

(* What is said of the instructions that nothing happened to. *)
LEMMA OthersAre ==
  ASSUME ManagerInv, NEW c \in Conns, NEW s, NEW due, NEW i, NEW words,
         Answers(c, s, due, i, words)
  PROVE  /\ \A d \in Conns : \A j : SentBy(d, j) => SentBy(d, j)' /\ j \in Id /\ j # NewId
         /\ SaysOfANewOne(c, i, words) => SentBy(c, i)' /\ Len(sent') = i
         /\ \A j \in Id : j # i /\ ~Begins(due, j) => said'[j] = said[j]
         /\ \A j \in Id : ~Begins(due, j) /\ SaysNothing(words) => said'[j] = said[j]
         /\ Len(sent) \in Nat /\ Len(sent') \in Nat /\ Len(sent) <= Len(sent')
<1>1. said \in [Id -> Seq(Says)] /\ sent \in Seq(Conns) /\ Len(sent) \in Nat /\ Len(sent) <= MaxId
      /\ MaxId \in Nat
  BY ManagerAssumption DEF ManagerInv, TypeOK
<1>2. /\ Len(Append(sent, c)) = Len(sent) + 1
      /\ \A j \in 1 .. Len(sent) : Append(sent, c)[j] = sent[j]
      /\ Append(sent, c)[Len(sent) + 1] = c
  BY <1>1, AppendProperties
<1>3. sent' = sent \/ sent' = Append(sent, c)
  BY DEF Answers, SaysNothing, SaysOfANewOne, SaysItIsRevoked, SaysItIsAborted
<1>4. \A d \in Conns : \A j : SentBy(d, j) => SentBy(d, j)' /\ j \in Id /\ j # NewId
  BY <1>1, <1>2, <1>3 DEF SentBy, Id, NewId
<1>5. SaysOfANewOne(c, i, words) => SentBy(c, i)' /\ Len(sent') = i
  BY <1>1, <1>2 DEF SentBy, NewId, SaysOfANewOne
<1>6. \A j \in Id : j # i /\ ~Begins(due, j) => said'[j] = said[j]
  BY SaidIs
<1>7. \A j \in Id : ~Begins(due, j) /\ SaysNothing(words) => said'[j] = said[j]
  <2>1. \A j \in Id : said[j] \o << >> = said[j]
    BY <1>1, ConcatEmptySeq
  <2>2. \A j \in Id : ~Begins(due, j) => said'[j] = IF j = i THEN said[j] \o words ELSE said[j]
    BY SaidIs
  <2> QED BY <2>1, <2>2 DEF SaysNothing
<1> QED BY <1>1, <1>2, <1>3, <1>4, <1>5, <1>6, <1>7

LEMMA AnswersKeep ==
  ASSUME ManagerInv, NEW c \in Conns, NEW s, NEW due, NEW i, NEW words,
         Answers(c, s, due, i, words), NEW d \in Conns
  PROVE  Kept(d)'
<1>1. /\ session' = [session EXCEPT ![c] = s] /\ Follows(c, s, due, i, words)
      /\ session \in [Conns -> Sessions]
      /\ SaysNothing(words) \/ SaysOfANewOne(c, i, words)
         \/ SaysItIsRevoked(c, due, i, words) \/ SaysItIsAborted(i, words)
  BY DEF Answers, ManagerInv, TypeOK, Sessions
<1>2. Kept(d)
  BY DEF ManagerInv
<1>3. CASE d # c
  <2>1. session'[d] = session[d]
    BY <1>1, <1>3
  <2>2. ASSUME NEW j, SentBy(d, j), said[j] \in {Agreed, Begun},
               said[j] = Begun => ~SaysItIsAborted(i, words) \/ j # i
        PROVE  SentBy(d, j)' /\ said'[j] = said[j]
    <3>1. j \in Id /\ SentBy(d, j)' /\ j # NewId
      BY <2>2, OthersAre
    <3>2. ~SentBy(c, j)
      BY <1>3, <2>2 DEF SentBy
    <3>3. ~Begins(due, j) /\ ~GoesOn(c, due, j)
      BY <3>1, <3>2, SaidIs
    <3>4. CASE SaysNothing(words)
      BY <3>1, <3>3, <3>4, OthersAre
    <3>5. CASE SaysOfANewOne(c, i, words)
      BY <3>1, <3>3, <3>5, OthersAre DEF SaysOfANewOne
    <3>6. CASE SaysItIsRevoked(c, due, i, words)
      BY <3>1, <3>3, <3>6, OthersAre DEF SaysItIsRevoked
    <3>7. CASE SaysItIsAborted(i, words)
      <4>1. said[i] = Begun
        BY <3>7 DEF SaysItIsAborted, ManagerInv, Abortable
      <4> QED BY <2>2, <3>1, <3>3, <3>7, <4>1, OthersAre
    <3> QED BY <1>1, <3>1, <3>4, <3>5, <3>6, <3>7
  <2>3. ASSUME NEW n \in DOMAIN session[d].pending,
               NEW j, j = session[d].pending[n].instruction
        PROVE  SentBy(d, j)' /\ said'[j] = Agreed
    <3>1. SentBy(d, j) /\ said[j] = Agreed
      BY <1>2, <2>3 DEF Kept
    <3> QED BY <2>2, <3>1, WordsAre
  <2>4. ASSUME NEW n \in DOMAIN session[d].events, session[d].events[n].kind = "Instructed",
               NEW j, j = session[d].events[n].instruction
        PROVE  SentBy(d, j)' /\ said'[j] = Begun
    <3>1. SaysItIsAborted(i, words) => j # i
      BY <2>4 DEF SaysItIsAborted, ManagerInv, Abortable
    <3>2. SentBy(d, j) /\ said[j] = Begun
      BY <1>2, <2>4 DEF Kept
    <3> QED BY <2>2, <3>1, <3>2
  <2> QED BY <1>2, <2>1, <2>3, <2>4 DEF Kept, Drives
<1>4. CASE d = c
  <2>1. session'[d] = s
    BY <1>1, <1>4
  <2>2. ASSUME NEW n \in DOMAIN s.pending
        PROVE  SentBy(c, s.pending[n].instruction)' /\ said'[s.pending[n].instruction] = Agreed
    <3> DEFINE j == s.pending[n].instruction
    <3>1. CASE GoesOn(c, due, j) /\ (words = <<"Revoked">> => j # i)
      <4>1. j \in Id /\ ~Begins(due, j) /\ said[j] = Agreed /\ SentBy(c, j)
        BY <3>1, SaidIs
      <4>2. SentBy(c, j)' /\ j # NewId
        BY <4>1, OthersAre
      <4>3. SaysNothing(words) \/ j # i
        BY <1>1, <3>1, <4>1, <4>2, WordsAre
           DEF SaysOfANewOne, SaysItIsRevoked, SaysItIsAborted, ManagerInv, Abortable
      <4> QED BY <4>1, <4>2, <4>3, OthersAre
    <3>2. CASE j = i /\ i = NewId /\ words = Agreed
      <4>1. SaysOfANewOne(c, i, words)
        BY <1>1, <3>2, SaidIs
           DEF SaysNothing, SaysItIsRevoked, SaysItIsAborted, Agreed
      <4>2. SentBy(c, j)' /\ j \in Id
        BY <3>2, <4>1, OthersAre DEF SaysOfANewOne
      <4>3. said[j] = << >> /\ ~Begins(due, j)
        <5>1. Len(sent) \in Nat
          BY OthersAre
        <5>2. ~SentBy(c, j) /\ j > Len(sent)
          BY <3>2, <5>1 DEF SentBy, NewId
        <5> QED BY <4>2, <5>2, SaidIs DEF ManagerInv, Tells
      <4>4. << >> \o Agreed = Agreed
        BY WordsAre, ConcatEmptySeq
      <4>5. \A k \in Id : ~Begins(due, k) =>
              said'[k] = IF k = i THEN said[k] \o words ELSE said[k]
        BY SaidIs
      <4> QED BY <3>2, <4>2, <4>3, <4>4, <4>5
    <3> QED BY <1>1, <3>1, <3>2 DEF Follows
  <2>3. ASSUME NEW n \in DOMAIN s.events, s.events[n].kind = "Instructed"
        PROVE  SentBy(c, s.events[n].instruction)' /\ said'[s.events[n].instruction] = Begun
    <3> DEFINE j == s.events[n].instruction
    <3>1. CASE Begins(due, j)
      <4>1. j \in Id
        <5>1. PICK m \in 1 .. Len(due) : due[m].instruction = j
          BY <3>1 DEF Begins
        <5>2. m \in 1 .. Len(session[c].pending) /\ due[m] = session[c].pending[m]
          <6>1. Len(due) \in Nat /\ Len(session[c].pending) \in Nat /\ Len(due) <= Len(session[c].pending)
            BY DEF Answers, ManagerInv, TypeOK
          <6> QED BY <6>1 DEF Answers
        <5> QED BY <5>1, <5>2, QueueIs
      <4> QED BY <3>1, <4>1, SaidIs, OthersAre
    <3>2. CASE j = i /\ i = NewId /\ words = Begun
      <4>1. SaysOfANewOne(c, i, words)
        BY <1>1, <3>2, SaidIs
           DEF SaysNothing, SaysItIsRevoked, SaysItIsAborted, Begun
      <4>2. SentBy(c, j)' /\ j \in Id
        BY <3>2, <4>1, OthersAre DEF SaysOfANewOne
      <4>3. said[j] = << >> /\ ~Begins(due, j)
        <5>1. Len(sent) \in Nat
          BY OthersAre
        <5>2. ~SentBy(c, j) /\ j > Len(sent)
          BY <3>2, <5>1 DEF SentBy, NewId
        <5> QED BY <4>2, <5>2, SaidIs DEF ManagerInv, Tells
      <4>4. << >> \o Begun = Begun
        BY WordsAre, ConcatEmptySeq
      <4>5. \A k \in Id : ~Begins(due, k) =>
              said'[k] = IF k = i THEN said[k] \o words ELSE said[k]
        BY SaidIs
      <4> QED BY <3>2, <4>2, <4>3, <4>4, <4>5
    <3> QED BY <1>1, <2>3, <3>1, <3>2 DEF Follows
  <2> QED BY <1>1, <1>4, <2>1, <2>2, <2>3 DEF Kept, Follows, Drives
<1> QED BY <1>3, <1>4

LEMMA AnswersKeepTheMap ==
  ASSUME ManagerInv, NEW c \in Conns, NEW s, NEW due, NEW i, NEW words,
         Answers(c, s, due, i, words)
  PROVE  InForce' /\ Abortable' /\ Tells'
<1>1. /\ session' = [session EXCEPT ![c] = s] /\ Follows(c, s, due, i, words)
      /\ session \in [Conns -> Sessions] /\ Listening(c)
      /\ SaysNothing(words) \/ SaysOfANewOne(c, i, words)
         \/ SaysItIsRevoked(c, due, i, words) \/ SaysItIsAborted(i, words)
      /\ sent \in Seq(Conns) /\ said \in [Id -> Seq(Says)]
      /\ held \in [request : CemRequest \cup {NoRequest}, outstanding : Outstanding \cup {NoRequest},
                   overridden : BOOLEAN]
  BY DEF Answers, ManagerInv, TypeOK, Sessions
<1>2. /\ held'.request = held.request
      /\ held'.outstanding # NoRequest /\ ~held'.outstanding.told =>
           held'.outstanding = held.outstanding
      /\ SaysItIsAborted(i, words) => held'.outstanding.told
  <2>1. CASE held' = held
    BY <2>1 DEF SaysItIsAborted
  <2>2. CASE held.outstanding # NoRequest /\ held' = [held EXCEPT !.outstanding.told = TRUE]
    <3>1. held.outstanding \in Outstanding
      BY <1>1, <2>2
    <3>2. [held.outstanding EXCEPT !.told = TRUE].told = TRUE
      BY <3>1 DEF Outstanding
    <3>3. held' = [held EXCEPT !.outstanding = [held.outstanding EXCEPT !.told = TRUE]]
      BY <2>2
    <3>4. held'.outstanding.told /\ held'.request = held.request
      BY <1>1, <3>2, <3>3
    <3> QED BY <3>4
  <2> QED BY <2>1, <2>2 DEF Answers, MapIsTold
<1>3. \A j \in 1 .. Len(sent) : j \in 1 .. Len(sent') /\ sent'[j] = sent[j] /\ sent[j] \in Conns
  <2>1. ASSUME NEW j \in 1 .. Len(sent)
        PROVE  j \in 1 .. Len(sent') /\ sent'[j] = sent[j] /\ sent[j] \in Conns
    <3>1. sent[j] \in Conns
      BY <1>1
    <3>2. SentBy(sent[j], j)
      BY <2>1 DEF SentBy
    <3>3. \A d \in Conns : SentBy(d, j) => SentBy(d, j)'
      BY OthersAre
    <3>4. \A d : SentBy(d, j)' => j \in 1 .. Len(sent') /\ sent'[j] = d
      BY DEF SentBy
    <3> QED BY <3>1, <3>2, <3>3, <3>4
  <2> QED BY <2>1
<1>4. InForce'
  <2> SUFFICES ASSUME held.request # NoRequest
               PROVE  /\ held.request.instruction \in 1 .. Len(sent')
                      /\ Drives(session'[sent'[held.request.instruction]])
    BY <1>2 DEF InForce, Drives
  <2> DEFINE d == sent[held.request.instruction]
  <2>1. held.request.instruction \in 1 .. Len(sent) /\ Drives(session[d])
    BY DEF ManagerInv, InForce
  <2>2. d \in Conns /\ sent'[held.request.instruction] = d /\ held.request.instruction \in 1 .. Len(sent')
    BY <1>3, <2>1
  <2>3. CASE d # c
    BY <1>1, <2>1, <2>2, <2>3
  <2>4. CASE d = c
    <3>1. session[c].state = "Active"
      BY <1>1, <2>1, <2>4 DEF Listening, Drives
    <3>2. session'[c] = s
      BY <1>1
    <3> QED BY <1>1, <2>2, <2>4, <3>1, <3>2 DEF Follows
  <2> QED BY <2>3, <2>4
<1>5. Abortable'
  <2> SUFFICES ASSUME held'.outstanding # NoRequest, ~held'.outstanding.told
               PROVE  /\ held'.outstanding.id \in 1 .. Len(sent')
                      /\ said'[held'.outstanding.id] = Begun
                      /\ \A d \in Conns : \A n \in DOMAIN session'[d].events :
                           session'[d].events[n].kind = "Instructed" =>
                             session'[d].events[n].instruction # held'.outstanding.id
    BY DEF Abortable
  <2>1. held'.outstanding = held.outstanding /\ ~SaysItIsAborted(i, words)
    BY <1>2
  <2> DEFINE j == held.outstanding.id
  <2>2. /\ j \in 1 .. Len(sent) /\ said[j] = Begun
        /\ \A d \in Conns : \A n \in DOMAIN session[d].events :
             session[d].events[n].kind = "Instructed" => session[d].events[n].instruction # j
    BY <2>1 DEF ManagerInv, Abortable
  <2>3. j \in Id /\ j # NewId
    <3>1. SentBy(sent[j], j) /\ sent[j] \in Conns
      BY <1>1, <2>2 DEF SentBy
    <3> QED BY <3>1, OthersAre
  <2>4. ~Begins(due, j) /\ ~GoesOn(c, due, j)
    <3>1. said[j] # Agreed
      BY <2>2, WordsAre
    <3> QED BY <2>3, <3>1, SaidIs
  <2>5. said'[j] = Begun
    <3>1. SaysNothing(words) \/ j # i
      BY <1>1, <2>1, <2>3, <2>4 DEF SaysOfANewOne, SaysItIsRevoked
    <3> QED BY <2>2, <2>3, <2>4, <3>1, OthersAre
  <2>6. ASSUME NEW d \in Conns, NEW n \in DOMAIN session'[d].events,
               session'[d].events[n].kind = "Instructed"
        PROVE  session'[d].events[n].instruction # j
    <3>1. CASE d # c
      BY <1>1, <2>2, <2>6, <3>1
    <3>2. CASE d = c
      <4>1. session'[d] = s /\ n \in DOMAIN s.events
        BY <1>1, <2>6, <3>2
      <4> QED BY <1>1, <2>3, <2>4, <2>6, <4>1 DEF Follows
    <3> QED BY <3>1, <3>2
  <2> QED BY <1>3, <2>1, <2>2, <2>5, <2>6
<1>6. Tells'
  <2> SUFFICES ASSUME NEW j \in Id
               PROVE  said'[j] \in Tales /\ (j > Len(sent') => said'[j] = << >>)
    BY DEF Tells
  <2>1. said[j] \in Tales /\ (j > Len(sent) => said[j] = << >>)
    BY DEF ManagerInv, Tells
  <2>2. Len(sent) \in Nat /\ Len(sent') \in Nat /\ Len(sent) <= Len(sent') /\ j \in Nat
    BY OthersAre DEF Id
  <2>3. j > Len(sent') => j > Len(sent)
    BY <2>2
  <2>4. CASE Begins(due, j)
    <3>1. SentBy(c, j) /\ said'[j] = Begun
      BY <2>4, SaidIs
    <3>2. ~(j > Len(sent))
      BY <2>2, <3>1 DEF SentBy
    <3> QED BY <2>3, <3>1, <3>2 DEF Tales
  <2>5. CASE ~Begins(due, j)
    <3>1. CASE j # i \/ SaysNothing(words)
      BY <2>1, <2>3, <2>5, <3>1, OthersAre
    <3>2. CASE j = i /\ ~SaysNothing(words)
      <4>0. \A k \in Id : ~Begins(due, k) => said'[k] = IF k = i THEN said[k] \o words ELSE said[k]
        BY SaidIs
      <4>1. said'[j] = said[j] \o words
        BY <2>5, <3>2, <4>0
      <4>2. CASE SaysOfANewOne(c, i, words)
        <5>1. Len(sent') = j /\ j > Len(sent)
          BY <2>2, <3>2, <4>2, OthersAre DEF SaysOfANewOne, NewId
        <5>2. said[j] = << >> /\ words \in Tales /\ words \in Seq(Says)
          BY <2>1, <4>2, <5>1 DEF SaysOfANewOne, Answers
        <5>3. said'[j] = words
          BY <4>1, <5>2, ConcatEmptySeq
        <5> QED BY <2>2, <5>1, <5>2, <5>3
      <4>3. CASE SaysItIsRevoked(c, due, i, words)
        <5>1. said[j] = Agreed /\ SentBy(c, j) /\ words = <<"Revoked">>
          BY <3>2, <4>3, SaidIs DEF SaysItIsRevoked
        <5>2. ~(j > Len(sent))
          BY <2>2, <5>1 DEF SentBy
        <5> QED BY <2>3, <4>1, <5>1, <5>2, WordsAre
      <4>4. CASE SaysItIsAborted(i, words)
        <5>1. said[j] = Begun /\ j \in 1 .. Len(sent) /\ words = <<"Aborted">>
          BY <3>2, <4>4 DEF SaysItIsAborted, ManagerInv, Abortable
        <5>2. ~(j > Len(sent))
          BY <2>2, <5>1
        <5> QED BY <2>3, <4>1, <5>1, <5>2, WordsAre
      <4> QED BY <1>1, <3>2, <4>2, <4>3, <4>4
    <3> QED BY <3>1, <3>2
  <2> QED BY <2>4, <2>5
<1> QED BY <1>4, <1>5, <1>6

LEMMA AnswersAreKept ==
  ASSUME ManagerInv, NEW c \in Conns, NEW s, NEW due, NEW i, NEW words,
         Answers(c, s, due, i, words)
  PROVE  ManagerInv'
<1>1. TypeOK'
  BY AnswersType
<1>2. \A d \in Conns : Kept(d)'
  BY AnswersKeep
<1>3. InForce' /\ Abortable' /\ Tells'
  BY AnswersKeepTheMap
<1> QED BY <1>1, <1>2, <1>3 DEF ManagerInv

(* A session that has begun what is due, and nothing else yet. *)
Advances(c, due, a) == Listening(c) /\ due = Due(session[c]) /\ a = Started(session[c], due)

LEMMA AdvancedIs ==
  ASSUME ManagerInv, NEW c \in Conns, NEW due, NEW a, Advances(c, due, a)
  PROVE  /\ due \in Seq(Scheduled) /\ Len(due) <= Len(session[c].pending)
         /\ \A n \in 1 .. Len(due) : due[n] = session[c].pending[n]
         /\ Proper(a) /\ a.state = session[c].state
         /\ Distinct(a.pending) /\ Distinct(a.events)
         /\ a.pending # << >> => a.state = "Active"
         /\ a.events # << >> => a.state = "Active"
         /\ \A n \in DOMAIN a.pending : GoesOn(c, due, a.pending[n].instruction)
         /\ \A n \in DOMAIN a.events :
              a.events[n].kind = "Instructed" /\ Begins(due, a.events[n].instruction)
<1> DEFINE s == session[c]
<1>1. Proper(s) /\ s.events = << >> /\ now \in Times /\ Kept(c)
  BY DEF ManagerInv, TypeOK, Proper, Sessions, Listening, Advances
<1>1a. due = Due(s) /\ a = Started(s, due)
  BY DEF Advances
<1>2. /\ due \in Seq(Scheduled) /\ Len(due) <= Len(s.pending)
      /\ \A n \in 1 .. Len(due) : due[n] = s.pending[n]
  BY <1>1, <1>1a, DueIs
<1>3. /\ Proper(a) /\ a.state = s.state
      /\ Len(a.pending) = Len(s.pending) - Len(due)
      /\ \A n \in 1 .. Len(s.pending) - Len(due) : a.pending[n] = s.pending[n + Len(due)]
      /\ Len(a.events) = Len(due)
      /\ \A n \in 1 .. Len(due) : a.events[n] = Emit(due[n].instruction, "Instructed")
  BY <1>1, <1>1a, <1>2, StartedIs
<1>4. /\ s.pending \in Seq(Scheduled) /\ a.pending \in Seq(Scheduled) /\ a.events \in Seq(Event)
      /\ DOMAIN s.pending = 1 .. Len(s.pending) /\ DOMAIN a.pending = 1 .. Len(a.pending)
      /\ DOMAIN a.events = 1 .. Len(a.events) /\ Len(s.pending) \in Nat /\ Len(due) \in Nat
  <2>1. s.pending \in Seq(Scheduled) /\ a.pending \in Seq(Scheduled) /\ a.events \in Seq(Event)
    BY <1>1, <1>3 DEF Proper, Sessions
  <2> QED BY <1>2, <2>1
<1>4a. \A n \in 1 .. Len(due) :
         /\ a.events[n].instruction = s.pending[n].instruction
         /\ a.events[n].instruction = due[n].instruction /\ a.events[n].kind = "Instructed"
  <2>1. \A j : Emit(j, "Instructed").instruction = j /\ Emit(j, "Instructed").kind = "Instructed"
    BY DEF Emit
  <2> QED BY <1>2, <1>3, <2>1
<1>5. s.pending # << >> => s.state = "Active"
  BY <1>1 DEF Kept
<1>6. s.pending = << >> => a.pending = << >> /\ a.events = << >>
  BY <1>2, <1>3, <1>4, EmptySeq
<1>7. \A m, n \in 1 .. Len(s.pending) : s.pending[m].instruction = s.pending[n].instruction => m = n
  BY <1>1, <1>4 DEF Kept, Distinct
<1>8. Distinct(a.pending)
  <2> SUFFICES ASSUME NEW m \in 1 .. Len(a.pending), NEW n \in 1 .. Len(a.pending),
                      a.pending[m].instruction = a.pending[n].instruction
               PROVE  m = n
    BY <1>4 DEF Distinct
  <2>1. m + Len(due) \in 1 .. Len(s.pending) /\ n + Len(due) \in 1 .. Len(s.pending)
    BY <1>3, <1>4
  <2>2. a.pending[m] = s.pending[m + Len(due)] /\ a.pending[n] = s.pending[n + Len(due)]
    BY <1>3
  <2>3. m + Len(due) = n + Len(due)
    BY <1>7, <2>1, <2>2
  <2> QED BY <1>4, <2>3
<1>9. Distinct(a.events)
  <2> SUFFICES ASSUME NEW m \in 1 .. Len(a.events), NEW n \in 1 .. Len(a.events),
                      a.events[m].instruction = a.events[n].instruction
               PROVE  m = n
    BY <1>4 DEF Distinct
  <2>1. m \in 1 .. Len(s.pending) /\ n \in 1 .. Len(s.pending)
    BY <1>2, <1>3, <1>4
  <2>2. a.events[m].instruction = s.pending[m].instruction
        /\ a.events[n].instruction = s.pending[n].instruction
    BY <1>3, <1>4a
  <2> QED BY <1>7, <2>1, <2>2
<1>10. \A n \in DOMAIN a.pending : GoesOn(c, due, a.pending[n].instruction)
  <2> SUFFICES ASSUME NEW n \in 1 .. Len(a.pending)
               PROVE  GoesOn(c, due, a.pending[n].instruction)
    BY <1>4
  <2>1. a.pending[n] = s.pending[n + Len(due)]
    BY <1>3
  <2>2. n + Len(due) \in Len(due) + 1 .. Len(s.pending)
    BY <1>3, <1>4
  <2> QED BY <2>1, <2>2 DEF GoesOn
<1>11. \A n \in DOMAIN a.events :
         a.events[n].kind = "Instructed" /\ Begins(due, a.events[n].instruction)
  BY <1>3, <1>4, <1>4a DEF Begins
<1> QED BY <1>2, <1>3, <1>5, <1>6, <1>8, <1>9, <1>10, <1>11

(* An answer, put together from what the handler made of the session. *)
LEMMA AnswerIsKept ==
  ASSUME ManagerInv, NEW c \in Conns, NEW s, NEW i, NEW reception, NEW says,
         Answer(c, s, i, reception, says), reception \o says \in Seq(Says),
         Follows(c, s, Due(session[c]), i, reception \o says),
         \/ SaysNothing(reception \o says)
         \/ i = NewId /\ i \in Id /\ reception \o says \in Tales
            /\ reception \o says # << >> /\ sent' = Append(sent, c)
         \/ GoesOn(c, Due(session[c]), i) /\ reception \o says = <<"Revoked">> /\ sent' = sent
  PROVE  ManagerInv'
<1> DEFINE words == reception \o says
           due == Due(session[c])
<1> HIDE DEF words, due
<1>1. /\ Listening(c) /\ session' = [session EXCEPT ![c] = s] /\ Speak(due, i, words)
      /\ UNCHANGED <<now, held, loop>>
  BY DEF Answer, words, due
<1>2. /\ due \in Seq(Scheduled) /\ Len(due) <= Len(session[c].pending)
      /\ \A n \in 1 .. Len(due) : due[n] = session[c].pending[n]
  BY <1>1, AdvancedIs DEF due, Advances
<1>3. Follows(c, s, due, i, words) /\ words \in Seq(Says)
  BY DEF words, due
<1>4. SaysNothing(words) \/ SaysOfANewOne(c, i, words) \/ SaysItIsRevoked(c, due, i, words)
  BY <1>1 DEF words, due, SaysOfANewOne, SaysItIsRevoked
<1>5. Answers(c, s, due, i, words)
  BY <1>1, <1>2, <1>3, <1>4 DEF Answers, MapIsTold
<1> QED BY <1>5, AnswersAreKept

-----------------------------------------------------------------------------
(* Messages *)

LEMMA FirstIs ==
  ASSUME NEW a \in Seq(Says), NEW b \in Seq(Says), NEW w \in Seq(Says),
         Len(a) = 1, Len(b) \in {1, 2}, Len(w) = Len(b) + 1,
         w[1] = a[1], w[2] = b[1], Len(b) = 2 => w[3] = b[2]
  PROVE  a \o b = w
<1>1. /\ a \o b \in Seq(Says) /\ Len(a \o b) = Len(a) + Len(b)
      /\ \A n \in 1 .. Len(a) + Len(b) :
           (a \o b)[n] = IF n <= Len(a) THEN a[n] ELSE b[n - Len(a)]
  BY ConcatProperties
<1>2. \A n \in 1 .. Len(w) : (a \o b)[n] = w[n]
  BY <1>1
<1> QED BY <1>1, <1>2, SeqEqual

(* What a message is answered with, from the acknowledgement on. *)
LEMMA AnswersSay ==
  /\ << >> \o << >> = << >>
  /\ << >> \o <<"Revoked">> = <<"Revoked">>
  /\ <<"OK">> \o <<"Accepted">> = Agreed
  /\ <<"OK">> \o <<"Accepted", "Started">> = Begun
  /\ <<"TemporaryError">> \o <<"Accepted", "Rejected">> = <<"TemporaryError", "Accepted", "Rejected">>
  /\ <<"InvalidContent">> \o <<"Rejected">> = <<"InvalidContent", "Rejected">>
  /\ << >> \in Seq(Says) /\ <<"Revoked">> \in Seq(Says)
  /\ <<"TemporaryError", "Accepted", "Rejected">> \in Seq(Says)
  /\ <<"InvalidContent", "Rejected">> \in Seq(Says)
<1>1. << >> \o << >> = << >> /\ << >> \in Seq(Says)
  BY ConcatEmptySeq, EmptySeq
<1>2. << >> \o <<"Revoked">> = <<"Revoked">> /\ <<"Revoked">> \in Seq(Says)
  <2>1. <<"Revoked">> \in Seq(Says)
    BY DEF Says
  <2> QED BY <2>1, ConcatEmptySeq
<1>3. <<"OK">> \o <<"Accepted">> = <<"OK", "Accepted">>
  <2> DEFINE a == <<"OK">>
             b == <<"Accepted">>
             w == <<"OK", "Accepted">>
  <2>1. a \in Seq(Says) /\ Len(a) = 1 /\ a[1] = "OK"
    BY DEF Says
  <2>2. b \in Seq(Says) /\ Len(b) = 1 /\ b[1] = "Accepted"
    BY DEF Says
  <2>3. w \in Seq(Says) /\ Len(w) = 2 /\ w[1] = "OK" /\ w[2] = "Accepted"
    BY DEF Says
  <2> HIDE DEF a, b, w
  <2>4. /\ Len(b) \in {1, 2} /\ Len(w) = Len(b) + 1 /\ w[1] = a[1] /\ w[2] = b[1]
        /\ Len(b) = 2 => w[3] = b[2]
    BY <2>1, <2>2, <2>3
  <2>5. a \o b = w
    BY <2>1, <2>2, <2>3, <2>4, FirstIs
  <2> QED BY <2>5 DEF a, b, w
<1>4. <<"OK">> \o <<"Accepted", "Started">> = <<"OK", "Accepted", "Started">>
  <2> DEFINE a == <<"OK">>
             b == <<"Accepted", "Started">>
             w == <<"OK", "Accepted", "Started">>
  <2>1. a \in Seq(Says) /\ Len(a) = 1 /\ a[1] = "OK"
    BY DEF Says
  <2>2. b \in Seq(Says) /\ Len(b) = 2 /\ b[1] = "Accepted" /\ b[2] = "Started"
    BY DEF Says
  <2>3. w \in Seq(Says) /\ Len(w) = 3 /\ w[1] = "OK" /\ w[2] = "Accepted" /\ w[3] = "Started"
    BY DEF Says
  <2> HIDE DEF a, b, w
  <2>4. /\ Len(b) \in {1, 2} /\ Len(w) = Len(b) + 1 /\ w[1] = a[1] /\ w[2] = b[1]
        /\ Len(b) = 2 => w[3] = b[2]
    BY <2>1, <2>2, <2>3
  <2>5. a \o b = w
    BY <2>1, <2>2, <2>3, <2>4, FirstIs
  <2> QED BY <2>5 DEF a, b, w
<1>5. <<"TemporaryError">> \o <<"Accepted", "Rejected">> = <<"TemporaryError", "Accepted", "Rejected">>
  <2> DEFINE a == <<"TemporaryError">>
             b == <<"Accepted", "Rejected">>
             w == <<"TemporaryError", "Accepted", "Rejected">>
  <2>1. a \in Seq(Says) /\ Len(a) = 1 /\ a[1] = "TemporaryError"
    BY DEF Says
  <2>2. b \in Seq(Says) /\ Len(b) = 2 /\ b[1] = "Accepted" /\ b[2] = "Rejected"
    BY DEF Says
  <2>3. w \in Seq(Says) /\ Len(w) = 3 /\ w[1] = "TemporaryError" /\ w[2] = "Accepted" /\ w[3] = "Rejected"
    BY DEF Says
  <2> HIDE DEF a, b, w
  <2>4. /\ Len(b) \in {1, 2} /\ Len(w) = Len(b) + 1 /\ w[1] = a[1] /\ w[2] = b[1]
        /\ Len(b) = 2 => w[3] = b[2]
    BY <2>1, <2>2, <2>3
  <2>5. a \o b = w
    BY <2>1, <2>2, <2>3, <2>4, FirstIs
  <2> QED BY <2>5 DEF a, b, w
<1>6. <<"InvalidContent">> \o <<"Rejected">> = <<"InvalidContent", "Rejected">>
  <2> DEFINE a == <<"InvalidContent">>
             b == <<"Rejected">>
             w == <<"InvalidContent", "Rejected">>
  <2>1. a \in Seq(Says) /\ Len(a) = 1 /\ a[1] = "InvalidContent"
    BY DEF Says
  <2>2. b \in Seq(Says) /\ Len(b) = 1 /\ b[1] = "Rejected"
    BY DEF Says
  <2>3. w \in Seq(Says) /\ Len(w) = 2 /\ w[1] = "InvalidContent" /\ w[2] = "Rejected"
    BY DEF Says
  <2> HIDE DEF a, b, w
  <2>4. /\ Len(b) \in {1, 2} /\ Len(w) = Len(b) + 1 /\ w[1] = a[1] /\ w[2] = b[1]
        /\ Len(b) = 2 => w[3] = b[2]
    BY <2>1, <2>2, <2>3
  <2>5. a \o b = w
    BY <2>1, <2>2, <2>3, <2>4, FirstIs
  <2> QED BY <2>5 DEF a, b, w
<1>7. /\ <<"TemporaryError", "Accepted", "Rejected">> \in Seq(Says)
      /\ <<"InvalidContent", "Rejected">> \in Seq(Says)
  BY DEF Says
<1> QED BY <1>1, <1>2, <1>3, <1>4, <1>5, <1>6, <1>7 DEF Agreed, Begun

(* What becomes of the fields of a session. *)
LEMMA ChangedIs ==
  ASSUME NEW s \in Sessions, NEW x
  PROVE  /\ [s EXCEPT !.state = x] = [state |-> x, pending |-> s.pending, events |-> s.events]
         /\ [s EXCEPT !.pending = x] = [state |-> s.state, pending |-> x, events |-> s.events]
         /\ [s EXCEPT !.events = x] = [state |-> s.state, pending |-> s.pending, events |-> x]
         /\ [s EXCEPT !.state = "Closed", !.pending = x]
            = [state |-> "Closed", pending |-> x, events |-> s.events]
<1>1. [s EXCEPT !.state = x] = [state |-> x, pending |-> s.pending, events |-> s.events]
  BY DEF Sessions
<1>2. [s EXCEPT !.pending = x] = [state |-> s.state, pending |-> x, events |-> s.events]
  BY DEF Sessions
<1>3. [s EXCEPT !.events = x] = [state |-> s.state, pending |-> s.pending, events |-> x]
  BY DEF Sessions
<1>4. [s EXCEPT !.state = "Closed", !.pending = x]
      = [state |-> "Closed", pending |-> x, events |-> s.events]
  <2> DEFINE r == [state |-> "Closed", pending |-> s.pending, events |-> s.events]
  <2>1. [s EXCEPT !.state = "Closed"] = r
    BY DEF Sessions
  <2>2. [r EXCEPT !.pending = x] = [state |-> "Closed", pending |-> x, events |-> s.events]
    OBVIOUS
  <2> QED BY <2>1, <2>2
<1> QED BY <1>1, <1>2, <1>3, <1>4

LEMMA EmptyQueue ==
  /\ << >> \in Seq(Scheduled) /\ << >> \in Seq(Event) /\ Len(<< >>) = 0
  /\ InTimeOrder(<< >>) /\ Distinct(<< >>) /\ DOMAIN << >> = {}
BY DEF InTimeOrder, Distinct

(* Where nothing is asked for but what is due, a session goes on. *)
LEMMA GoesOnAdvanced ==
  ASSUME ManagerInv, NEW c \in Conns, NEW due, NEW a, Advances(c, due, a), NEW s \in Sessions,
         s.pending = a.pending \/ s.pending = << >>, s.events = a.events,
         s.pending # << >> => s.state = "Active", s.events # << >> => Drives(s),
         session[c].state = "Active" => Drives(s),
         NEW i, NEW words, words # <<"Revoked">>
  PROVE  Follows(c, s, due, i, words)
<1>1. /\ Proper(a) /\ Distinct(a.pending) /\ Distinct(a.events)
      /\ \A n \in DOMAIN a.pending : GoesOn(c, due, a.pending[n].instruction)
      /\ \A n \in DOMAIN a.events :
           a.events[n].kind = "Instructed" /\ Begins(due, a.events[n].instruction)
  BY AdvancedIs
<1>2. Proper(s) /\ Distinct(s.pending)
  BY <1>1, EmptyQueue, ManagerAssumption DEF Proper
<1>3. \A n \in DOMAIN s.pending : GoesOn(c, due, s.pending[n].instruction)
  BY <1>1, EmptyQueue
<1> QED BY <1>1, <1>2, <1>3 DEF Follows

LEMMA AcknowledgeIsKept ==
  ASSUME ManagerInv, NEW c \in Conns, NEW s, Acknowledge(c, s),
         Follows(c, s, Due(session[c]), NoInstruction, << >>)
  PROVE  ManagerInv'
<1>1. Answer(c, s, NoInstruction, << >>, << >>) /\ UNCHANGED sent
  BY DEF Acknowledge
<1> QED BY <1>1, AnswersSay, AnswerIsKept DEF SaysNothing

(* A session that is not driven has nothing waiting, nor anything due. *)
LEMMA IdleIs ==
  ASSUME ManagerInv, NEW c \in Conns, Listening(c), session[c].state # "Active"
  PROVE  /\ session[c].pending = << >> /\ session[c].events = << >>
         /\ Advanced(session[c]).pending = << >> /\ Advanced(session[c]).events = << >>
<1> DEFINE a == Started(session[c], Due(session[c]))
<1>1. session[c].pending = << >> /\ session[c].events = << >>
  BY DEF ManagerInv, Kept, Listening
<1>2. a.state = session[c].state /\ (a.pending # << >> => a.state = "Active")
      /\ (a.events # << >> => a.state = "Active")
  BY AdvancedIs DEF Advances
<1>3. a.pending = << >> /\ a.events = << >>
  BY <1>2
<1> QED BY <1>1, <1>3 DEF Advanced

LEMMA HandshakesAreKept ==
  ASSUME ManagerInv, NEW c \in Conns, Handshake(c) \/ HandshakeResponse(c)
  PROVE  ManagerInv'
<1>1. PICK x \in State : session[c].state # "Active" /\ Acknowledge(c, [session[c] EXCEPT !.state = x])
  BY DEF Handshake, HandshakeResponse, State
<1> DEFINE s == [session[c] EXCEPT !.state = x]
<1>2. Listening(c) /\ session[c] \in Sessions
  BY <1>1 DEF Acknowledge, Answer, ManagerInv, TypeOK, Sessions
<1>3. s = [state |-> x, pending |-> session[c].pending, events |-> session[c].events]
  BY <1>2, ChangedIs
<1>4. s \in Sessions /\ s.pending = << >> /\ s.events = << >>
  BY <1>1, <1>2, <1>3, IdleIs DEF Sessions
<1> HIDE DEF s
<1>5. << >> # <<"Revoked">>
  OBVIOUS
<1>6. Started(session[c], Due(session[c])).events = << >>
  BY <1>1, <1>2, IdleIs DEF Advanced
<1>7. Follows(c, s, Due(session[c]), NoInstruction, << >>)
  BY <1>1, <1>2, <1>4, <1>5, <1>6, GoesOnAdvanced DEF Advances
<1> QED BY <1>1, <1>7, AcknowledgeIsKept DEF s

LEMMA BreachIsKept ==
  ASSUME ManagerInv, NEW c \in Conns, Breach(c)
  PROVE  ManagerInv'
<1> DEFINE a == Started(session[c], Due(session[c]))
           s == CloseSession(a)
<1>1. Acknowledge(c, s) /\ Listening(c)
  BY DEF Breach, Acknowledge, Answer, Advanced
<1>2. a \in Sessions
  BY <1>1, AdvancedIs DEF Proper, Advances
<1> HIDE DEF a
<1>3. s = [state |-> "Closed", pending |-> << >>, events |-> a.events]
  BY <1>2, ChangedIs DEF CloseSession
<1>4. s \in Sessions /\ s.state = "Closed" /\ s.pending = << >> /\ s.events = a.events
  BY <1>2, <1>3, EmptyQueue DEF Sessions, State
<1> HIDE DEF s
<1>5. << >> # <<"Revoked">>
  OBVIOUS
<1>6. Drives(s)
  BY <1>4 DEF Drives
<1>7. Follows(c, s, Due(session[c]), NoInstruction, << >>)
  BY <1>1, <1>4, <1>5, <1>6, GoesOnAdvanced DEF a, Advances
<1> QED BY <1>1, <1>7, AcknowledgeIsKept

LEMMA SelectIsKept ==
  ASSUME ManagerInv, NEW c \in Conns, Select(c)
  PROVE  ManagerInv'
<1> DEFINE a == Started(session[c], Due(session[c]))
           s == [a EXCEPT !.state = "Active"]
<1>1. Acknowledge(c, s) /\ Listening(c)
  BY DEF Select, Acknowledge, Answer, Advanced
<1>2. a \in Sessions
  BY <1>1, AdvancedIs DEF Proper, Advances
<1> HIDE DEF a
<1>3. s = [state |-> "Active", pending |-> a.pending, events |-> a.events]
  BY <1>2, ChangedIs
<1>4. s \in Sessions /\ s.state = "Active" /\ s.pending = a.pending /\ s.events = a.events
  BY <1>2, <1>3 DEF Sessions, State
<1> HIDE DEF s
<1>5. << >> # <<"Revoked">>
  OBVIOUS
<1>6. Drives(s)
  BY <1>4 DEF Drives
<1>7. Follows(c, s, Due(session[c]), NoInstruction, << >>)
  BY <1>1, <1>4, <1>5, <1>6, GoesOnAdvanced DEF a, Advances
<1> QED BY <1>1, <1>7, AcknowledgeIsKept

(* An active session that has begun what is due. *)
LEMMA ActiveIs ==
  ASSUME ManagerInv, NEW c \in Conns, Listening(c), session[c].state = "Active",
         NEW i, NEW words, words # <<"Revoked">>
  PROVE  Follows(c, Advanced(session[c]), Due(session[c]), i, words)
<1> DEFINE a == Started(session[c], Due(session[c]))
<1>1. a \in Sessions /\ a.state = "Active"
  BY AdvancedIs DEF Proper, Advances
<1>2. Drives(a)
  BY <1>1 DEF Drives
<1> HIDE DEF a
<1>3. Follows(c, a, Due(session[c]), i, words)
  BY <1>1, <1>2, GoesOnAdvanced DEF a, Advances
<1> QED BY <1>3 DEF a, Advanced

LEMMA IgnoreIsKept ==
  ASSUME ManagerInv, NEW c \in Conns, Ignore(c)
  PROVE  ManagerInv'
<1>1. Acknowledge(c, Advanced(session[c])) /\ Listening(c) /\ session[c].state = "Active"
  BY DEF Ignore, Acknowledge, Answer
<1>2. << >> # <<"Revoked">>
  OBVIOUS
<1>3. Follows(c, Advanced(session[c]), Due(session[c]), NoInstruction, << >>)
  BY <1>1, <1>2, ActiveIs
<1> QED BY <1>1, <1>3, AcknowledgeIsKept

LEMMA InstructBadlyIsKept ==
  ASSUME ManagerInv, NEW c \in Conns, InstructBadly(c)
  PROVE  ManagerInv'
<1> DEFINE words == <<"InvalidContent", "Rejected">>
<1>1. /\ session[c].state = "Active" /\ NewId \in Id /\ sent' = Append(sent, c)
      /\ Answer(c, Advanced(session[c]), NewId, <<"InvalidContent">>, <<"Rejected">>)
      /\ Listening(c)
  BY DEF InstructBadly, Answer
<1>2. <<"InvalidContent">> \o <<"Rejected">> = words /\ words \in Seq(Says)
  BY AnswersSay
<1>3. words \in Tales /\ words # << >> /\ words # <<"Revoked">>
  BY DEF Tales
<1> HIDE DEF words
<1>4. Follows(c, Advanced(session[c]), Due(session[c]), NewId, words)
  BY <1>1, <1>3, ActiveIs
<1> QED BY <1>1, <1>2, <1>3, <1>4, AnswerIsKept

(* What begins was sent on this connection. *)
LEMMA BeginsIs ==
  ASSUME ManagerInv, NEW c \in Conns, NEW due, NEW a, Advances(c, due, a), NEW j, Begins(due, j)
  PROVE  j \in Id /\ SentBy(c, j)
<1>1. /\ due \in Seq(Scheduled) /\ Len(due) <= Len(session[c].pending)
      /\ \A n \in 1 .. Len(due) : due[n] = session[c].pending[n]
  BY AdvancedIs
<1>2. session[c].pending \in Seq(Scheduled)
  BY DEF ManagerInv, TypeOK
<1>3. Len(due) \in Nat /\ Len(session[c].pending) \in Nat
  BY <1>1, <1>2
<1>4. PICK n \in 1 .. Len(due) : due[n].instruction = j
  BY DEF Begins
<1>5. n \in 1 .. Len(session[c].pending) /\ session[c].pending[n].instruction = j
  BY <1>1, <1>3, <1>4
<1> QED BY <1>5, QueueIs

(* Behind what was due comes one event more, of something else. *)
Adds(e, a, w) == e = a.events \o <<w>>

LEMMA EventAdded ==
  ASSUME ManagerInv, NEW c \in Conns, NEW due, NEW a, Advances(c, due, a),
         NEW w \in Event, w.instruction \notin Id \/ ~SentBy(c, w.instruction),
         NEW e, Adds(e, a, w)
  PROVE  /\ e \in Seq(Event) /\ Len(e) = Len(a.events) + 1 /\ e # << >> /\ e[Len(e)] = w
         /\ Distinct(e)
         /\ \A n \in DOMAIN e :
              e[n] = w \/ (e[n].kind = "Instructed" /\ Begins(due, e[n].instruction))
<1> DEFINE k == Len(a.events)
<1>1. /\ a.events \in Seq(Event) /\ Distinct(a.events)
      /\ \A n \in DOMAIN a.events :
           a.events[n].kind = "Instructed" /\ Begins(due, a.events[n].instruction)
  BY AdvancedIs DEF Proper, Sessions
<1>2. k \in Nat /\ DOMAIN a.events = 1 .. k
  BY <1>1
<1>3. /\ e \in Seq(Event) /\ Len(e) = k + 1
      /\ \A n \in 1 .. k : e[n] = a.events[n]
      /\ e[k + 1] = w
  BY <1>1, AppendProperties, AppendIsConcat DEF Adds
<1>4. DOMAIN e = 1 .. k + 1 /\ \A n \in 1 .. k + 1 : n \in 1 .. k \/ n = k + 1
  BY <1>2, <1>3
<1>5. \A n \in 1 .. k : e[n].kind = "Instructed" /\ Begins(due, e[n].instruction)
  BY <1>1, <1>2, <1>3
<1>6. \A n \in 1 .. k : e[n].instruction # w.instruction
  BY <1>5, BeginsIs
<1>7. \A m, n \in 1 .. k : e[m].instruction = e[n].instruction => m = n
  BY <1>1, <1>2, <1>3 DEF Distinct
<1>8. Distinct(e)
  BY <1>3, <1>4, <1>6, <1>7 DEF Distinct
<1>9. e # << >>
  BY <1>2, <1>3
<1> QED BY <1>3, <1>4, <1>5, <1>8, <1>9

LEMMA ChangedThrice ==
  ASSUME NEW s \in Sessions, NEW x, NEW q, NEW e
  PROVE  [s EXCEPT !.state = x, !.pending = q, !.events = e]
         = [state |-> x, pending |-> q, events |-> e]
<1> DEFINE r == [state |-> x, pending |-> s.pending, events |-> s.events]
           u == [state |-> x, pending |-> q, events |-> s.events]
<1>1. [s EXCEPT !.state = x] = r
  BY DEF Sessions
<1>2. [r EXCEPT !.pending = q] = u
  OBVIOUS
<1>3. [u EXCEPT !.events = e] = [state |-> x, pending |-> q, events |-> e]
  OBVIOUS
<1> QED BY <1>1, <1>2, <1>3

LEMMA DeselectIsKept ==
  ASSUME ManagerInv, NEW c \in Conns, Deselect(c)
  PROVE  ManagerInv'
<1> DEFINE due == Due(session[c])
           a == Started(session[c], due)
           w == Emit(NoInstruction, "Released")
           released == IF a.state = "Active" THEN <<w>> ELSE << >>
           s == [a EXCEPT !.state = "AwaitingControlType", !.pending = << >>,
                          !.events = a.events \o released]
<1>1. Acknowledge(c, s) /\ Listening(c)
  BY DEF Deselect, Acknowledge, Answer, Advanced
<1>2. Advances(c, due, a)
  BY <1>1 DEF Advances
<1> HIDE DEF a, due, w
<1>3. a \in Sessions /\ a.state = session[c].state /\ a.events \in Seq(Event)
      /\ (a.events # << >> => a.state = "Active")
  BY <1>2, AdvancedIs DEF Proper, Sessions
<1>4. s = [state |-> "AwaitingControlType", pending |-> << >>, events |-> a.events \o released]
  BY <1>3, ChangedThrice
<1>5. w \in Event /\ w.instruction = NoInstruction /\ w.kind = "Released"
  BY DEF w, Emit, Event
<1>6. NoInstruction \notin Id
  BY ManagerAssumption DEF Id
<1>7. << >> # <<"Revoked">> /\ "AwaitingControlType" \in State
  BY DEF State
<1>8. CASE a.state = "Active"
  <2>1. PICK e : Adds(e, a, w)
    BY DEF Adds
  <2>2. s = [state |-> "AwaitingControlType", pending |-> << >>, events |-> e]
    BY <1>4, <1>8, <2>1 DEF Adds
  <2>3. /\ e \in Seq(Event) /\ Len(e) = Len(a.events) + 1 /\ e # << >> /\ e[Len(e)] = w
        /\ Distinct(e)
        /\ \A n \in DOMAIN e :
             e[n] = w \/ (e[n].kind = "Instructed" /\ Begins(due, e[n].instruction))
    BY <1>2, <1>5, <1>6, <2>1, EventAdded
  <2> HIDE DEF s
  <2>4. /\ s \in Sessions /\ s.pending = << >> /\ s.events = e
    BY <1>7, <2>2, <2>3, EmptyQueue DEF Sessions
  <2>5. Drives(s)
    BY <1>5, <2>3, <2>4 DEF Drives
  <2>6. Proper(s)
    BY <2>4, EmptyQueue, ManagerAssumption DEF Proper
  <2>7. \A n \in DOMAIN s.events :
          IF s.events[n].kind = "Instructed" THEN Begins(due, s.events[n].instruction)
          ELSE s.events[n].instruction = NoInstruction
    BY <1>5, <2>3, <2>4
  <2>8. Follows(c, s, due, NoInstruction, << >>)
    BY <2>3, <2>4, <2>5, <2>6, <2>7, EmptyQueue DEF Follows
  <2> QED BY <1>1, <2>8, AcknowledgeIsKept DEF due, s
<1>9. CASE a.state # "Active"
  <2>1. a.events = << >> /\ a.events \o << >> = a.events
    BY <1>3, <1>9, ConcatEmptySeq
  <2>2. s = [state |-> "AwaitingControlType", pending |-> << >>, events |-> << >>]
    BY <1>4, <1>9, <2>1
  <2> HIDE DEF s
  <2>3. s \in Sessions /\ s.pending = << >> /\ s.events = << >>
    BY <1>7, <2>2, EmptyQueue DEF Sessions
  <2>4. Follows(c, s, due, NoInstruction, << >>)
    BY <1>2, <1>3, <1>7, <1>9, <2>1, <2>3, GoesOnAdvanced
  <2> QED BY <1>1, <2>4, AcknowledgeIsKept DEF due, s
<1> QED BY <1>8, <1>9

-----------------------------------------------------------------------------
(* A queue with one less, and with one more *)

LEMMA Slices ==
  ASSUME NEW q \in Seq(Scheduled), NEW k \in 0 .. Len(q), NEW l \in 1 .. Len(q) + 1
  PROVE  /\ SubSeq(q, 1, k) \in Seq(Scheduled) /\ Len(SubSeq(q, 1, k)) = k
         /\ \A m \in 1 .. k : SubSeq(q, 1, k)[m] = q[m]
         /\ SubSeq(q, l, Len(q)) \in Seq(Scheduled) /\ Len(SubSeq(q, l, Len(q))) = Len(q) - (l - 1)
         /\ \A m \in 1 .. Len(q) - (l - 1) : SubSeq(q, l, Len(q))[m] = q[m + (l - 1)]
<1>1. Len(q) \in Nat /\ \A m \in 1 .. Len(q) : q[m] \in Scheduled
  OBVIOUS
<1>2. (\A m \in 1 .. k : q[m] \in Scheduled) /\ (\A m \in l .. Len(q) : q[m] \in Scheduled)
  BY <1>1
<1>3. /\ SubSeq(q, 1, k) \in Seq(Scheduled)
      /\ Len(SubSeq(q, 1, k)) = IF 1 <= k THEN k - 1 + 1 ELSE 0
      /\ \A m \in 1 .. k - 1 + 1 : SubSeq(q, 1, k)[m] = q[1 + m - 1]
  BY <1>2, SubSeqProperties
<1>4. /\ SubSeq(q, l, Len(q)) \in Seq(Scheduled)
      /\ Len(SubSeq(q, l, Len(q))) = IF l <= Len(q) THEN Len(q) - l + 1 ELSE 0
      /\ \A m \in 1 .. Len(q) - l + 1 : SubSeq(q, l, Len(q))[m] = q[l + m - 1]
  BY <1>1, <1>2, SubSeqProperties
<1>5. \A m \in 1 .. k : SubSeq(q, 1, k)[m] = q[m]
  BY <1>3
<1>6. \A m \in 1 .. Len(q) - (l - 1) : SubSeq(q, l, Len(q))[m] = q[m + (l - 1)]
  <2>1. TAKE m \in 1 .. Len(q) - (l - 1)
  <2>2. m \in 1 .. Len(q) - l + 1 /\ l + m - 1 = m + (l - 1)
    BY <1>1
  <2> QED BY <1>4, <2>2
<1> QED BY <1>1, <1>3, <1>4, <1>5, <1>6

LEMMA RemovedIs ==
  ASSUME NEW q \in Seq(Scheduled), NEW n \in 1 .. Len(q)
  PROVE  /\ RemoveAt(q, n) \in Seq(Scheduled) /\ Len(RemoveAt(q, n)) = Len(q) - 1
         /\ \A m \in 1 .. Len(q) - 1 : RemoveAt(q, n)[m] = q[IF m < n THEN m ELSE m + 1]
<1> DEFINE x == SubSeq(q, 1, n - 1)
           y == SubSeq(q, n + 1, Len(q))
<1>1. Len(q) \in Nat /\ n - 1 \in 0 .. Len(q) /\ n + 1 \in 1 .. Len(q) + 1 /\ n + 1 - 1 = n
  OBVIOUS
<1>2. /\ x \in Seq(Scheduled) /\ Len(x) = n - 1 /\ \A m \in 1 .. n - 1 : x[m] = q[m]
      /\ y \in Seq(Scheduled) /\ Len(y) = Len(q) - (n + 1 - 1)
      /\ \A m \in 1 .. Len(q) - (n + 1 - 1) : y[m] = q[m + (n + 1 - 1)]
  BY <1>1, Slices
<1>3. RemoveAt(q, n) = x \o y
  BY DEF RemoveAt
<1> HIDE DEF x, y
<1>4. Len(y) = Len(q) - n /\ \A m \in 1 .. Len(q) - n : y[m] = q[m + n]
  BY <1>1, <1>2
<1>5. /\ x \o y \in Seq(Scheduled) /\ Len(x \o y) = Len(x) + Len(y)
      /\ \A m \in 1 .. Len(x) + Len(y) :
           (x \o y)[m] = IF m <= Len(x) THEN x[m] ELSE y[m - Len(x)]
  BY <1>2, ConcatProperties
<1>6. ASSUME NEW m \in 1 .. Len(q) - 1
      PROVE  (x \o y)[m] = q[IF m < n THEN m ELSE m + 1]
  <2>1. CASE m < n
    BY <1>1, <1>2, <1>4, <1>5, <2>1
  <2>2. CASE ~(m < n)
    <3>1. PICK j \in 1 .. Len(q) - n : j = m - Len(x)
      BY <1>1, <1>2, <2>2
    <3>2. y[j] = q[j + n] /\ j + n = m + 1
      BY <1>1, <1>2, <1>4, <3>1
    <3>3. (x \o y)[m] = y[j]
      BY <1>1, <1>2, <1>4, <1>5, <2>2, <3>1
    <3> QED BY <2>2, <3>2, <3>3
  <2> QED BY <2>1, <2>2
<1> QED BY <1>1, <1>2, <1>3, <1>4, <1>5, <1>6

LEMMA InsertedIs ==
  ASSUME NEW q \in Seq(Scheduled), NEW l \in 1 .. Len(q) + 1, NEW p \in Scheduled
  PROVE  /\ InsertAt(q, l, p) \in Seq(Scheduled) /\ Len(InsertAt(q, l, p)) = Len(q) + 1
         /\ \A m \in 1 .. Len(q) + 1 :
              /\ m < l => InsertAt(q, l, p)[m] = q[m]
              /\ m = l => InsertAt(q, l, p)[m] = p
              /\ m > l => InsertAt(q, l, p)[m] = q[m - 1]
<1> DEFINE x == SubSeq(q, 1, l - 1)
           y == SubSeq(q, l, Len(q))
           z == x \o <<p>>
<1>1. Len(q) \in Nat /\ l - 1 \in 0 .. Len(q)
  OBVIOUS
<1>2. /\ x \in Seq(Scheduled) /\ Len(x) = l - 1 /\ \A m \in 1 .. l - 1 : x[m] = q[m]
      /\ y \in Seq(Scheduled) /\ Len(y) = Len(q) - (l - 1)
      /\ \A m \in 1 .. Len(q) - (l - 1) : y[m] = q[m + (l - 1)]
  BY <1>1, Slices
<1>3. InsertAt(q, l, p) = z \o y
  BY DEF InsertAt
<1> HIDE DEF x, y
<1>4. /\ z \in Seq(Scheduled) /\ Len(z) = Len(x) + 1
      /\ \A m \in 1 .. Len(x) : z[m] = x[m]
      /\ z[Len(x) + 1] = p
  BY <1>2, AppendProperties, AppendIsConcat
<1> HIDE DEF z
<1>5. /\ z \o y \in Seq(Scheduled) /\ Len(z \o y) = Len(z) + Len(y)
      /\ \A m \in 1 .. Len(z) + Len(y) :
           (z \o y)[m] = IF m <= Len(z) THEN z[m] ELSE y[m - Len(z)]
  <2>1. z \in Seq(Scheduled) /\ y \in Seq(Scheduled)
    BY <1>2, <1>4
  <2> QED BY <2>1, ConcatProperties
<1>6. Len(z) = l /\ Len(z) + Len(y) = Len(q) + 1
  BY <1>1, <1>2, <1>4
<1>7. ASSUME NEW m \in 1 .. Len(q) + 1, m < l
      PROVE  (z \o y)[m] = q[m]
  <2>1. m \in 1 .. Len(x) /\ m \in 1 .. l - 1
    BY <1>1, <1>2, <1>7
  <2> QED BY <1>2, <1>4, <1>5, <1>6, <1>7, <2>1
<1>8. ASSUME NEW m \in 1 .. Len(q) + 1, m = l
      PROVE  (z \o y)[m] = p
  <2>1. m = Len(x) + 1
    BY <1>1, <1>2, <1>8
  <2> QED BY <1>4, <1>5, <1>6, <1>8, <2>1
<1>9. ASSUME NEW m \in 1 .. Len(q) + 1, m > l
      PROVE  (z \o y)[m] = q[m - 1]
  <2>1. PICK j \in 1 .. Len(q) - (l - 1) : j = m - Len(z)
    BY <1>1, <1>6, <1>9
  <2>2. y[j] = q[j + (l - 1)] /\ j + (l - 1) = m - 1
    BY <1>1, <1>2, <1>6, <2>1
  <2>3. (z \o y)[m] = y[j]
    BY <1>1, <1>5, <1>6, <1>9, <2>1
  <2> QED BY <2>2, <2>3
<1> QED BY <1>3, <1>5, <1>6, <1>7, <1>8, <1>9

(* The place for an instruction in a queue in time order. *)
LEMMA EnqueuedIs ==
  ASSUME NEW q \in Seq(Scheduled), InTimeOrder(q), NEW p \in Scheduled
  PROVE  /\ Enqueued(q, p) \in Seq(Scheduled) /\ Len(Enqueued(q, p)) = Len(q) + 1
         /\ InTimeOrder(Enqueued(q, p))
         /\ \E l \in 1 .. Len(q) + 1 : \A m \in 1 .. Len(q) + 1 :
              /\ m < l => Enqueued(q, p)[m] = q[m]
              /\ m = l => Enqueued(q, p)[m] = p
              /\ m > l => Enqueued(q, p)[m] = q[m - 1]
<1>1. Len(q) \in Nat /\ p.at \in Int /\ DOMAIN q = 1 .. Len(q)
      /\ \A m \in 1 .. Len(q) : q[m].at \in Int
  <2>1. \A m \in 1 .. Len(q) : q[m] \in Scheduled
    OBVIOUS
  <2>2. \A r \in Scheduled : r.at \in Int
    BY DEF Scheduled, Times
  <2> QED BY <2>1, <2>2
<1>2. PICK l \in 1 .. Len(q) + 1 : /\ l = Until(q, p.at) + 1
                                   /\ \A n \in 1 .. Len(q) : q[n].at <= p.at <=> n < l
  <2>1. PICK k \in 0 .. Len(q) : /\ k = Until(q, p.at)
                                 /\ \A n \in DOMAIN q : q[n].at <= p.at <=> n <= k
    BY <1>1, UntilIs
  <2>2. k + 1 \in 1 .. Len(q) + 1 /\ \A n \in 1 .. Len(q) : n <= k <=> n < k + 1
    BY <1>1
  <2> QED BY <1>1, <2>1, <2>2
<1> DEFINE e == Enqueued(q, p)
<1>3. e = InsertAt(q, l, p)
  BY <1>2 DEF Enqueued
<1>4. /\ e \in Seq(Scheduled) /\ Len(e) = Len(q) + 1
      /\ \A m \in 1 .. Len(q) + 1 :
           /\ m < l => e[m] = q[m]
           /\ m = l => e[m] = p
           /\ m > l => e[m] = q[m - 1]
  BY <1>3, InsertedIs
<1> HIDE DEF e
<1>5. DOMAIN e = 1 .. Len(q) + 1
  BY <1>4
<1>6. InTimeOrder(e)
  <2> SUFFICES ASSUME NEW m \in 1 .. Len(q) + 1, NEW n \in 1 .. Len(q) + 1, m < n
               PROVE  e[m].at <= e[n].at
    BY <1>5 DEF InTimeOrder
  <2>0. \A i, j \in 1 .. Len(q) : i < j => q[i].at <= q[j].at
    BY <1>1 DEF InTimeOrder
  <2>1. CASE n < l
    <3>1. e[m] = q[m] /\ e[n] = q[n]
      BY <1>1, <1>4, <2>1
    <3> QED BY <1>1, <2>0, <2>1, <3>1
  <2>2. CASE n = l
    <3>1. e[m] = q[m] /\ e[n] = p /\ m \in 1 .. Len(q) /\ m < l
      BY <1>1, <1>4, <2>2
    <3> QED BY <1>1, <1>2, <3>1
  <2>3. CASE n > l
    <3>1. e[n] = q[n - 1] /\ n - 1 \in 1 .. Len(q) /\ ~(n - 1 < l)
      BY <1>1, <1>4, <2>3
    <3>2. p.at <= q[n - 1].at
      BY <1>1, <1>2, <3>1
    <3>3. CASE m < l
      <4>1. e[m] = q[m] /\ m \in 1 .. Len(q)
        BY <1>1, <1>4, <3>3
      <4> QED BY <1>1, <2>0, <3>1, <3>3, <4>1
    <3>4. CASE m = l
      BY <1>4, <3>1, <3>2, <3>4
    <3>5. CASE m > l
      <4>1. e[m] = q[m - 1] /\ m - 1 \in 1 .. Len(q) /\ m - 1 < n - 1
        BY <1>1, <1>4, <3>5
      <4> QED BY <2>0, <3>1, <4>1
    <3> QED BY <1>1, <3>3, <3>4, <3>5
  <2> QED BY <1>1, <2>1, <2>2, <2>3
<1> QED BY <1>4, <1>6 DEF e

LEMMA RemovedKeeps ==
  ASSUME NEW q \in Seq(Scheduled), InTimeOrder(q), Distinct(q), NEW n \in 1 .. Len(q)
  PROVE  /\ RemoveAt(q, n) \in Seq(Scheduled) /\ Len(RemoveAt(q, n)) <= Len(q)
         /\ InTimeOrder(RemoveAt(q, n)) /\ Distinct(RemoveAt(q, n))
         /\ \A m \in DOMAIN RemoveAt(q, n) :
              /\ RemoveAt(q, n)[m].instruction # q[n].instruction
              /\ \E k \in DOMAIN q : RemoveAt(q, n)[m] = q[k]
<1> DEFINE r == RemoveAt(q, n)
           k(m) == IF m < n THEN m ELSE m + 1
<1>1. Len(q) \in Nat /\ DOMAIN q = 1 .. Len(q) /\ \A m \in 1 .. Len(q) : q[m].at \in Int
  <2>1. \A m \in 1 .. Len(q) : q[m] \in Scheduled
    OBVIOUS
  <2>2. \A p \in Scheduled : p.at \in Int
    BY DEF Scheduled, Times
  <2> QED BY <2>1, <2>2
<1>2. r \in Seq(Scheduled) /\ Len(r) = Len(q) - 1 /\ \A m \in 1 .. Len(q) - 1 : r[m] = q[k(m)]
  BY RemovedIs
<1> HIDE DEF r
<1>3. DOMAIN r = 1 .. Len(q) - 1
  BY <1>1, <1>2
<1>4. \A m \in 1 .. Len(q) - 1 : k(m) \in 1 .. Len(q) /\ k(m) # n
  BY <1>1
<1>5. \A m, j \in 1 .. Len(q) - 1 : (m < j => k(m) < k(j)) /\ (k(m) = k(j) => m = j)
  BY <1>1
<1> HIDE DEF k
<1>6. \A i, j \in 1 .. Len(q) : /\ i < j => q[i].at <= q[j].at
                                /\ q[i].instruction = q[j].instruction => i = j
  BY <1>1 DEF InTimeOrder, Distinct
<1>7. InTimeOrder(r)
  BY <1>2, <1>3, <1>4, <1>5, <1>6 DEF InTimeOrder
<1>8. Distinct(r)
  BY <1>2, <1>3, <1>4, <1>5, <1>6 DEF Distinct
<1>9. \A m \in 1 .. Len(q) - 1 : r[m].instruction # q[n].instruction /\ \E j \in DOMAIN q : r[m] = q[j]
  BY <1>1, <1>2, <1>4, <1>6
<1>10. Len(r) <= Len(q)
  BY <1>1, <1>2
<1> QED BY <1>2, <1>3, <1>7, <1>8, <1>9, <1>10 DEF r

LEMMA RevokeIsKept ==
  ASSUME ManagerInv, NEW c \in Conns, NEW i \in Id, Revoke(c, i)
  PROVE  ManagerInv'
<1> DEFINE due == Due(session[c])
           a == Started(session[c], due)
<1>1. CASE Answer(c, Advanced(session[c]), i, << >>, << >>)
  <2>1. Listening(c) /\ session[c].state = "Active" /\ sent' = sent
    BY <1>1 DEF Answer, Revoke
  <2>2. << >> # <<"Revoked">>
    OBVIOUS
  <2>3. Follows(c, Advanced(session[c]), Due(session[c]), i, << >>)
    BY <2>1, <2>2, ActiveIs
  <2> QED BY <1>1, <2>1, <2>3, AnswersSay, AnswerIsKept DEF SaysNothing
<1>2. ASSUME NEW n \in DOMAIN a.pending, a.pending[n].instruction = i,
             Answer(c, [a EXCEPT !.pending = RemoveAt(a.pending, n)], i, << >>, <<"Revoked">>)
      PROVE  ManagerInv'
  <2> DEFINE r == RemoveAt(a.pending, n)
             s == [a EXCEPT !.pending = r]
  <2>1. Listening(c) /\ session[c].state = "Active" /\ sent' = sent
        /\ Answer(c, s, i, << >>, <<"Revoked">>)
    BY <1>2 DEF Answer, Revoke
  <2>2. Advances(c, due, a)
    BY <2>1 DEF Advances
  <2> HIDE DEF a, due
  <2>3. /\ a \in Sessions /\ a.state = "Active" /\ Len(a.pending) <= MaxPending
        /\ a.pending \in Seq(Scheduled) /\ InTimeOrder(a.pending)
        /\ Distinct(a.pending) /\ Distinct(a.events)
        /\ \A m \in DOMAIN a.pending : GoesOn(c, due, a.pending[m].instruction)
        /\ \A m \in DOMAIN a.events :
             a.events[m].kind = "Instructed" /\ Begins(due, a.events[m].instruction)
    BY <2>1, <2>2, AdvancedIs DEF Proper, Sessions
  <2>4. n \in 1 .. Len(a.pending)
    BY <1>2, <2>3
  <2>5. /\ r \in Seq(Scheduled) /\ Len(r) <= Len(a.pending) /\ InTimeOrder(r) /\ Distinct(r)
        /\ \A m \in DOMAIN r : /\ r[m].instruction # i
                               /\ \E k \in DOMAIN a.pending : r[m] = a.pending[k]
    BY <1>2, <2>3, <2>4, RemovedKeeps
  <2> HIDE DEF r
  <2>6. s = [state |-> "Active", pending |-> r, events |-> a.events]
    <3>1. a \in Sessions
      BY <2>3
    <3>2. s = [state |-> a.state, pending |-> r, events |-> a.events]
      BY <3>1, ChangedIs
    <3> QED BY <2>3, <3>2
  <2> HIDE DEF s
  <2>7. s \in Sessions /\ s.state = "Active" /\ s.pending = r /\ s.events = a.events
    BY <2>3, <2>5, <2>6 DEF Sessions
  <2>8. Proper(s) /\ Drives(s)
    <3>1. Len(r) \in Nat /\ Len(a.pending) \in Nat
      BY <2>3, <2>5
    <3> QED BY <2>3, <2>5, <2>7, <3>1, ManagerAssumption DEF Proper, Drives
  <2>9. \A m \in DOMAIN r : GoesOn(c, due, r[m].instruction) /\ r[m].instruction # i
    BY <2>3, <2>5
  <2>10. Follows(c, s, due, i, <<"Revoked">>)
    BY <2>3, <2>5, <2>7, <2>8, <2>9 DEF Follows
  <2>11. GoesOn(c, due, i)
    BY <1>2, <2>3
  <2>12. << >> \o <<"Revoked">> = <<"Revoked">> /\ <<"Revoked">> \in Seq(Says)
    BY AnswersSay
  <2> QED BY <2>1, <2>10, <2>11, <2>12, AnswerIsKept DEF due, s
<1> QED BY <1>1, <1>2 DEF Revoke, Advanced

(* A time that has come, or a queue that is full, or one more that waits. *)
LEMMA InstructNowIsKept ==
  ASSUME ManagerInv, NEW c \in Conns, NEW p \in Scheduled, p.instruction = NewId,
         session[c].state = "Active", NewId \in Id, sent' = Append(sent, c),
         NEW s, s = [Advanced(session[c]) EXCEPT !.events = @ \o StartEvents(<<p>>)],
         Answer(c, s, NewId, <<"OK">>, <<"Accepted", "Started">>)
  PROVE  ManagerInv'
<1> DEFINE due == Due(session[c])
           a == Started(session[c], due)
           w == Emit(NewId, "Instructed")
<1>1. Listening(c)
  BY DEF Answer
<1>2. Advances(c, due, a) /\ s = [a EXCEPT !.events = a.events \o StartEvents(<<p>>)]
  BY <1>1 DEF Advances, Advanced
<1>3. StartEvents(<<p>>) = <<w>>
  BY DEF StartEvents
<1> HIDE DEF a, due
<1>4. /\ a \in Sessions /\ a.state = "Active" /\ Len(a.pending) <= MaxPending
      /\ a.pending \in Seq(Scheduled) /\ InTimeOrder(a.pending) /\ Distinct(a.pending)
      /\ \A m \in DOMAIN a.pending : GoesOn(c, due, a.pending[m].instruction)
  BY <1>2, AdvancedIs DEF Proper, Sessions
<1>5. w \in Event /\ w.instruction = NewId /\ w.kind = "Instructed"
  BY DEF Emit, Event
<1> HIDE DEF w
<1>6. PICK e : Adds(e, a, w)
  BY DEF Adds
<1>7. s = [state |-> "Active", pending |-> a.pending, events |-> e]
  <2>1. s = [a EXCEPT !.events = e]
    BY <1>2, <1>3, <1>6 DEF Adds
  <2> QED BY <1>4, <2>1, ChangedIs
<1>8. ~SentBy(c, NewId)
  <2>1. sent \in Seq(Conns)
    BY DEF ManagerInv, TypeOK
  <2> QED BY <2>1 DEF SentBy, NewId
<1>9. /\ e \in Seq(Event) /\ Distinct(e)
      /\ \A n \in DOMAIN e :
           e[n] = w \/ (e[n].kind = "Instructed" /\ Begins(due, e[n].instruction))
  BY <1>2, <1>5, <1>6, <1>8, EventAdded
<1>10. s \in Sessions /\ s.state = "Active" /\ s.pending = a.pending /\ s.events = e
  <2>1. "Active" \in State /\ e \in Seq(Event) /\ a.pending \in Seq(Scheduled)
    BY <1>4, <1>9 DEF State
  <2>2. [state |-> "Active", pending |-> a.pending, events |-> e] \in Sessions
    BY <2>1 DEF Sessions
  <2>3. \A t : t = [state |-> "Active", pending |-> a.pending, events |-> e] =>
               t.state = "Active" /\ t.pending = a.pending /\ t.events = e
    OBVIOUS
  <2> QED BY <1>7, <2>2, <2>3, Zenon
<1>11. Proper(s) /\ Drives(s)
  BY <1>4, <1>10 DEF Proper, Drives
<1>12. \A n \in DOMAIN e : /\ e[n].kind = "Instructed"
                           /\ Begins(due, e[n].instruction) \/ e[n].instruction = NewId
  BY <1>5, <1>9
<1>13. Begun # <<"Revoked">> /\ Begun # << >> /\ Begun \in Tales
  BY DEF Begun, Tales
<1>14. Follows(c, s, due, NewId, Begun)
  BY <1>4, <1>9, <1>10, <1>11, <1>12, <1>13 DEF Follows
<1>15. <<"OK">> \o <<"Accepted", "Started">> = Begun /\ Begun \in Seq(Says)
  BY AnswersSay, WordsAre
<1> QED BY <1>13, <1>14, <1>15, AnswerIsKept DEF due

LEMMA InstructFullIsKept ==
  ASSUME ManagerInv, NEW c \in Conns,
         session[c].state = "Active", NewId \in Id, sent' = Append(sent, c),
         Answer(c, Advanced(session[c]), NewId, <<"TemporaryError">>, <<"Accepted", "Rejected">>)
  PROVE  ManagerInv'
<1> DEFINE words == <<"TemporaryError", "Accepted", "Rejected">>
<1>1. Listening(c)
  BY DEF Answer
<1>2. <<"TemporaryError">> \o <<"Accepted", "Rejected">> = words /\ words \in Seq(Says)
  BY AnswersSay
<1>3. words \in Tales /\ words # << >> /\ words # <<"Revoked">>
  BY DEF Tales
<1> HIDE DEF words
<1>4. Follows(c, Advanced(session[c]), Due(session[c]), NewId, words)
  BY <1>1, <1>3, ActiveIs
<1> QED BY <1>2, <1>3, <1>4, AnswerIsKept

LEMMA InstructLaterIsKept ==
  ASSUME ManagerInv, NEW c \in Conns, NEW p \in Scheduled, p.instruction = NewId,
         session[c].state = "Active", NewId \in Id, sent' = Append(sent, c),
         Len(Advanced(session[c]).pending) < MaxPending,
         NEW s, s = [Advanced(session[c]) EXCEPT !.pending = Enqueued(@, p)],
         Answer(c, s, NewId, <<"OK">>, <<"Accepted">>)
  PROVE  ManagerInv'
<1> DEFINE due == Due(session[c])
           a == Started(session[c], due)
<1>1. Listening(c)
  BY DEF Answer
<1>2. Advances(c, due, a) /\ s = [a EXCEPT !.pending = Enqueued(a.pending, p)]
      /\ Len(a.pending) < MaxPending
  BY <1>1 DEF Advances, Advanced
<1> HIDE DEF a, due
<1>3. /\ a \in Sessions /\ a.state = "Active"
      /\ a.pending \in Seq(Scheduled) /\ InTimeOrder(a.pending)
      /\ Distinct(a.pending) /\ Distinct(a.events)
      /\ \A m \in DOMAIN a.pending : GoesOn(c, due, a.pending[m].instruction)
      /\ \A m \in DOMAIN a.events :
           a.events[m].kind = "Instructed" /\ Begins(due, a.events[m].instruction)
  BY <1>2, AdvancedIs DEF Proper, Sessions
<1> DEFINE q == a.pending
           e == Enqueued(q, p)
<1>4. /\ e \in Seq(Scheduled) /\ Len(e) = Len(q) + 1 /\ InTimeOrder(e)
      /\ \E l \in 1 .. Len(q) + 1 : \A m \in 1 .. Len(q) + 1 :
           /\ m < l => e[m] = q[m]
           /\ m = l => e[m] = p
           /\ m > l => e[m] = q[m - 1]
  BY <1>3, EnqueuedIs
<1>5. s = [state |-> "Active", pending |-> e, events |-> a.events]
  BY <1>2, <1>3, ChangedIs
<1> HIDE DEF e
<1>6. s \in Sessions /\ s.state = "Active" /\ s.pending = e /\ s.events = a.events
  BY <1>3, <1>4, <1>5 DEF Sessions
<1>7. Proper(s) /\ Drives(s)
  <2>1. Len(q) \in Nat
    BY <1>3
  <2>2. Len(e) <= MaxPending
    BY <1>2, <1>4, <2>1, ManagerAssumption
  <2> QED BY <1>4, <1>6, <2>2 DEF Proper, Drives
<1>8. Len(q) \in Nat /\ DOMAIN q = 1 .. Len(q) /\ DOMAIN e = 1 .. Len(q) + 1
  BY <1>3, <1>4
<1>9. \A m \in 1 .. Len(q) : q[m].instruction # p.instruction
  <2>1. ASSUME NEW m \in 1 .. Len(q), q[m].instruction = NewId
        PROVE  FALSE
    <3>1. GoesOn(c, due, NewId)
      BY <1>3, <1>8, <2>1
    <3>2. PICK n \in Len(due) + 1 .. Len(session[c].pending) : session[c].pending[n].instruction = NewId
      BY <3>1 DEF GoesOn
    <3>3. due \in Seq(Scheduled) /\ session[c].pending \in Seq(Scheduled) /\ sent \in Seq(Conns)
      BY <1>2, AdvancedIs DEF ManagerInv, TypeOK
    <3>4. n \in 1 .. Len(session[c].pending)
      BY <3>3
    <3>5. SentBy(c, NewId)
      BY <3>2, <3>4, QueueIs
    <3> QED BY <3>3, <3>5 DEF SentBy, NewId
  <2> QED BY <2>1
<1>10. PICK l \in 1 .. Len(q) + 1 : \A m \in 1 .. Len(q) + 1 :
           /\ m < l => e[m] = q[m]
           /\ m = l => e[m] = p
           /\ m > l => e[m] = q[m - 1]
  BY <1>4
<1>11. \A m \in 1 .. Len(q) + 1 :
         (e[m] = p /\ m = l) \/ \E k \in 1 .. Len(q) : e[m] = q[k] /\ k = IF m < l THEN m ELSE m - 1
  <2>1. TAKE m \in 1 .. Len(q) + 1
  <2>2. CASE m < l
    <3>1. m \in 1 .. Len(q)
      BY <1>8, <2>2
    <3> QED BY <1>10, <2>2, <3>1
  <2>3. CASE m = l
    BY <1>10, <2>3
  <2>4. CASE m > l
    <3>1. m - 1 \in 1 .. Len(q) /\ ~(m < l)
      BY <1>8, <2>4
    <3> QED BY <1>10, <2>4, <3>1
  <2> QED BY <1>8, <2>2, <2>3, <2>4
<1>12. \A m \in 1 .. Len(q) + 1 :
         e[m].instruction = NewId \/ GoesOn(c, due, e[m].instruction)
  BY <1>3, <1>8, <1>11
<1>13. Distinct(e)
  <2> SUFFICES ASSUME NEW m \in 1 .. Len(q) + 1, NEW n \in 1 .. Len(q) + 1,
                      e[m].instruction = e[n].instruction
               PROVE  m = n
    BY <1>8 DEF Distinct
  <2>0. \A i, j \in 1 .. Len(q) : q[i].instruction = q[j].instruction => i = j
    BY <1>3, <1>8 DEF Distinct
  <2>1. CASE e[m] = p /\ m = l
    BY <1>9, <1>11, <2>1
  <2>2. CASE e[n] = p /\ n = l
    BY <1>9, <1>11, <2>2
  <2>3. CASE ~(e[m] = p /\ m = l) /\ ~(e[n] = p /\ n = l)
    <3>1. PICK i \in 1 .. Len(q) : e[m] = q[i] /\ i = IF m < l THEN m ELSE m - 1
      BY <1>11, <2>3
    <3>2. PICK j \in 1 .. Len(q) : e[n] = q[j] /\ j = IF n < l THEN n ELSE n - 1
      BY <1>11, <2>3
    <3>3. i = j
      BY <2>0, <3>1, <3>2
    <3>4. m # l /\ n # l
      BY <1>10, <2>3
    <3> QED BY <1>8, <3>1, <3>2, <3>3, <3>4
  <2> QED BY <2>1, <2>2, <2>3
<1>14. Agreed # <<"Revoked">> /\ Agreed # << >> /\ Agreed \in Tales
  BY DEF Agreed, Tales
<1>15. Follows(c, s, due, NewId, Agreed)
  BY <1>3, <1>6, <1>7, <1>8, <1>12, <1>13, <1>14 DEF Follows
<1>16. <<"OK">> \o <<"Accepted">> = Agreed /\ Agreed \in Seq(Says)
  BY AnswersSay, WordsAre
<1> QED BY <1>14, <1>15, <1>16, AnswerIsKept DEF due

LEMMA InstructIsKept ==
  ASSUME ManagerInv, NEW c \in Conns, NEW at \in Times, Instruct(c, at)
  PROVE  ManagerInv'
<1> DEFINE p == [at |-> at, instruction |-> NewId]
<1>1. /\ session[c].state = "Active" /\ NewId \in Id /\ sent' = Append(sent, c)
      /\ p \in Scheduled /\ p.instruction = NewId
  BY DEF Instruct, Scheduled
<1>2. \/ Answer(c, [Advanced(session[c]) EXCEPT !.events = @ \o StartEvents(<<p>>)], NewId, <<"OK">>,
                <<"Accepted", "Started">>)
      \/ Answer(c, Advanced(session[c]), NewId, <<"TemporaryError">>, <<"Accepted", "Rejected">>)
      \/ /\ Len(Advanced(session[c]).pending) < MaxPending
         /\ Answer(c, [Advanced(session[c]) EXCEPT !.pending = Enqueued(@, p)], NewId, <<"OK">>,
                   <<"Accepted">>)
  BY DEF Instruct
<1> HIDE DEF p
<1> QED BY <1>1, <1>2, InstructNowIsKept, InstructFullIsKept, InstructLaterIsKept

-----------------------------------------------------------------------------
(* The reports' interval, and the map *)

LEMMA ReportTickIsKept ==
  ASSUME ManagerInv, NEW c \in Conns, ReportTick(c)
  PROVE  ManagerInv'
<1> DEFINE due == Due(session[c])
           a == Started(session[c], due)
           owed == held.overridden /\ held.outstanding # NoRequest /\ ~held.outstanding.told
           aborted == IF owed /\ session[c].state = "Active"
                      THEN held.outstanding.id ELSE NoInstruction
<1>1. /\ Listening(c) /\ session' = [session EXCEPT ![c] = a]
      /\ Speak(due, aborted, <<"Aborted">>)
      /\ held' = IF owed THEN [held EXCEPT !.outstanding.told = TRUE] ELSE held
      /\ UNCHANGED <<now, loop, sent>>
  BY DEF ReportTick, ReportDue
<1>2. Advances(c, due, a) /\ a = Advanced(session[c])
  BY <1>1 DEF Advances, Advanced
<1> HIDE DEF a, due
<1>3. /\ due \in Seq(Scheduled) /\ Len(due) <= Len(session[c].pending)
      /\ \A n \in 1 .. Len(due) : due[n] = session[c].pending[n]
      /\ a \in Sessions /\ a.state = session[c].state
      /\ (a.pending # << >> => a.state = "Active") /\ (a.events # << >> => a.state = "Active")
  BY <1>2, AdvancedIs DEF Proper
<1>4. MapIsTold
  BY <1>1 DEF MapIsTold
<1>5. ASSUME NEW i, NEW words, words # <<"Revoked">>
      PROVE  Follows(c, a, due, i, words)
  <2>1. session[c].state = "Active" => Drives(a)
    BY <1>3 DEF Drives
  <2>2. a.events # << >> => Drives(a)
    BY <1>3 DEF Drives
  <2> QED BY <1>2, <1>3, <1>5, <2>1, <2>2, GoesOnAdvanced
<1>6. << >> # <<"Revoked">> /\ <<"Aborted">> # <<"Revoked">>
      /\ << >> \in Seq(Says) /\ <<"Aborted">> \in Seq(Says)
  BY DEF Says
<1>7. CASE aborted = NoInstruction
  <2>1. NoInstruction \notin Id
    BY ManagerAssumption DEF Id
  <2>2. Speak(due, NoInstruction, << >>)
    BY <1>1, <1>7, <2>1 DEF Speak
  <2>3. Answers(c, a, due, NoInstruction, << >>)
    BY <1>1, <1>3, <1>4, <1>5, <1>6, <2>2 DEF Answers, SaysNothing
  <2> QED BY <2>3, AnswersAreKept
<1>8. CASE aborted # NoInstruction
  <2>1. owed /\ aborted = held.outstanding.id
    BY <1>8
  <2>2. held'.outstanding.told
    <3>1. held.outstanding \in Outstanding /\ held \in [request : CemRequest \cup {NoRequest},
             outstanding : Outstanding \cup {NoRequest}, overridden : BOOLEAN]
      BY <2>1 DEF ManagerInv, TypeOK
    <3>2. held' = [held EXCEPT !.outstanding = [held.outstanding EXCEPT !.told = TRUE]]
      BY <1>1, <2>1
    <3>3. [held.outstanding EXCEPT !.told = TRUE].told
      BY <3>1 DEF Outstanding
    <3> QED BY <3>1, <3>2, <3>3
  <2>3. SaysItIsAborted(aborted, <<"Aborted">>)
    BY <1>1, <2>1, <2>2 DEF SaysItIsAborted
  <2>4. Speak(due, aborted, <<"Aborted">>) /\ Follows(c, a, due, aborted, <<"Aborted">>)
    BY <1>1, <1>5, <1>6
  <2> HIDE DEF aborted
  <2>5. Answers(c, a, due, aborted, <<"Aborted">>)
    BY <1>1, <1>3, <1>4, <1>6, <2>3, <2>4 DEF Answers
  <2> QED BY <2>5, AnswersAreKept
<1> QED BY <1>7, <1>8

(* What the map may hold. *)
HeldType == [request : CemRequest \cup {NoRequest}, outstanding : Outstanding \cup {NoRequest},
             overridden : BOOLEAN]

LEMMA TickIsKept ==
  ASSUME ManagerInv, Tick
  PROVE  ManagerInv'
<1>1. TypeOK'
  <2>1. now' \in Times
    BY ManagerAssumption DEF ManagerInv, TypeOK, Tick, Times
  <2>2. UNCHANGED <<session, held, loop, sent, said>>
    BY DEF Tick
  <2> QED BY <2>1, <2>2 DEF ManagerInv, TypeOK
<1>2. \A d \in Conns : Kept(d)'
  BY DEF ManagerInv, Kept, Drives, SentBy, Tick
<1>3. InForce' /\ Abortable' /\ Tells'
  BY DEF ManagerInv, InForce, Abortable, Tells, Drives, Tick
<1> QED BY <1>1, <1>2, <1>3 DEF ManagerInv

LEMMA LoopIsKept ==
  ASSUME ManagerInv, LoopReads \/ \E overriding \in BOOLEAN : LoopTells(overriding)
  PROVE  ManagerInv'
<1>1. held \in HeldType /\ UNCHANGED <<now, session, sent, said>>
  BY DEF ManagerInv, TypeOK, HeldType, LoopReads, LoopTells
<1>2. /\ held' \in HeldType /\ held'.outstanding = held.outstanding
      /\ held'.request \in {held.request, NoRequest}
  <2>1. CASE LoopReads
    BY <1>1, <2>1 DEF LoopReads, HeldType
  <2>2. CASE \E overriding \in BOOLEAN : LoopTells(overriding)
    BY <1>1, <2>2 DEF LoopTells, HeldType
  <2> QED BY <2>1, <2>2
<1>3. loop' \in [at : {"waiting", "deciding"}, managed : Id \cup {NoInstruction}]
  <2>1. CASE LoopReads
    <3>1. Live => held.request.instruction \in Id
      BY <1>1, NoRequestAssumption DEF HeldType, Live, CemRequest
    <3> QED BY <2>1, <3>1 DEF LoopReads
  <2>2. CASE \E overriding \in BOOLEAN : LoopTells(overriding)
    BY <2>2 DEF LoopTells, Waiting
  <2> QED BY <2>1, <2>2
<1>4. TypeOK'
  BY <1>1, <1>2, <1>3 DEF ManagerInv, TypeOK, HeldType
<1>5. \A d \in Conns : Kept(d)'
  BY <1>1 DEF ManagerInv, Kept, Drives, SentBy
<1>6. InForce'
  BY <1>1, <1>2 DEF ManagerInv, InForce, Drives
<1>7. Abortable' /\ Tells'
  BY <1>1, <1>2 DEF ManagerInv, Abortable, Tells
<1> QED BY <1>4, <1>5, <1>6, <1>7 DEF ManagerInv

(* A session that comes, or goes with nobody's word in force. *)
LEMMA ConnectIsKept ==
  ASSUME ManagerInv, NEW c \in Conns, Connect(c)
  PROVE  ManagerInv'
<1> DEFINE s == [session[c] EXCEPT !.state = "AwaitingHandshake"]
<1>1. /\ session \in [Conns -> Sessions] /\ session[c].state = "Gone" /\ Kept(c)
      /\ session' = [session EXCEPT ![c] = s] /\ UNCHANGED <<now, held, loop, sent, said>>
  BY DEF Connect, ManagerInv, TypeOK, Sessions
<1>2. /\ s = [state |-> "AwaitingHandshake", pending |-> session[c].pending,
              events |-> session[c].events]
      /\ session[c] \in Sessions
  BY <1>1, ChangedIs
<1> HIDE DEF s
<1>3. /\ s \in Sessions /\ s.pending = session[c].pending /\ s.events = session[c].events
      /\ s.pending = << >> /\ (Drives(session[c]) => Drives(s))
  BY <1>1, <1>2 DEF Sessions, State, Kept, Drives
<1>4. \A d \in Conns : session'[d] = IF d = c THEN s ELSE session[d]
  BY <1>1
<1>5. session' \in [Conns -> Sessions]
  BY <1>1, <1>3
<1>6. TypeOK'
  BY <1>1, <1>3, <1>4, <1>5 DEF ManagerInv, TypeOK, Sessions
<1>7. ASSUME NEW d \in Conns
      PROVE  Kept(d)'
  <2>1. /\ session'[d].pending = session[d].pending /\ session'[d].events = session[d].events
        /\ session'[d].pending # << >> => session'[d].state = "Active"
        /\ Drives(session[d]) => Drives(session'[d])
    BY <1>3, <1>4 DEF ManagerInv, Kept
  <2>2. Kept(d)
    BY DEF ManagerInv
  <2> QED BY <1>1, <2>1, <2>2 DEF Kept, SentBy, Drives
<1>8. \A d \in Conns : Drives(session[d]) => Drives(session'[d])
  BY <1>3, <1>4
<1>9. InForce'
  <2>1. sent \in Seq(Conns)
    BY DEF ManagerInv, TypeOK
  <2> QED BY <1>1, <1>8, <2>1 DEF ManagerInv, InForce, Drives
<1>10. Abortable' /\ Tells'
  BY <1>1, <1>3, <1>4 DEF ManagerInv, Abortable, Tells
<1> QED BY <1>6, <1>7, <1>9, <1>10 DEF ManagerInv

(* A session that is left with nothing to do or to tell. *)
LEMMA EmptiedIsKept ==
  ASSUME ManagerInv, NEW c \in Conns, NEW s \in Sessions, s.pending = << >>, s.events = << >>,
         session' = [session EXCEPT ![c] = s], UNCHANGED <<now, loop, sent, said>>,
         (held' = held /\ Drives(s)) \/ held' = NothingHeld
  PROVE  ManagerInv'
<1>1. session \in [Conns -> Sessions] /\ session' \in [Conns -> Sessions]
      /\ \A d \in Conns : session'[d] = IF d = c THEN s ELSE session[d]
  BY DEF ManagerInv, TypeOK, Sessions
<1>2. NothingHeld \in HeldType
  BY DEF NothingHeld, HeldType
<1>3. TypeOK'
  BY <1>1, <1>2, EmptyQueue, ManagerAssumption DEF ManagerInv, TypeOK, Sessions, HeldType
<1>4. ASSUME NEW d \in Conns
      PROVE  Kept(d)'
  <2>1. CASE d = c
    BY <1>1, <2>1, EmptyQueue DEF Kept
  <2>2. CASE d # c
    BY <1>1, <2>2 DEF ManagerInv, Kept, SentBy, Drives
  <2> QED BY <2>1, <2>2
<1>5. InForce'
  <2>1. CASE held' = NothingHeld
    BY <2>1 DEF InForce, NothingHeld
  <2>2. CASE held' = held /\ Drives(s)
    <3>1. sent \in Seq(Conns)
      BY DEF ManagerInv, TypeOK
    <3> QED BY <1>1, <2>2, <3>1 DEF ManagerInv, InForce, Drives
  <2> QED BY <2>1, <2>2
<1>6. Abortable'
  <2>1. CASE held' = NothingHeld
    BY <2>1 DEF Abortable, NothingHeld
  <2>2. CASE held' = held
    BY <1>1, <2>2, EmptyQueue DEF ManagerInv, Abortable
  <2> QED BY <2>1, <2>2
<1>7. Tells'
  BY DEF ManagerInv, Tells
<1> QED BY <1>3, <1>4, <1>5, <1>6, <1>7 DEF ManagerInv

LEMMA LostIsKept ==
  ASSUME ManagerInv, NEW c \in Conns, Lost(c)
  PROVE  ManagerInv'
<1> DEFINE s == [NoSession EXCEPT !.state = "Closed"]
<1>1. session' = [session EXCEPT ![c] = s] /\ UNCHANGED <<now, held, loop, sent, said>>
  BY DEF Lost
<1>2. s = [state |-> "Closed", pending |-> << >>, events |-> << >>]
  BY DEF NoSession
<1>3. s \in Sessions /\ s.pending = << >> /\ s.events = << >> /\ Drives(s)
  BY <1>2, EmptyQueue DEF Sessions, State, Drives
<1> HIDE DEF s
<1> QED BY <1>1, <1>3, EmptiedIsKept

LEMMA FinishIsKept ==
  ASSUME ManagerInv, NEW c \in Conns, Finish(c)
  PROVE  ManagerInv'
<1>1. /\ session' = [session EXCEPT ![c] = NoSession] /\ held' = NothingHeld
      /\ UNCHANGED <<now, loop, sent, said>>
  BY DEF Finish, Cleared
<1>2. NoSession \in Sessions /\ NoSession.pending = << >> /\ NoSession.events = << >>
  BY EmptyQueue DEF NoSession, Sessions, State
<1> QED BY <1>1, <1>2, EmptiedIsKept

(* What is left to tell once the first event is in the map. *)
LEMMA TailIs ==
  ASSUME ManagerInv, NEW c \in Conns, session[c].events # << >>
  PROVE  /\ Head(session[c].events) = session[c].events[1]
         /\ session[c].events[1] \in Event
         /\ Tail(session[c].events) \in Seq(Event)
         /\ \A n \in DOMAIN Tail(session[c].events) :
              /\ n + 1 \in DOMAIN session[c].events /\ n + 1 # 1
              /\ Tail(session[c].events)[n] = session[c].events[n + 1]
         /\ Tail(session[c].events) # << >> =>
              Tail(session[c].events)[Len(Tail(session[c].events))]
              = session[c].events[Len(session[c].events)]
         /\ Tail(session[c].events) = << >> => Len(session[c].events) = 1
         /\ 1 \in DOMAIN session[c].events
<1> DEFINE q == session[c].events
           t == Tail(q)
<1>1. q \in Seq(Event) /\ q # << >> /\ Len(q) \in Nat /\ Len(q) # 0
  BY EmptySeq DEF ManagerInv, TypeOK
<1>2. /\ t \in Seq(Event) /\ Len(t) = Len(q) - 1
      /\ \A n \in 1 .. Len(t) : t[n] = q[n + 1]
  BY <1>1, HeadTailProperties
<1>3. Head(q) = q[1] /\ q[1] \in Event /\ 1 \in DOMAIN q /\ DOMAIN q = 1 .. Len(q)
  BY <1>1
<1> HIDE DEF t
<1>4. DOMAIN t = 1 .. Len(t)
  BY <1>2
<1>5. t # << >> => t[Len(t)] = q[Len(q)]
  <2> SUFFICES ASSUME t # << >> PROVE t[Len(t)] = q[Len(q)]
    OBVIOUS
  <2>1. Len(t) \in 1 .. Len(t) /\ Len(t) + 1 = Len(q)
    BY <1>1, <1>2, EmptySeq
  <2> QED BY <1>2, <2>1
<1>6. t = << >> => Len(q) = 1
  BY <1>1, <1>2
<1>7. \A n \in DOMAIN t : n + 1 \in DOMAIN q /\ n + 1 # 1 /\ t[n] = q[n + 1]
  BY <1>1, <1>2, <1>3, <1>4
<1> QED BY <1>2, <1>3, <1>5, <1>6, <1>7 DEF t

LEMMA ApplyIsKept ==
  ASSUME ManagerInv, NEW c \in Conns, Apply(c)
  PROVE  ManagerInv'
<1> DEFINE q == session[c].events
           t == Tail(q)
           s == [session[c] EXCEPT !.events = t]
           event == Head(q)
<1>1. /\ q # << >> /\ session' = [session EXCEPT ![c] = s]
      /\ held' = IF event.kind = "Instructed" THEN Instructed(event.instruction) ELSE NothingHeld
      /\ UNCHANGED <<now, loop, sent, said>>
  BY DEF Apply, Cleared
<1>2. /\ event = q[1] /\ q[1] \in Event /\ t \in Seq(Event)
      /\ \A n \in DOMAIN t : n + 1 \in DOMAIN q /\ n + 1 # 1 /\ t[n] = q[n + 1]
      /\ t # << >> => t[Len(t)] = q[Len(q)]
      /\ t = << >> => Len(q) = 1
      /\ 1 \in DOMAIN q
  BY <1>1, TailIs
<1>3. /\ session \in [Conns -> Sessions] /\ session[c] \in Sessions
      /\ Kept(c) /\ Drives(session[c])
  BY <1>1 DEF ManagerInv, TypeOK, Sessions, Kept
<1> HIDE DEF t, event
<1>4. s = [state |-> session[c].state, pending |-> session[c].pending, events |-> t]
  BY <1>3, ChangedIs
<1> HIDE DEF s
<1>5. /\ s \in Sessions /\ s.state = session[c].state /\ s.pending = session[c].pending
      /\ s.events = t
  BY <1>2, <1>3, <1>4 DEF Sessions
<1>6. session' \in [Conns -> Sessions]
      /\ \A d \in Conns : session'[d] = IF d = c THEN s ELSE session[d]
  BY <1>1, <1>3, <1>5
<1>7. t # << >> \/ event.kind = "Instructed" => Drives(s)
  <2>1. CASE session[c].state \in {"Active", "Closed"}
    BY <1>5, <2>1 DEF Drives
  <2>2. CASE q[Len(q)].kind = "Released"
    <3>1. t # << >> => Drives(s)
      BY <1>2, <1>5, <2>2 DEF Drives
    <3>2. t = << >> => event.kind = "Released"
      BY <1>2, <2>2
    <3> QED BY <3>1, <3>2
  <2> QED BY <1>3, <2>1, <2>2 DEF Drives
<1>8. event.kind = "Instructed" =>
        /\ event.instruction \in Id /\ SentBy(c, event.instruction)
        /\ said[event.instruction] = Begun
  <2> SUFFICES ASSUME event.kind = "Instructed"
               PROVE  /\ event.instruction \in Id /\ SentBy(c, event.instruction)
                      /\ said[event.instruction] = Begun
    OBVIOUS
  <2>1. SentBy(c, event.instruction) /\ said[event.instruction] = Begun
    BY <1>2, <1>3 DEF Kept
  <2>2. sent \in Seq(Conns) /\ Len(sent) <= MaxId
    BY DEF ManagerInv, TypeOK
  <2> QED BY <2>1, <2>2, ManagerAssumption DEF SentBy, Id
<1>9. TypeOK'
  <2>1. held' \in HeldType
    <3>1. held \in HeldType /\ now \in Times
      BY DEF ManagerInv, TypeOK, HeldType
    <3>2. CASE event.kind = "Instructed"
      <4>1. [instruction |-> event.instruction, until |-> now + For] \in CemRequest
        BY <1>8, <3>1, <3>2, ManagerAssumption DEF CemRequest, Times
      <4>2. [id |-> event.instruction, told |-> FALSE] \in Outstanding
        BY <1>8, <3>2 DEF Outstanding
      <4>3. held' = [held EXCEPT
                       !.request = [instruction |-> event.instruction, until |-> now + For],
                       !.outstanding = [id |-> event.instruction, told |-> FALSE]]
        BY <1>1, <3>2 DEF Instructed
      <4> QED BY <3>1, <4>1, <4>2, <4>3 DEF HeldType
    <3>3. CASE event.kind # "Instructed"
      BY <1>1, <3>3 DEF NothingHeld, HeldType
    <3> QED BY <3>2, <3>3
  <2>2. \A d \in Conns : /\ Len(session'[d].pending) <= MaxPending
                         /\ InTimeOrder(session'[d].pending)
    BY <1>5, <1>6 DEF ManagerInv, TypeOK
  <2> QED BY <1>1, <1>6, <2>1, <2>2 DEF ManagerInv, TypeOK, Sessions, HeldType
<1>10. ASSUME NEW d \in Conns
       PROVE  Kept(d)'
  <2>1. CASE d = c
    <3>1. session'[d] = s
      BY <1>6, <2>1
    <3>2. Distinct(t)
      <4> SUFFICES ASSUME NEW m \in DOMAIN t, NEW n \in DOMAIN t,
                          t[m].instruction = t[n].instruction
                   PROVE  m = n
        BY DEF Distinct
      <4>1. m + 1 = n + 1
        BY <1>2, <1>3 DEF Kept, Distinct
      <4>2. m \in Nat /\ n \in Nat
        BY <1>2
      <4> QED BY <4>1, <4>2
    <3>3. \A n \in DOMAIN t : t[n].kind = "Instructed" =>
            SentBy(c, t[n].instruction) /\ said[t[n].instruction] = Begun
      BY <1>2, <1>3 DEF Kept
    <3>4. t # << >> => Drives(s)
      BY <1>7
    <3> QED BY <1>1, <1>3, <1>5, <2>1, <3>1, <3>2, <3>3, <3>4 DEF Kept, SentBy, Drives
  <2>2. CASE d # c
    BY <1>1, <1>6, <2>2 DEF ManagerInv, Kept, SentBy, Drives
  <2> QED BY <2>1, <2>2
<1>11. CASE event.kind = "Instructed"
  <2> DEFINE i == event.instruction
  <2>1. /\ held'.request.instruction = i
        /\ held'.outstanding.id = i
    <3>1. held \in HeldType
      BY DEF ManagerInv, TypeOK, HeldType
    <3>2. held' = [held EXCEPT
                     !.request = [instruction |-> i, until |-> now + For],
                     !.outstanding = [id |-> i, told |-> FALSE]]
      BY <1>1, <1>11 DEF Instructed
    <3> QED BY <3>1, <3>2 DEF HeldType
  <2>2. i \in Id /\ SentBy(c, i) /\ said[i] = Begun
    BY <1>8, <1>11
  <2>3. InForce'
    <3>1. Drives(session'[sent'[i]]) /\ i \in 1 .. Len(sent')
      BY <1>1, <1>6, <1>7, <1>11, <2>2 DEF SentBy
    <3> QED BY <2>1, <3>1 DEF InForce, Drives
  <2>4. ASSUME NEW d \in Conns, NEW n \in DOMAIN session'[d].events,
               session'[d].events[n].kind = "Instructed"
        PROVE  session'[d].events[n].instruction # i
    <3>1. CASE d = c
      <4>1. n \in DOMAIN t /\ session'[d].events[n] = t[n]
        BY <1>5, <1>6, <2>4, <3>1
      <4> QED BY <1>2, <1>3, <4>1 DEF Kept, Distinct
    <3>2. CASE d # c
      <4>1. SentBy(d, session'[d].events[n].instruction)
        BY <1>6, <2>4, <3>2 DEF ManagerInv, Kept
      <4> QED BY <2>2, <3>2, <4>1 DEF SentBy
    <3> QED BY <3>1, <3>2
  <2>5. Abortable'
    BY <1>1, <2>1, <2>2, <2>4 DEF Abortable, SentBy
  <2> QED BY <1>1, <1>9, <1>10, <2>3, <2>5 DEF ManagerInv, Tells
<1>12. CASE event.kind # "Instructed"
  <2>1. held' = NothingHeld
    BY <1>1, <1>12
  <2>2. InForce' /\ Abortable'
    BY <2>1 DEF InForce, Abortable, NothingHeld
  <2> QED BY <1>1, <1>9, <1>10, <2>2 DEF ManagerInv, Tells
<1> QED BY <1>11, <1>12

-----------------------------------------------------------------------------
LEMMA InitInv == Init => ManagerInv
<1> SUFFICES ASSUME Init PROVE ManagerInv
  OBVIOUS
<1> USE DEF Init
<1>1. TypeOK
  <2>1. NoSession \in Sessions /\ NoSession.pending = << >>
    BY EmptyQueue DEF NoSession, Sessions, State
  <2>2. << >> \in Seq(Conns) /\ << >> \in Seq(Says) /\ Len(<< >>) = 0
    OBVIOUS
  <2> QED BY <2>1, <2>2, EmptyQueue, ManagerAssumption
          DEF TypeOK, Sessions, Times, NothingHeld, Waiting
<1>2. \A c \in Conns : Kept(c)
  BY EmptyQueue DEF NoSession, Kept
<1>3. InForce /\ Abortable
  BY DEF InForce, Abortable, NothingHeld
<1>4. Tells
  BY DEF Tells, Tales
<1> QED BY <1>1, <1>2, <1>3, <1>4 DEF ManagerInv

LEMMA StutterInv == ManagerInv /\ UNCHANGED vars => ManagerInv'
<1> SUFFICES ASSUME ManagerInv, UNCHANGED vars PROVE ManagerInv'
  OBVIOUS
<1>1. UNCHANGED <<now, session, held, loop, sent, said>>
  BY DEF vars
<1>2. TypeOK' /\ Tells'
  BY <1>1 DEF ManagerInv, TypeOK, Tells
<1>3. \A c \in Conns : Kept(c)'
  BY <1>1 DEF ManagerInv, Kept, Drives, SentBy
<1>4. InForce' /\ Abortable'
  BY <1>1 DEF ManagerInv, InForce, Abortable, Drives
<1> QED BY <1>2, <1>3, <1>4 DEF ManagerInv

LEMMA StepInv == ManagerInv /\ [Next]_vars => ManagerInv'
<1> SUFFICES ASSUME ManagerInv, [Next]_vars PROVE ManagerInv'
  OBVIOUS
<1>1. CASE Tick
  BY <1>1, TickIsKept
<1>2. ASSUME NEW c \in Conns, Connect(c) PROVE ManagerInv'
  BY <1>2, ConnectIsKept
<1>3. ASSUME NEW c \in Conns, Handshake(c) \/ HandshakeResponse(c) PROVE ManagerInv'
  BY <1>3, HandshakesAreKept
<1>4. ASSUME NEW c \in Conns, Breach(c) PROVE ManagerInv'
  BY <1>4, BreachIsKept
<1>5. ASSUME NEW c \in Conns, Select(c) PROVE ManagerInv'
  BY <1>5, SelectIsKept
<1>6. ASSUME NEW c \in Conns, Deselect(c) PROVE ManagerInv'
  BY <1>6, DeselectIsKept
<1>7. ASSUME NEW c \in Conns, NEW i \in Id, Revoke(c, i) PROVE ManagerInv'
  BY <1>7, RevokeIsKept
<1>8. ASSUME NEW c \in Conns, Ignore(c) PROVE ManagerInv'
  BY <1>8, IgnoreIsKept
<1>9. ASSUME NEW c \in Conns, InstructBadly(c) PROVE ManagerInv'
  BY <1>9, InstructBadlyIsKept
<1>10. ASSUME NEW c \in Conns, NEW at \in Times, Instruct(c, at) PROVE ManagerInv'
  BY <1>10, InstructIsKept
<1>11. ASSUME NEW c \in Conns, ReportTick(c) PROVE ManagerInv'
  BY <1>11, ReportTickIsKept
<1>12. ASSUME NEW c \in Conns, Apply(c) PROVE ManagerInv'
  BY <1>12, ApplyIsKept
<1>13. ASSUME NEW c \in Conns, Lost(c) PROVE ManagerInv'
  BY <1>13, LostIsKept
<1>14. ASSUME NEW c \in Conns, Finish(c) PROVE ManagerInv'
  BY <1>14, FinishIsKept
<1>15. CASE LoopReads \/ \E overriding \in BOOLEAN : LoopTells(overriding)
  BY <1>15, LoopIsKept
<1>16. CASE UNCHANGED vars
  BY <1>16, StutterInv
<1> QED BY <1>1, <1>2, <1>3, <1>4, <1>5, <1>6, <1>7, <1>8, <1>9, <1>10, <1>11, <1>12, <1>13,
           <1>14, <1>15, <1>16 DEF Next

(* Whoever drives has the word, what waits was agreed to, what may be       *)
(* aborted has begun, and of every instruction the first part of a story   *)
(* is told, in every state the sessions, the map and the loop can reach.   *)
THEOREM Invariance == Spec => []ManagerInv
<1>1. Init => ManagerInv
  BY InitInv
<1>2. ManagerInv /\ [Next]_vars => ManagerInv'
  BY StepInv
<1> QED BY <1>1, <1>2, PTL DEF Spec

(* The state stays within its types; no queue is longer than MAX_PENDING,  *)
(* and every queue is in time order (session.rs enqueue).                  *)
THEOREM TypeCorrect == Spec => []TypeOK
<1>1. ManagerInv => TypeOK
  BY DEF ManagerInv
<1> QED BY <1>1, Invariance, PTL

LEMMA DriversHaveTheWord == ManagerInv => NobodyElsesWord
<1> SUFFICES ASSUME ManagerInv PROVE NobodyElsesWord
  OBVIOUS
<1>1. \A c \in Conns : session[c].pending # << >> => session[c].state = "Active"
  BY DEF ManagerInv, Kept
<1>2. ASSUME held.request # NoRequest
      PROVE  LET s == session[sent[held.request.instruction]] IN
             \/ s.state \in {"Active", "Closed"}
             \/ \E n \in DOMAIN s.events : s.events[n].kind = "Released"
  <2> DEFINE c == sent[held.request.instruction]
  <2>1. held.request.instruction \in 1 .. Len(sent) /\ Drives(session[c])
    BY <1>2 DEF ManagerInv, InForce
  <2>2. sent \in Seq(Conns) /\ session \in [Conns -> Sessions]
    BY DEF ManagerInv, TypeOK, Sessions
  <2>3. c \in Conns
    BY <2>1, <2>2
  <2> HIDE DEF c
  <2>4. session[c].events \in Seq(Event)
    BY <2>2, <2>3 DEF Sessions
  <2>5. session[c].events # << >> =>
          Len(session[c].events) \in DOMAIN session[c].events
    BY <2>4, EmptySeq
  <2> QED BY <2>1, <2>5 DEF Drives, c
<1> QED BY <1>1, <1>2 DEF NobodyElsesWord

(* However many connections there are for one asset, the request in the    *)
(* map is that of a manager who drives, or whose release or closing is on  *)
(* its way into the map (s2.rs apply, and the clearing after serve).       *)
THEOREM TheWordIsTheDrivers == Spec => []NobodyElsesWord
<1>1. ManagerInv => NobodyElsesWord
  BY DriversHaveTheWord
<1> QED BY <1>1, Invariance, PTL

LEMMA PrefixIs ==
  ASSUME NEW s \in Seq(Says), NEW t \in Seq(Says), Len(s) <= Len(t),
         \A n \in 1 .. Len(s) : s[n] = t[n]
  PROVE  IsPrefix(s, t)
<1>1. Len(s) \in Nat /\ Len(t) \in Nat
  OBVIOUS
<1>2. (\A n \in 1 .. Len(s) : s[n] \in Says) /\ (\A n \in 1 .. Len(s) : t[n] \in Says)
  BY <1>1
<1> DEFINE k == Len(s)
           x == SubSeq(s, 1, k)
           y == SubSeq(t, 1, k)
<1>3. /\ x \in Seq(Says) /\ Len(x) = IF 1 <= k THEN k - 1 + 1 ELSE 0
      /\ \A n \in 1 .. k - 1 + 1 : x[n] = s[1 + n - 1]
  BY <1>1, <1>2, SubSeqProperties
<1>4. /\ y \in Seq(Says) /\ Len(y) = IF 1 <= k THEN k - 1 + 1 ELSE 0
      /\ \A n \in 1 .. k - 1 + 1 : y[n] = t[1 + n - 1]
  BY <1>1, <1>2, SubSeqProperties
<1> HIDE DEF x, y
<1>5. Len(x) = k /\ Len(y) = k /\ \A n \in 1 .. k : x[n] = y[n]
  BY <1>1, <1>3, <1>4
<1>6. x = y
  BY <1>3, <1>4, <1>5, SeqEqual
<1> QED BY <1>6 DEF x, y, IsPrefix

LEMMA TalesAreStories == \A tale \in Tales : \E story \in Story : IsPrefix(tale, story)
<1> DEFINE aborted == <<"OK", "Accepted", "Started", "Aborted">>
           Starts(tale) == \E story \in Story : IsPrefix(tale, story)
<1>1. /\ aborted \in Seq(Says) /\ Len(aborted) = 4
      /\ aborted[1] = "OK" /\ aborted[2] = "Accepted" /\ aborted[3] = "Started"
      /\ aborted \in Story
  BY DEF Says, Story
<1>2. /\ Len(Agreed) = 2 /\ Agreed[1] = "OK" /\ Agreed[2] = "Accepted"
      /\ Len(Begun) = 3 /\ Begun[1] = "OK" /\ Begun[2] = "Accepted" /\ Begun[3] = "Started"
  BY DEF Agreed, Begun
<1>3. << >> \in Seq(Says) /\ Len(<< >>) = 0
  OBVIOUS
<1> HIDE DEF aborted
<1>4. Starts(<< >>)
  <2>1. Len(<< >>) <= Len(aborted) /\ \A n \in 1 .. Len(<< >>) : << >>[n] = aborted[n]
    BY <1>1, <1>3
  <2>2. IsPrefix(<< >>, aborted)
    BY <1>1, <1>3, <2>1, PrefixIs
  <2> QED BY <1>1, <2>2
<1>5. Starts(Agreed)
  <2>1. \A n \in 1 .. 2 : n = 1 \/ n = 2
    OBVIOUS
  <2>2. \A n \in 1 .. Len(Agreed) : Agreed[n] = aborted[n]
    BY <1>1, <1>2, <2>1
  <2>3. Len(Agreed) <= Len(aborted)
    BY <1>1, <1>2
  <2>4. IsPrefix(Agreed, aborted)
    BY <1>1, <2>2, <2>3, WordsAre, PrefixIs
  <2> QED BY <1>1, <2>4
<1>6. Starts(Begun)
  <2>1. \A n \in 1 .. 3 : n = 1 \/ n = 2 \/ n = 3
    OBVIOUS
  <2>2. \A n \in 1 .. Len(Begun) : Begun[n] = aborted[n]
    BY <1>1, <1>2, <2>1
  <2>3. Len(Begun) <= Len(aborted)
    BY <1>1, <1>2
  <2>4. IsPrefix(Begun, aborted)
    BY <1>1, <2>2, <2>3, WordsAre, PrefixIs
  <2> QED BY <1>1, <2>4
<1>7. \A story \in Story : story \in Seq(Says)
  <2>1. <<"OK", "Accepted", "Started", "Aborted">> \in Seq(Says)
    BY DEF Says
  <2>2. <<"OK", "Accepted", "Revoked">> \in Seq(Says)
    BY DEF Says
  <2>3. <<"TemporaryError", "Accepted", "Rejected">> \in Seq(Says)
    BY DEF Says
  <2>4. <<"InvalidContent", "Rejected">> \in Seq(Says)
    BY DEF Says
  <2> QED BY <2>1, <2>2, <2>3, <2>4 DEF Story
<1>8. \A story \in Story : Starts(story)
  <2>1. TAKE story \in Story
  <2>2. IsPrefix(story, story)
    BY <1>7 DEF IsPrefix
  <2> QED BY <2>2
<1>9. \A tale \in Tales : tale = << >> \/ tale = Agreed \/ tale = Begun \/ tale \in Story
  BY DEF Tales, Story
<1> QED BY <1>4, <1>5, <1>6, <1>8, <1>9

(* Of every instruction the manager is told the beginning of a story S2    *)
(* knows: nothing begins that was not accepted, nothing is revoked or      *)
(* rejected that has begun, and nothing is aborted twice, or before it     *)
(* began (session.rs instructed, start, revoke, instruction_became).       *)
THEOREM StatusesAreAStory == Spec => []StatusesTellAStory
<1>1. ManagerInv => StatusesTellAStory
  BY TalesAreStories DEF ManagerInv, Tells, StatusesTellAStory
<1> QED BY <1>1, Invariance, PTL
=============================================================================
