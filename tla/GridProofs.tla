----------------------------- MODULE GridProofs -----------------------------
(***************************************************************************)
(* What the network operator is owed, for any house.                       *)
(*                                                                         *)
(* First the evidence of a reduction, for any ceilings, any stride of the  *)
(* ticks and any sampling interval: its types, that no two records claim   *)
(* the same instant, that no trace has a gap, and that a record tells what *)
(* the reduction was.                                                      *)
(*                                                                         *)
(* Then the guard, for any devices, fuses and limits: sums over a set,     *)
(* what an allocation grants, what each bound leaves, the inductive        *)
(* invariant HouseInv, and from it the feed-in cap, the fuses, the         *)
(* operator's ceiling and the conductors.                                  *)
(***************************************************************************)
EXTENDS Evidence, Guard, FiniteSetTheorems, WellFoundedInduction, TLAPS

(* What was written is over, and what is open has begun. *)
Past ==
  steps = 0 =>
    /\ \A e \in events : e.released_at <= clock
    /\ open # NoEvent => open.received_at <= clock

(* The samples of a record, and that the next is not overdue. *)
Spaced(samples) ==
  \A n \in 1 .. Len(samples) - 1 :
    samples[n + 1] - samples[n] \in SampleEvery .. SampleEvery + Stride - 1

Tracing ==
  steps = 0 /\ open # NoEvent =>
    /\ open.samples # << >> /\ open.samples[1] = open.received_at
    /\ Spaced(open.samples)
    /\ lastSample = open.samples[Len(open.samples)]
    /\ clock - lastSample < SampleEvery

IInv == TypeOK /\ Past /\ Tracing /\ TraceIsGapless /\ RecordsDoNotOverlap

-----------------------------------------------------------------------------
(* The samples *)

LEMMA SpacedOn ==
  ASSUME NEW s \in Seq(Times), NEW now \in Times, Spaced(s),
         s # << >> => now - s[Len(s)] \in SampleEvery .. SampleEvery + Stride - 1
  PROVE  /\ Append(s, now) \in Seq(Times) /\ Append(s, now) # << >>
         /\ Append(s, now)[Len(Append(s, now))] = now
         /\ Append(s, now)[1] = IF s = << >> THEN now ELSE s[1]
         /\ Spaced(Append(s, now))
<1> DEFINE t == Append(s, now)
<1>1. /\ t \in Seq(Times) /\ t # << >> /\ Len(t) = Len(s) + 1 /\ Len(s) \in Nat
      /\ t[Len(t)] = now /\ \A n \in 1 .. Len(s) : t[n] = s[n]
  OBVIOUS
<1>2. s = << >> <=> Len(s) = 0
  OBVIOUS
<1>3. t[1] = IF s = << >> THEN now ELSE s[1]
  BY <1>1, <1>2
<1>4. ASSUME NEW n \in 1 .. Len(t) - 1
      PROVE  t[n + 1] - t[n] \in SampleEvery .. SampleEvery + Stride - 1
  <2>1. CASE n = Len(s)
    <3>1. s # << >> /\ t[n] = s[Len(s)] /\ t[n + 1] = now
      BY <1>1, <1>2, <1>4, <2>1
    <3> QED BY <3>1
  <2>2. CASE n # Len(s)
    <3>1. n \in 1 .. Len(s) - 1 /\ t[n] = s[n] /\ t[n + 1] = s[n + 1]
      BY <1>1, <1>4, <2>2
    <3> QED BY <3>1 DEF Spaced
  <2> QED BY <2>1, <2>2
<1>5. Spaced(t)
  BY <1>4 DEF Spaced
<1> HIDE DEF t
<1> QED BY <1>1, <1>3, <1>5 DEF t

LEMMA TimesAre == Times \subseteq Nat /\ Never \notin Times /\ Never \in Int
BY EvidenceAssumption DEF Times, Never

(* The clock that has never been set back only runs on. *)
LEMMA StrikesOn ==
  ASSUME TypeOK, NEW now \in Times, Strikes(now)
  PROVE  /\ steps' \in 0 .. MaxSteps
         /\ steps' = 0 => steps = 0 /\ now > clock /\ now <= clock + Stride
         /\ clock \in Nat /\ now \in Nat
BY TimesAre, EvidenceAssumption DEF TypeOK, Strikes

(* A closed record's instants, and an open one's. *)
LEMMA OpenIs ==
  ASSUME TypeOK, open # NoEvent
  PROVE  /\ open \in ControlEvent
         /\ open.received_at \in Times /\ open.effect \in Effect \cup {NoEffect}
         /\ open.ceilings \in Seq(Level) /\ open.samples \in Seq(Times)
BY DEF TypeOK, ControlEvent

LEMMA WrittenIs ==
  ASSUME TypeOK, NEW e \in events
  PROVE  e.released_at \in Int /\ e.received_at \in Int
<1>1. e \in ControlEvent
  BY DEF TypeOK
<1>2. e.released_at \in Times \cup {Never} /\ e.received_at \in Times
  BY <1>1 DEF ControlEvent
<1> QED BY <1>2, EvidenceAssumption DEF Times, Never

-----------------------------------------------------------------------------
(* The invariant, step by step *)

LEMMA InitIInv == Init => IInv
<1> SUFFICES ASSUME Init PROVE IInv
  OBVIOUS
<1>1. TypeOK
  BY EvidenceAssumption DEF Init, TypeOK, Times
<1>2. Past /\ Tracing /\ TraceIsGapless /\ RecordsDoNotOverlap
  BY DEF Init, Past, Tracing, TraceIsGapless, RecordsDoNotOverlap
<1> QED BY <1>1, <1>2 DEF IInv

LEMMA EffectIs ==
  ASSUME NEW netzwirksam \in Level, NEW ceiling \in Level, NEW applied \in BOOLEAN,
         NEW now \in Times
  PROVE  EffectOf(netzwirksam, ceiling, applied, now) \in Effect \cup {NoEffect}
BY DEF EffectOf, Effect

LEMMA WatchIInv ==
  ASSUME IInv, NEW now \in Times, NEW ceiling \in Level, NEW netzwirksam \in Level,
         NEW applied \in BOOLEAN, Watch(now, ceiling, netzwirksam, applied)
  PROVE  IInv'
<1> DEFINE event == IF open = NoEvent THEN Received(ceiling, now) ELSE open
           due   == SampleDue(LastSampled, now)
           effect == IF event.effect # NoEffect THEN event.effect
                     ELSE EffectOf(netzwirksam, ceiling, applied, now)
           ceilings == Told(event.ceilings, ceiling)
           samples == IF due THEN Append(event.samples, now) ELSE event.samples
<1>1. /\ clock' = now /\ events' = events
      /\ open' = [received_at |-> event.received_at, released_at |-> Never,
                  effect |-> effect, ceilings |-> ceilings, samples |-> samples]
      /\ lastSample' = IF due THEN now ELSE LastSampled
      /\ past' = Append(past, [at |-> now, ceiling |-> ceiling,
                               effective |-> applied \/ netzwirksam <= ceiling])
  BY DEF Watch
<1>2. /\ steps' \in 0 .. MaxSteps
      /\ steps' = 0 => steps = 0 /\ now > clock /\ now <= clock + Stride
      /\ clock \in Nat /\ now \in Nat
  BY StrikesOn DEF IInv, Watch
<1>3. /\ event.received_at \in Times /\ event.effect \in Effect \cup {NoEffect}
      /\ event.ceilings \in Seq(Level) /\ event.samples \in Seq(Times)
      /\ open = NoEvent => event.received_at = now /\ event.samples = << >>
      /\ open # NoEvent => event = open
  <2>1. CASE open = NoEvent
    <3>1. event.received_at = now /\ event.effect = NoEffect
          /\ event.ceilings = <<ceiling>> /\ event.samples = << >>
      BY <2>1 DEF Received
    <3>2. <<ceiling>> \in Seq(Level) /\ << >> \in Seq(Times)
      OBVIOUS
    <3> HIDE DEF event
    <3> QED BY <2>1, <3>1, <3>2
  <2>2. CASE open # NoEvent
    BY <2>2, OpenIs DEF IInv
  <2> QED BY <2>1, <2>2
<1> HIDE DEF event
<1>4. effect \in Effect \cup {NoEffect}
  BY <1>3, EffectIs
<1>5. ceilings \in Seq(Level)
  BY <1>3 DEF Told
<1>6. samples \in Seq(Times)
  BY <1>3
<1>7. LastSampled \in Times \cup {Never}
  BY DEF LastSampled, IInv, TypeOK
<1> HIDE DEF effect, ceilings
<1>8. open' \in ControlEvent /\ open' # NoEvent
      /\ open'.received_at = event.received_at /\ open'.samples = samples
  <2>1. open' \in ControlEvent
    BY <1>1, <1>3, <1>4, <1>5, <1>6 DEF ControlEvent
  <2> QED BY <1>1, <2>1, NoValueAssumption
<1>9. TypeOK'
  <2>1. past' \in Seq(TickSeen)
    <3>1. [at |-> now, ceiling |-> ceiling, effective |-> applied \/ netzwirksam <= ceiling] \in TickSeen
      BY DEF TickSeen
    <3> QED BY <1>1, <3>1 DEF IInv, TypeOK
  <2>2. lastSample' \in Times \cup {Never}
    BY <1>1, <1>7
  <2> QED BY <1>1, <1>2, <1>8, <2>1, <2>2 DEF IInv, TypeOK
<1>10. Past'
  <2>1. event.received_at \in Int
    <3>1. event.received_at \in Times
      BY <1>3
    <3>2. \A t \in Times : t \in Int
      BY TimesAre
    <3> QED BY <3>1, <3>2
  <2>3. TypeOK
    BY DEF IInv
  <2>2. \A e \in events : e.released_at \in Int
    BY <2>3, WrittenIs
  <2> QED BY <1>1, <1>2, <1>3, <1>8, <2>1, <2>2 DEF IInv, Past
<1>11. Tracing'
  <2> SUFFICES ASSUME steps' = 0
               PROVE  /\ samples # << >> /\ samples[1] = event.received_at
                      /\ Spaced(samples)
                      /\ lastSample' = samples[Len(samples)] /\ now - lastSample' < SampleEvery
    BY <1>1, <1>8 DEF Tracing
  <2>1. steps = 0 /\ now > clock /\ now <= clock + Stride
    BY <1>2
  <2>2. CASE open = NoEvent
    <3>1. LastSampled = Never /\ due
      BY <2>2 DEF LastSampled, SampleDue
    <3>2. samples = Append(<< >>, now) /\ event.received_at = now /\ lastSample' = now
      BY <1>1, <1>3, <2>2, <3>1
    <3>3. << >> \in Seq(Times) /\ Spaced(<< >>)
      BY DEF Spaced
    <3>4. /\ Append(<< >>, now) # << >> /\ Append(<< >>, now)[1] = now
          /\ Append(<< >>, now)[Len(Append(<< >>, now))] = now
          /\ Spaced(Append(<< >>, now))
      BY <3>3, SpacedOn
    <3> HIDE DEF samples
    <3> QED BY <1>2, <3>2, <3>4, EvidenceAssumption
  <2>3. CASE open # NoEvent
    <3>1. /\ event = open /\ LastSampled = lastSample
          /\ open.samples # << >> /\ open.samples[1] = open.received_at /\ Spaced(open.samples)
          /\ lastSample = open.samples[Len(open.samples)] /\ clock - lastSample < SampleEvery
      BY <1>3, <2>1, <2>3 DEF LastSampled, IInv, Tracing
    <3>2. lastSample \in Times
      <4>1. Len(open.samples) \in 1 .. Len(open.samples) /\ open.samples \in Seq(Times)
        BY <1>3, <3>1
      <4> QED BY <3>1, <4>1
    <3>3. lastSample \in Nat /\ lastSample # Never
      BY <3>2, TimesAre
    <3>4. CASE due
      <4>1. now - lastSample \in SampleEvery .. SampleEvery + Stride - 1
        BY <1>2, <2>1, <3>1, <3>3, <3>4, EvidenceAssumption DEF SampleDue
      <4>2. samples = Append(open.samples, now) /\ open.samples \in Seq(Times)
        BY <1>3, <3>1, <3>4
      <4>3. /\ samples # << >> /\ samples[Len(samples)] = now
            /\ samples[1] = open.samples[1] /\ Spaced(samples)
        BY <3>1, <4>1, <4>2, SpacedOn
      <4> HIDE DEF samples, due
      <4> QED BY <1>1, <1>2, <3>1, <3>4, <4>3, EvidenceAssumption
    <3>5. CASE ~due
      <4>1. now - lastSample < SampleEvery
        BY <1>2, <3>1, <3>3, <3>5, EvidenceAssumption DEF SampleDue
      <4>2. samples = open.samples /\ lastSample' = lastSample
        BY <1>1, <3>1, <3>5
      <4> HIDE DEF samples, due
      <4> QED BY <3>1, <4>1, <4>2
    <3> QED BY <3>4, <3>5
  <2> QED BY <2>2, <2>3
<1>12. TraceIsGapless'
  <2> SUFFICES ASSUME steps' = 0 PROVE Gapless(open', now)
    BY <1>1, <1>2 DEF IInv, TraceIsGapless
  <2>1. /\ open'.samples # << >> /\ open'.samples[1] = open'.received_at /\ Spaced(open'.samples)
        /\ lastSample' = open'.samples[Len(open'.samples)] /\ now - lastSample' < SampleEvery
    BY <1>1, <1>8, <1>11 DEF Tracing
  <2>2. lastSample' \in Int
    BY <1>9, TimesAre DEF TypeOK
  <2>3. now - lastSample' < SampleEvery + Stride
    BY <1>2, <2>1, <2>2, EvidenceAssumption
  <2> QED BY <2>1, <2>3 DEF Gapless, Spaced, Last
<1>13. RecordsDoNotOverlap'
  <2>1. ASSUME steps' = 0, NEW e \in events PROVE e.released_at < event.received_at
    <3>1. e.released_at \in Int /\ e.released_at <= clock
      BY <1>2, <2>1, WrittenIs DEF IInv, Past
    <3>2. CASE open = NoEvent
      BY <1>2, <1>3, <2>1, <3>1, <3>2
    <3>3. CASE open # NoEvent
      BY <1>2, <1>3, <2>1, <3>3 DEF IInv, RecordsDoNotOverlap
    <3> QED BY <3>2, <3>3
  <2> QED BY <1>1, <1>2, <1>8, <2>1 DEF IInv, RecordsDoNotOverlap
<1> QED BY <1>9, <1>10, <1>11, <1>12, <1>13 DEF IInv

LEMMA CloseIInv ==
  ASSUME IInv, NEW now \in Times, NEW stored \in BOOLEAN, Close(now, stored)
  PROVE  IInv'
<1> DEFINE closed == [open EXCEPT !.released_at = now]
<1>1. /\ open # NoEvent /\ clock' = now /\ open' = NoEvent /\ past' = << >>
      /\ lastSample' = lastSample /\ events' \subseteq events \cup {closed}
  BY DEF Close, PutControlEvent
<1>2. /\ steps' \in 0 .. MaxSteps
      /\ steps' = 0 => steps = 0 /\ now > clock /\ now <= clock + Stride
      /\ clock \in Nat /\ now \in Nat
  BY StrikesOn DEF IInv, Close
<1>3. /\ closed \in ControlEvent /\ closed.released_at = now
      /\ closed.received_at = open.received_at /\ closed.samples = open.samples
  BY <1>1, OpenIs DEF IInv, ControlEvent
<1> HIDE DEF closed
<1>4. TypeOK'
  BY <1>1, <1>2, <1>3 DEF IInv, TypeOK
<1>5. \A e \in events : e.released_at \in Int /\ e.received_at \in Int
  BY WrittenIs DEF IInv
<1>6. Past'
  BY <1>1, <1>2, <1>3, <1>5 DEF IInv, Past
<1>7. Tracing'
  BY <1>1 DEF Tracing
<1>8. TraceIsGapless'
  <2> SUFFICES ASSUME steps' = 0 PROVE Gapless(closed, now)
    BY <1>1, <1>2, <1>3 DEF IInv, TraceIsGapless
  <2>1. /\ open.samples # << >> /\ open.samples[1] = open.received_at /\ Spaced(open.samples)
        /\ lastSample = open.samples[Len(open.samples)] /\ clock - lastSample < SampleEvery
        /\ now <= clock + Stride
    BY <1>1, <1>2 DEF IInv, Tracing
  <2>2. lastSample \in Int
    BY TimesAre DEF IInv, TypeOK
  <2>3. now - lastSample < SampleEvery + Stride
    BY <1>2, <2>1, <2>2, EvidenceAssumption
  <2> QED BY <1>3, <2>1, <2>3 DEF Gapless, Spaced, Last
<1>9. RecordsDoNotOverlap'
  BY <1>1, <1>2, <1>3 DEF IInv, RecordsDoNotOverlap
<1> QED BY <1>4, <1>6, <1>7, <1>8, <1>9 DEF IInv

LEMMA QuietIInv ==
  ASSUME IInv, NEW now \in Times, Quiet(now)
  PROVE  IInv'
<1>1. /\ open = NoEvent /\ clock' = now /\ UNCHANGED <<open, lastSample, events, past>>
      /\ steps' \in 0 .. MaxSteps
      /\ steps' = 0 => steps = 0 /\ now > clock
      /\ clock \in Nat /\ now \in Nat
  BY StrikesOn DEF IInv, Quiet
<1>2. TypeOK'
  BY <1>1 DEF IInv, TypeOK
<1>3. \A e \in events : e.released_at \in Int
  BY WrittenIs DEF IInv
<1>4. Past'
  BY <1>1, <1>3 DEF IInv, Past
<1>5. Tracing' /\ TraceIsGapless' /\ RecordsDoNotOverlap'
  BY <1>1 DEF IInv, Tracing, TraceIsGapless, RecordsDoNotOverlap
<1> QED BY <1>2, <1>4, <1>5 DEF IInv

LEMMA PowerCutIInv == IInv /\ PowerCut => IInv'
<1> SUFFICES ASSUME IInv, PowerCut PROVE IInv'
  OBVIOUS
<1>1. open' = NoEvent /\ lastSample' = Never /\ past' = << >> /\ UNCHANGED <<clock, events, steps>>
  BY DEF PowerCut
<1>2. TypeOK'
  BY <1>1 DEF IInv, TypeOK
<1> QED BY <1>1, <1>2 DEF IInv, Past, Tracing, TraceIsGapless, RecordsDoNotOverlap

(* What is written is over, a trace has no hole, and no two records claim  *)
(* the same instant, in every state the recorder reaches.                  *)
THEOREM Invariance == Spec => []IInv
<1>1. ASSUME IInv, [Next]_vars
      PROVE  IInv'
  <2>1. CASE Next
    BY <1>1, <2>1, WatchIInv, CloseIInv, QuietIInv, PowerCutIInv DEF Next
  <2>2. CASE UNCHANGED vars
    BY <1>1, <2>2 DEF vars, IInv, TypeOK, Past, Tracing, TraceIsGapless, RecordsDoNotOverlap
  <2> QED BY <1>1, <2>1, <2>2
<1> QED BY <1>1, InitIInv, PTL DEF Spec

-----------------------------------------------------------------------------
(* The theorems *)

(* The recorder's event, its samples and what the store has are what their  *)
(* types say, for any ceilings and any ticks.                              *)
THEOREM TypeCorrect == Spec => []TypeOK
<1>1. IInv => TypeOK
  BY DEF IInv
<1> QED BY <1>1, Invariance, PTL

(* However the ticks come, a trace begins with its reduction and has no     *)
(* hole in it: SampleDue keeps the first, and each after the interval.     *)
THEOREM TracesAreGapless == Spec => []TraceIsGapless
<1>1. IInv => TraceIsGapless
  BY DEF IInv
<1> QED BY <1>1, Invariance, PTL

(* No two records claim the same instant while the clock only runs on.     *)
THEOREM RecordsStayApart == Spec => []RecordsDoNotOverlap
<1>1. IInv => RecordsDoNotOverlap
  BY DEF IInv
<1> QED BY <1>1, Invariance, PTL

-----------------------------------------------------------------------------
(* What the record says happened *)

(* The ticks up to the n-th at which the ceiling changed. *)
ChangesUpTo(ticks, n) ==
  {m \in 1 .. n : m = 1 \/ ticks[m].ceiling # ticks[m - 1].ceiling}

LEMMA ChangesAre ==
  ASSUME NEW ticks, NEW n \in Nat
  PROVE  /\ IsFiniteSet(ChangesUpTo(ticks, n))
         /\ Changes(ticks, n) = Cardinality(ChangesUpTo(ticks, n))
         /\ Changes(ticks, n) \in Nat
<1>1. IsFiniteSet(1 .. n) /\ ChangesUpTo(ticks, n) \in SUBSET (1 .. n)
  BY FS_Interval DEF ChangesUpTo
<1>2. IsFiniteSet(ChangesUpTo(ticks, n))
  BY <1>1, FS_Subset
<1>3. Changes(ticks, n) = Cardinality(ChangesUpTo(ticks, n))
  BY DEF Changes, ChangesUpTo
<1> QED BY <1>2, <1>3, FS_CardinalityType

(* There is one at the first tick, and there are no fewer later on. *)
LEMMA ChangesGrow ==
  ASSUME NEW ticks, NEW n \in Nat, NEW i \in 1 .. n
  PROVE  Changes(ticks, i) \in 1 .. Changes(ticks, n)
<1>1. i \in Nat /\ 1 \in ChangesUpTo(ticks, i) /\ ChangesUpTo(ticks, i) \in SUBSET ChangesUpTo(ticks, n)
  BY DEF ChangesUpTo
<1>2. Changes(ticks, i) # 0
  BY <1>1, ChangesAre, FS_EmptySet
<1>3. Changes(ticks, i) <= Changes(ticks, n)
  BY <1>1, ChangesAre, FS_Subset
<1> QED BY <1>1, <1>2, <1>3, ChangesAre

LEMMA ChangesOneMore ==
  ASSUME NEW ticks \in Seq(TickSeen), NEW tick \in TickSeen, NEW more, more = Append(ticks, tick)
  PROVE  /\ \A i \in 0 .. Len(ticks) : Changes(more, i) = Changes(ticks, i)
         /\ Changes(more, Len(ticks) + 1)
              = Changes(ticks, Len(ticks))
                  + (IF Len(ticks) = 0 \/ tick.ceiling # ticks[Len(ticks)].ceiling THEN 1 ELSE 0)
<1> DEFINE n == Len(ticks)
<1>1. n \in Nat /\ more[n + 1] = tick /\ \A i \in 1 .. n : more[i] = ticks[i]
  OBVIOUS
<1> HIDE DEF n
<1>2. ASSUME NEW i \in 0 .. n PROVE Changes(more, i) = Changes(ticks, i)
  <2>1. \A m \in 1 .. i : m \in 1 .. n /\ (m = 1 \/ m - 1 \in 1 .. n)
    BY <1>1
  <2>2. ChangesUpTo(more, i) = ChangesUpTo(ticks, i)
    BY <1>1, <2>1 DEF ChangesUpTo
  <2> QED BY <1>1, <2>2, ChangesAre
<1>3. n + 1 \notin ChangesUpTo(more, n) /\ n \in Nat /\ n + 1 \in Nat
  BY <1>1 DEF ChangesUpTo
<1>4. 1 .. n + 1 = (1 .. n) \cup {n + 1} /\ (n + 1) - 1 = n /\ (n + 1 = 1 <=> n = 0)
  BY <1>1
<1>5. CASE n = 0 \/ tick.ceiling # ticks[n].ceiling
  <2>1. n # 0 => n \in 1 .. n
    BY <1>1
  <2>2. ChangesUpTo(more, n + 1) = ChangesUpTo(more, n) \cup {n + 1}
    BY <1>1, <1>4, <1>5, <2>1 DEF ChangesUpTo
  <2>3. Changes(more, n + 1) = Changes(more, n) + 1
    BY <1>3, <2>2, ChangesAre, FS_AddElement
  <2>4. Changes(more, n) = Changes(ticks, n)
    BY <1>1, <1>2
  <2> QED BY <1>2, <1>5, <2>3, <2>4 DEF n
<1>6. CASE ~(n = 0 \/ tick.ceiling # ticks[n].ceiling)
  <2>1. n \in 1 .. n
    BY <1>1, <1>6
  <2>2. ChangesUpTo(more, n + 1) = ChangesUpTo(more, n)
    BY <1>1, <1>4, <1>6, <2>1 DEF ChangesUpTo
  <2>3. Changes(more, n + 1) = Changes(ticks, n)
    BY <1>1, <1>2, <1>3, <2>2, ChangesAre
  <2>4. Changes(ticks, n) \in Nat
    BY <1>1, ChangesAre
  <2> QED BY <1>2, <1>6, <2>3, <2>4 DEF n
<1> QED BY <1>5, <1>6

(* What is open has a tick behind it and what is not has none. *)
RecordInv == /\ open = NoEvent <=> Len(past) = 0
             /\ RecordIsTrue

LEMMA WatchRecord ==
  ASSUME TypeOK, RecordInv, NEW now \in Times, NEW ceiling \in Level, NEW netzwirksam \in Level,
         NEW applied \in BOOLEAN, Watch(now, ceiling, netzwirksam, applied), TypeOK'
  PROVE  RecordInv'
<1> DEFINE event == IF open = NoEvent THEN Received(ceiling, now) ELSE open
           due   == SampleDue(LastSampled, now)
           effect == IF event.effect # NoEffect THEN event.effect
                     ELSE EffectOf(netzwirksam, ceiling, applied, now)
           samples == IF due THEN Append(event.samples, now) ELSE event.samples
           tick == [at |-> now, ceiling |-> ceiling, effective |-> applied \/ netzwirksam <= ceiling]
           n == Len(past)
<1>1. /\ open' = [received_at |-> event.received_at, released_at |-> Never,
                  effect |-> effect, ceilings |-> Told(event.ceilings, ceiling),
                  samples |-> samples]
      /\ past' = Append(past, tick)
  BY DEF Watch
<1>2. open'.effect = effect /\ open'.ceilings = Told(event.ceilings, ceiling) /\ open' # NoEvent
  <2>1. open'.effect = effect /\ open'.ceilings = Told(event.ceilings, ceiling)
    BY <1>1
  <2>2. open' # NoEvent
    <3>1. event.received_at \in Times
      BY OpenIs DEF Received
    <3>2. event.samples \in Seq(Times) /\ event.ceilings \in Seq(Level)
          /\ event.effect \in Effect \cup {NoEffect}
      <4>1. CASE open = NoEvent
        <5>1. event.ceilings = <<ceiling>> /\ event.samples = << >> /\ event.effect = NoEffect
          BY <4>1 DEF Received
        <5>2. <<ceiling>> \in Seq(Level) /\ << >> \in Seq(Times)
          OBVIOUS
        <5> HIDE DEF event
        <5> QED BY <5>1, <5>2
      <4>2. CASE open # NoEvent
        BY <4>2, OpenIs
      <4> QED BY <4>1, <4>2
    <3> HIDE DEF event
    <3>3. samples \in Seq(Times) /\ Told(event.ceilings, ceiling) \in Seq(Level)
          /\ effect \in Effect \cup {NoEffect}
      BY <3>2, EffectIs DEF Told
    <3> HIDE DEF effect, samples
    <3>4. open' \in ControlEvent
      BY <1>1, <3>1, <3>3 DEF ControlEvent
    <3> QED BY <3>4, NoValueAssumption
  <2> QED BY <2>1, <2>2
<1>3. /\ past \in Seq(TickSeen) /\ tick \in TickSeen /\ n \in Nat
      /\ Len(past') = n + 1 /\ DOMAIN past' = 1 .. n + 1 /\ past'[n + 1] = tick
      /\ DOMAIN past = 1 .. n /\ \A i \in 1 .. n : past'[i] = past[i]
  <2>1. past \in Seq(TickSeen) /\ tick \in TickSeen
    BY DEF TypeOK, TickSeen
  <2> HIDE DEF tick
  <2> QED BY <1>1, <2>1
<1>4. tick.ceiling = ceiling /\ tick.effective = (applied \/ netzwirksam <= ceiling) /\ tick.at = now
  OBVIOUS
<1> HIDE DEF effect, samples, tick
<1>5. CeilingsAreTold'
  <2>1. /\ \A i \in 0 .. n : Changes(past', i) = Changes(past, i)
        /\ Changes(past', n + 1)
             = Changes(past, n) + (IF n = 0 \/ ceiling # past[n].ceiling THEN 1 ELSE 0)
    BY <1>1, <1>3, <1>4, ChangesOneMore
  <2>2. CASE open = NoEvent
    <3>1. n = 0 /\ event.ceilings = <<ceiling>>
      BY <2>2 DEF RecordInv, Received
    <3>2. open'.ceilings = <<ceiling>>
      <4>1. Told(<<ceiling>>, ceiling) = <<ceiling>>
        BY DEF Told, Last
      <4> QED BY <1>2, <3>1, <4>1, Zenon
    <3> HIDE DEF event
    <3>3. Changes(past', 1) = 1
      <4>1. 0 \in Nat /\ Changes(past, 0) = Cardinality(ChangesUpTo(past, 0))
            /\ ChangesUpTo(past, 0) = {}
        BY ChangesAre DEF ChangesUpTo
      <4>2. Changes(past, 0) = 0
        BY <4>1, FS_EmptySet
      <4>3. n + 1 = 1
        BY <3>1
      <4> QED BY <2>1, <3>1, <4>2, <4>3
    <3>4. \A i \in DOMAIN past' : i = 1
      BY <1>3, <3>1
    <3> QED BY <1>3, <1>4, <3>1, <3>2, <3>3, <3>4 DEF CeilingsAreTold
  <2>3. CASE open # NoEvent
    <3> DEFINE ceilings == open.ceilings
               c == Changes(past, n)
    <3>1. n \in 1 .. n /\ ceilings \in Seq(Level) /\ event.ceilings = ceilings
      BY <1>3, <2>3, OpenIs DEF RecordInv
    <3>2. Len(ceilings) = c /\ \A i \in 1 .. n : ceilings[Changes(past, i)] = past[i].ceiling
      BY <1>3, <2>3 DEF RecordInv, RecordIsTrue, CeilingsAreTold
    <3>3. \A i \in 1 .. n : Changes(past, i) \in 1 .. c /\ Changes(past', i) = Changes(past, i)
      BY <1>3, <2>1, ChangesGrow
    <3>4. ceilings[c] = past[n].ceiling /\ c \in Nat /\ c > 0
      BY <3>1, <3>2, <3>3
    <3>5. Last(ceilings) = past[n].ceiling
      BY <3>2, <3>4 DEF Last
    <3> HIDE DEF ceilings, c, event
    <3>6. CASE ceiling = past[n].ceiling
      <4>1. open'.ceilings = ceilings
        BY <1>2, <3>1, <3>5, <3>6 DEF Told
      <4>2. Changes(past', n + 1) = c
        BY <1>3, <2>1, <3>1, <3>4, <3>6 DEF c
      <4>3. ASSUME NEW i \in 1 .. n + 1 PROVE ceilings[Changes(past', i)] = past'[i].ceiling
        <5>1. i = n + 1 \/ i \in 1 .. n
          BY <1>3
        <5> QED BY <1>3, <1>4, <3>2, <3>3, <3>4, <3>6, <4>2, <5>1
      <4> QED BY <1>3, <3>2, <4>1, <4>2, <4>3 DEF CeilingsAreTold
    <3>7. CASE ceiling # past[n].ceiling
      <4>1. open'.ceilings = Append(ceilings, ceiling)
        BY <1>2, <3>1, <3>5, <3>7 DEF Told
      <4>2. Changes(past', n + 1) = c + 1
        BY <1>3, <2>1, <3>1, <3>4, <3>7 DEF c
      <4>3. /\ Len(open'.ceilings) = c + 1 /\ open'.ceilings[c + 1] = ceiling
            /\ \A k \in 1 .. c : open'.ceilings[k] = ceilings[k]
        BY <3>1, <3>2, <4>1
      <4>4. ASSUME NEW i \in 1 .. n + 1 PROVE open'.ceilings[Changes(past', i)] = past'[i].ceiling
        <5>1. i = n + 1 \/ i \in 1 .. n
          BY <1>3
        <5> QED BY <1>3, <1>4, <3>2, <3>3, <4>2, <4>3, <5>1
      <4> QED BY <1>3, <4>2, <4>3, <4>4 DEF CeilingsAreTold
    <3> QED BY <3>6, <3>7
  <2> QED BY <2>2, <2>3
<1>6. EffectIsTheFirst'
  <2>1. EffectOf(netzwirksam, ceiling, applied, now) # NoEffect <=> tick.effective
    <3>1. [at |-> now, acted |-> "commanded"] \in Effect
          /\ [at |-> now, acted |-> "already_below"] \in Effect
      BY DEF Effect
    <3>2. CASE applied \/ netzwirksam <= ceiling
      BY <1>4, <3>1, <3>2, NoValueAssumption DEF EffectOf
    <3>3. CASE ~(applied \/ netzwirksam <= ceiling)
      BY <1>4, <3>3 DEF EffectOf
    <3> QED BY <3>2, <3>3
  <2>2. tick.effective => EffectOf(netzwirksam, ceiling, applied, now).at = now
    BY <1>4 DEF EffectOf
  <2>3. CASE \E k \in 1 .. n : past[k].effective
    <3>1. open # NoEvent
      BY <1>3, <2>3 DEF RecordInv
    <3>2. PICK k \in 1 .. n : /\ past[k].effective /\ \A m \in 1 .. k - 1 : ~past[m].effective
                              /\ open.effect # NoEffect /\ open.effect.at = past[k].at
      BY <1>3, <2>3, <3>1 DEF RecordInv, RecordIsTrue, EffectIsTheFirst
    <3>3. open'.effect = open.effect
      BY <1>2, <3>1, <3>2 DEF effect
    <3>4. k \in 1 .. n + 1 /\ \A m \in 1 .. k - 1 : m \in 1 .. n
      BY <1>3
    <3> QED BY <1>3, <3>2, <3>3, <3>4 DEF EffectIsTheFirst
  <2>4. CASE \A k \in 1 .. n : ~past[k].effective
    <3>1. event.effect = NoEffect
      <4>1. CASE open = NoEvent
        BY <4>1 DEF Received
      <4>2. CASE open # NoEvent
        BY <1>3, <2>4, <4>2 DEF RecordInv, RecordIsTrue, EffectIsTheFirst
      <4> QED BY <4>1, <4>2
    <3>2. open'.effect = EffectOf(netzwirksam, ceiling, applied, now)
      BY <1>2, <3>1 DEF effect
    <3>3. CASE tick.effective
      <4>1. n + 1 \in 1 .. n + 1 /\ (n + 1) - 1 = n
        BY <1>3
      <4>2. open'.effect # NoEffect /\ open'.effect.at = past'[n + 1].at
        BY <1>3, <1>4, <2>1, <2>2, <3>2, <3>3
      <4>3. past'[n + 1].effective /\ \A m \in 1 .. (n + 1) - 1 : ~past'[m].effective
        BY <1>3, <2>4, <3>3, <4>1
      <4> QED BY <1>3, <4>1, <4>2, <4>3 DEF EffectIsTheFirst
    <3>4. CASE ~tick.effective
      <4>1. \A i \in 1 .. n + 1 : i = n + 1 \/ i \in 1 .. n
        BY <1>3
      <4>2. \A i \in 1 .. n + 1 : ~past'[i].effective
        BY <1>3, <2>4, <3>4, <4>1
      <4> QED BY <1>3, <2>1, <3>2, <3>4, <4>2 DEF EffectIsTheFirst
    <3> QED BY <3>3, <3>4
  <2> QED BY <2>3, <2>4
<1> QED BY <1>2, <1>3, <1>5, <1>6 DEF RecordInv, RecordIsTrue

LEMMA StepRecord == ASSUME TypeOK, TypeOK', RecordInv, [Next]_vars PROVE RecordInv'
<1>1. Len(<< >>) = 0
  OBVIOUS
<1>2. ASSUME NEW now \in Times, NEW ceiling \in Level, NEW netzwirksam \in Level,
             NEW applied \in BOOLEAN, Watch(now, ceiling, netzwirksam, applied)
      PROVE  RecordInv'
  BY <1>2, WatchRecord
<1>3. ASSUME NEW now \in Times, NEW stored \in BOOLEAN, Close(now, stored) PROVE RecordInv'
  BY <1>1, <1>3 DEF Close, RecordInv, RecordIsTrue, CeilingsAreTold, EffectIsTheFirst
<1>4. ASSUME NEW now \in Times, Quiet(now) PROVE RecordInv'
  BY <1>4 DEF Quiet, RecordInv, RecordIsTrue, CeilingsAreTold, EffectIsTheFirst
<1>5. CASE PowerCut
  BY <1>1, <1>5 DEF PowerCut, RecordInv, RecordIsTrue, CeilingsAreTold, EffectIsTheFirst
<1>6. CASE UNCHANGED vars
  BY <1>6 DEF vars, RecordInv, RecordIsTrue, CeilingsAreTold, EffectIsTheFirst
<1> QED BY <1>2, <1>3, <1>4, <1>5, <1>6 DEF Next

(* The record of a reduction says what happened, for any ceilings and      *)
(* however many ticks it lasts: every ceiling that was in force is told    *)
(* once and in order, and the effect is that of the first tick that had    *)
(* one.                                                                    *)
THEOREM RecordsAreTrue == Spec => []RecordIsTrue
<1>1. Init => RecordInv
  BY DEF Init, RecordInv, RecordIsTrue, CeilingsAreTold, EffectIsTheFirst
<1>2. IInv /\ IInv' /\ RecordInv /\ [Next]_vars => RecordInv'
  BY StepRecord DEF IInv
<1>3. RecordInv => RecordIsTrue
  BY DEF RecordInv
<1> QED BY <1>1, <1>2, <1>3, Invariance, PTL DEF Spec

-----------------------------------------------------------------------------
(* The guard: sums over a set *)

(* The element MapThenFoldSet takes out first.                             *)
Least(s) == CHOOSE x \in s : TRUE

(* Induction over the naturals, stated of a set and not of an operator:    *)
(* the least natural outside the set has a predecessor in it.              *)
LEMMA EveryNatural ==
  ASSUME NEW P \in SUBSET Nat, 0 \in P, \A n \in P : n + 1 \in P
  PROVE  P = Nat
<1> SUFFICES ASSUME P # Nat PROVE FALSE
  OBVIOUS
<1> DEFINE Not == Nat \ P
           R == OpToRel(<, Nat)
<1>1. Not # {} /\ Not \subseteq Nat
  OBVIOUS
<1>2. IsWellFoundedOn(R, Nat)
  BY NatLessThanWellFounded
<1>3. R = {ss \in Nat \X Nat : ss[1] < ss[2]}
  BY DEF OpToRel
<1> HIDE DEF R, Not
<1>4. PICK n \in Not : \A m \in Not : ~ (<<m, n>> \in R)
  BY <1>1, <1>2, WFMin
<1> USE DEF Not
<1>5. n # 0 /\ n - 1 \in Nat /\ n - 1 < n
  BY <1>1, <1>4
<1>6. <<n - 1, n>> \in R
  BY <1>3, <1>4, <1>5
<1>7. n - 1 \in P
  BY <1>4, <1>5, <1>6
<1> QED BY <1>4, <1>5, <1>7

(* A function on the subsets of S that goes down to a smaller subset until *)
(* there is none, as the recursive functions of Allocation do.             *)
Descends(g, S, V, smaller, step, leaf) ==
  /\ g \in [SUBSET S -> V]
  /\ \A s \in SUBSET S :
       g[s] = IF smaller[s] # s THEN step[s][g[smaller[s]]] ELSE leaf[s]

(* There is such a function, whatever is done on the way: induction on how *)
(* large the subset may be.                                                *)
LEMMA Descent ==
  ASSUME NEW S, IsFiniteSet(S), NEW V,
         NEW smaller \in [SUBSET S -> SUBSET S], \A s \in SUBSET S : smaller[s] \subseteq s,
         NEW leaf \in [SUBSET S -> V],
         NEW step \in [SUBSET S -> [V -> V]]
  PROVE  \E g : Descends(g, S, V, smaller, step, leaf)
<1> DEFINE Right(g, n) == \A s \in SUBSET S : Cardinality(s) <= n =>
             g[s] = IF smaller[s] # s THEN step[s][g[smaller[s]]] ELSE leaf[s]
           P == {n \in Nat : \E g \in [SUBSET S -> V] : Right(g, n)}
<1>1. \A s \in SUBSET S : IsFiniteSet(s) /\ Cardinality(s) \in Nat
      /\ Cardinality(smaller[s]) \in Nat
      /\ Cardinality(smaller[s]) <= Cardinality(s)
      /\ (smaller[s] # s => Cardinality(smaller[s]) < Cardinality(s))
  BY FS_Subset, FS_CardinalityType
<1>2. 0 \in P
  <2>1. ASSUME NEW s \in SUBSET S, Cardinality(s) <= 0
        PROVE  smaller[s] = s
    BY <1>1, <2>1
  <2>2. Right(leaf, 0)
    BY <2>1
  <2> QED BY <2>2
<1>3. ASSUME NEW n \in P PROVE n + 1 \in P
  <2>1. PICK g \in [SUBSET S -> V] : Right(g, n)
    BY <1>3
  <2> DEFINE h == [s \in SUBSET S |-> IF Cardinality(s) <= n THEN g[s]
                     ELSE IF smaller[s] # s THEN step[s][g[smaller[s]]] ELSE leaf[s]]
  <2>2. h \in [SUBSET S -> V]
    OBVIOUS
  <2>3. ASSUME NEW s \in SUBSET S, Cardinality(s) <= n + 1
        PROVE  h[s] = IF smaller[s] # s THEN step[s][h[smaller[s]]] ELSE leaf[s]
    <3>1. smaller[s] # s => h[smaller[s]] = g[smaller[s]]
      BY <1>1, <2>3
    <3>2. CASE Cardinality(s) <= n
      BY <3>1, <3>2, <2>1
    <3>3. CASE ~ (Cardinality(s) <= n)
      BY <3>1, <3>3
    <3> QED BY <3>2, <3>3
  <2>4. Right(h, n + 1)
    BY <2>3
  <2> HIDE DEF h, Right
  <2> QED BY <2>2, <2>4
<1>4. P = Nat
  <2> HIDE DEF P
  <2>1. P \subseteq Nat
    BY DEF P
  <2> QED BY <1>2, <1>3, <2>1, EveryNatural
<1>5. Cardinality(S) \in Nat
  BY FS_CardinalityType
<1>6. PICK g \in [SUBSET S -> V] : Right(g, Cardinality(S))
  BY <1>4, <1>5
<1>7. \A s \in SUBSET S : Cardinality(s) <= Cardinality(S)
  BY FS_Subset
<1> QED BY <1>6, <1>7 DEF Descends


(* A set of subsets that holds every one all of whose parts it holds that   *)
(* are an element smaller, holds them all.                                  *)
LEMMA EverySubset ==
  ASSUME NEW S, IsFiniteSet(S), NEW P \in SUBSET (SUBSET S),
         \A s \in SUBSET S : (\A x \in s : s \ {x} \in P) => s \in P
  PROVE  P = SUBSET S
<1> DEFINE N == {n \in Nat : \A s \in SUBSET S : Cardinality(s) = n => s \in P}
<1>1. \A s \in SUBSET S : IsFiniteSet(s) /\ Cardinality(s) \in Nat
  BY FS_Subset, FS_CardinalityType
<1>2. 0 \in N
  <2>1. \A s \in SUBSET S : Cardinality(s) = 0 => s = {}
    BY <1>1, FS_EmptySet
  <2> QED BY <2>1
<1>3. ASSUME NEW n \in N PROVE n + 1 \in N
  <2>1. ASSUME NEW s \in SUBSET S, Cardinality(s) = n + 1 PROVE s \in P
    <3>1. ASSUME NEW x \in s PROVE Cardinality(s \ {x}) = n
      <4>1. IsFiniteSet(s) /\ n \in Nat
        BY <1>1
      <4>2. Cardinality(s \ {x}) = Cardinality(s) - 1
        BY <4>1, FS_RemoveElement
      <4> QED BY <4>1, <4>2, <2>1
    <3> QED BY <1>3, <3>1
  <2> QED BY <2>1
<1>4. N = Nat
  <2>1. N \subseteq Nat
    OBVIOUS
  <2> HIDE DEF N
  <2> QED BY <1>2, <1>3, <2>1, EveryNatural
<1> QED BY <1>1, <1>4

(* A sum as the fold computes it. *)
Folds(iter, f, S) ==
  /\ iter \in [SUBSET S -> Int]
  /\ Total(f, S) = iter[S]
  /\ \A s \in SUBSET S :
       iter[s] = IF s = {} THEN 0 ELSE f[Least(s)] + iter[s \ {Least(s)}]

(* The recursive function that MapThenSumSet folds a set with exists.      *)
LEMMA Folded ==
  ASSUME NEW S, IsFiniteSet(S), NEW f, \A x \in S : f[x] \in Int
  PROVE  \E iter : Folds(iter, f, S)
<1> DEFINE iter[s \in SUBSET S] ==
        IF s = {} THEN 0
        ELSE LET x == CHOOSE x \in s : TRUE IN f[x] + iter[s \ {x}]
           smaller == [s \in SUBSET S |-> s \ {Least(s)}]
           leaf == [s \in SUBSET S |-> 0]
           step == [s \in SUBSET S |-> [v \in Int |-> IF s = {} THEN 0 ELSE f[Least(s)] + v]]
<1>0. \A s : s # {} => Least(s) \in s
  BY DEF Least
<1>1. Total(f, S) = iter[S]
  BY DEF Total, MapThenSumSet, MapThenFoldSet
<1>2. \E g : g = [s \in SUBSET S |-> IF s = {} THEN 0 ELSE f[Least(s)] + g[s \ {Least(s)}]]
  <2>1. PICK g : Descends(g, S, Int, smaller, step, leaf)
    <3>1. smaller \in [SUBSET S -> SUBSET S] /\ \A s \in SUBSET S : smaller[s] \subseteq s
      OBVIOUS
    <3>2. leaf \in [SUBSET S -> Int]
      OBVIOUS
    <3>3. step \in [SUBSET S -> [Int -> Int]]
      BY <1>0
    <3> HIDE DEF iter, smaller, leaf, step
    <3>4. DOMAIN step = SUBSET S
 BY <3>3
    <3> QED BY <3>1, <3>2, <3>3, Descent
  <2>2. ASSUME NEW s \in SUBSET S
        PROVE  g[s] = IF s = {} THEN 0 ELSE f[Least(s)] + g[s \ {Least(s)}]
    <3>1. smaller[s] = s <=> s = {}
      BY <1>0
    <3> QED BY <2>1, <3>1 DEF Descends
  <2>3. g = [s \in SUBSET S |-> IF s = {} THEN 0 ELSE f[Least(s)] + g[s \ {Least(s)}]]
    BY <2>1, <2>2 DEF Descends
  <2> QED BY <2>3
<1>3. iter = [s \in SUBSET S |-> IF s = {} THEN 0 ELSE f[Least(s)] + iter[s \ {Least(s)}]]
  BY <1>2 DEF Least
<1> HIDE DEF iter, smaller, leaf, step
<1>4. \A s \in SUBSET S :
        iter[s] = IF s = {} THEN 0 ELSE f[Least(s)] + iter[s \ {Least(s)}]
  BY <1>3
<1> DEFINE P == {s \in SUBSET S : iter[s] \in Int}
<1>5. ASSUME NEW s \in SUBSET S, \A x \in s : s \ {x} \in P PROVE s \in P
  <2>1. s # {} => f[Least(s)] \in Int /\ iter[s \ {Least(s)}] \in Int
    BY <1>0, <1>5
  <2>2. s = {} => iter[s] = 0
    BY <1>4
  <2>3. s # {} => iter[s] = f[Least(s)] + iter[s \ {Least(s)}]
    BY <1>4
  <2>4. iter[s] \in Int
    BY <2>1, <2>2, <2>3
  <2> QED BY <2>4
<1>6. P = SUBSET S
  <2>1. P \subseteq SUBSET S
    OBVIOUS
  <2> HIDE DEF P
  <2> QED BY <1>5, <2>1, EverySubset
<1>7. iter \in [SUBSET S -> Int]
  <2>1. \A s \in SUBSET S : iter[s] \in Int
    BY <1>6
  <2>2. DOMAIN iter = SUBSET S /\ iter = [s \in SUBSET S |-> iter[s]]
    BY <1>3
  <2> QED BY <2>1, <2>2
<1> QED BY <1>1, <1>4, <1>7 DEF Folds

(* Nothing sums to zero.                                                   *)
LEMMA TotalEmpty == ASSUME NEW f PROVE Total(f, {}) = 0
<1>1. IsFiniteSet({}) /\ {} \in SUBSET {} /\ \A x \in {} : f[x] \in Int
  BY FS_EmptySet
<1>2. PICK iter : Folds(iter, f, {})
  BY <1>1, Folded
<1> QED BY <1>1, <1>2 DEF Folds

(* A sum is the element taken out first and the sum over the others.       *)
LEMMA TotalLeast ==
  ASSUME NEW S, IsFiniteSet(S), NEW f, \A x \in S : f[x] \in Int, S # {}
  PROVE  /\ Least(S) \in S
         /\ Total(f, S) = f[Least(S)] + Total(f, S \ {Least(S)})
         /\ Total(f, S) \in Int /\ Total(f, S \ {Least(S)}) \in Int
<1> DEFINE R == S \ {Least(S)}
<1>0. \A s : s # {} => Least(s) \in s
  BY DEF Least
<1>1. IsFiniteSet(R) /\ R \in SUBSET S /\ S \in SUBSET S /\ R \in SUBSET R
  BY FS_Subset
<1>2. PICK iter : Folds(iter, f, S)
  BY Folded
<1>3. PICK less : Folds(less, f, R)
  <2>1. \A x \in R : f[x] \in Int
    OBVIOUS
  <2> HIDE DEF R
  <2> QED BY <1>1, <2>1, Folded
<1> DEFINE P == {s \in SUBSET R : iter[s] = less[s]}
<1>4. ASSUME NEW s \in SUBSET R, \A x \in s : s \ {x} \in P PROVE s \in P
  <2>1. CASE s = {}
    BY <2>1, <1>2, <1>3 DEF Folds
  <2>2. CASE s # {}
    <3>1. Least(s) \in s /\ s \in SUBSET S
      BY <2>2, <1>0
    <3>2. iter[s \ {Least(s)}] = less[s \ {Least(s)}]
      BY <3>1, <1>4
    <3>3. iter[s] = f[Least(s)] + iter[s \ {Least(s)}]
      BY <3>1, <2>2, <1>2 DEF Folds
    <3>4. less[s] = f[Least(s)] + less[s \ {Least(s)}]
      BY <3>1, <2>2, <1>3 DEF Folds
    <3> QED BY <3>2, <3>3, <3>4
  <2> QED BY <2>1, <2>2
<1>5. P = SUBSET R
  <2>1. P \subseteq SUBSET R
    OBVIOUS
  <2> HIDE DEF P, R
  <2> QED BY <1>1, <1>4, <2>1, EverySubset
<1>6. iter[R] = less[R]
  BY <1>1, <1>5
<1>7. iter[S] = f[Least(S)] + iter[R]
  BY <1>1, <1>2 DEF Folds
<1>8. iter[S] \in Int /\ iter[R] \in Int
  BY <1>1, <1>2 DEF Folds
<1> QED BY <1>0, <1>2, <1>3, <1>6, <1>7, <1>8 DEF Folds

(* A sum is what any one of its elements adds and the sum over the others.  *)
LEMMA TotalInt ==
  ASSUME NEW S, IsFiniteSet(S), NEW f, \A x \in S : f[x] \in Int
  PROVE  Total(f, S) \in Int
<1>1. CASE S = {}
  BY <1>1, TotalEmpty
<1>2. CASE S # {}
  BY <1>2, TotalLeast
<1> QED BY <1>1, <1>2

(* The same of any element.                                                *)
LEMMA TotalRemove ==
  ASSUME NEW S, IsFiniteSet(S), NEW f, \A x \in S : f[x] \in Int, NEW x \in S
  PROVE  Total(f, S) = f[x] + Total(f, S \ {x})
<1> DEFINE P == {s \in SUBSET S : \A y \in s : Total(f, s) = f[y] + Total(f, s \ {y})}
<1>0. \A s \in SUBSET S : IsFiniteSet(s) /\ Total(f, s) \in Int
  BY FS_Subset, TotalInt
<1>1. ASSUME NEW s \in SUBSET S, \A y \in s : s \ {y} \in P PROVE s \in P
  <2> SUFFICES ASSUME NEW y \in s PROVE Total(f, s) = f[y] + Total(f, s \ {y})
    OBVIOUS
  <2> DEFINE l == Least(s)
  <2>1. l \in s /\ Total(f, s) = f[l] + Total(f, s \ {l})
    BY <1>0, TotalLeast
  <2> HIDE DEF l
  <2>2. CASE y = l
    BY <2>1, <2>2
  <2>3. CASE y # l
    <3>1. Total(f, s \ {l}) = f[y] + Total(f, (s \ {l}) \ {y})
      BY <1>1, <2>1, <2>3
    <3>2. Total(f, s \ {y}) = f[l] + Total(f, (s \ {y}) \ {l})
      BY <1>1, <2>1, <2>3
    <3>3. (s \ {y}) \ {l} = (s \ {l}) \ {y}
      OBVIOUS
    <3>4. Total(f, s \ {y}) = f[l] + Total(f, (s \ {l}) \ {y})
      BY <3>2, <3>3
    <3>5. f[y] \in Int /\ f[l] \in Int /\ Total(f, (s \ {l}) \ {y}) \in Int
      BY <1>0, <2>1
    <3> HIDE DEF P
    <3> QED BY <2>1, <3>1, <3>4, <3>5
  <2> QED BY <2>2, <2>3
<1>2. P = SUBSET S
  <2>1. P \subseteq SUBSET S
    OBVIOUS
  <2> HIDE DEF P
  <2> QED BY <1>1, <2>1, EverySubset
<1> QED BY <1>2

-----------------------------------------------------------------------------
(* What a sum over a set is *)

LEMMA TotalAtMost ==
  ASSUME NEW S, IsFiniteSet(S), NEW f, NEW g,
         \A x \in S : f[x] \in Int /\ g[x] \in Int /\ f[x] <= g[x]
  PROVE  Total(f, S) <= Total(g, S)
<1> DEFINE P == {s \in SUBSET S : Total(f, s) <= Total(g, s)}
<1>0. \A s \in SUBSET S : IsFiniteSet(s) /\ Total(f, s) \in Int /\ Total(g, s) \in Int
  BY FS_Subset, TotalInt
<1>1. ASSUME NEW s \in SUBSET S, \A x \in s : s \ {x} \in P PROVE s \in P
  <2>1. CASE s = {}
    BY <2>1, TotalEmpty
  <2>2. CASE s # {}
    <3>1. PICK x \in s : TRUE
      BY <2>2
    <3>2. /\ Total(f, s) = f[x] + Total(f, s \ {x})
          /\ Total(g, s) = g[x] + Total(g, s \ {x})
      BY <1>0, TotalRemove
    <3>3. Total(f, s \ {x}) <= Total(g, s \ {x})
      BY <1>1
    <3>4. /\ f[x] \in Int /\ g[x] \in Int /\ f[x] <= g[x]
          /\ Total(f, s \ {x}) \in Int /\ Total(g, s \ {x}) \in Int
      BY <1>0
    <3>5. Total(f, s) <= Total(g, s)
      <4> HIDE DEF P
      <4> QED BY <3>2, <3>3, <3>4
    <3> QED BY <3>5
  <2> QED BY <2>1, <2>2
<1>2. P = SUBSET S
  <2>1. P \subseteq SUBSET S
    OBVIOUS
  <2> HIDE DEF P
  <2> QED BY <1>1, <2>1, EverySubset
<1> QED BY <1>2

(* Equal summands, equal sums.                                             *)
LEMMA TotalSame ==
  ASSUME NEW S, IsFiniteSet(S), NEW f, NEW g,
         \A x \in S : f[x] \in Int /\ g[x] = f[x]
  PROVE  Total(f, S) = Total(g, S)
<1>1. Total(f, S) <= Total(g, S) /\ Total(g, S) <= Total(f, S)
  BY TotalAtMost
<1>2. Total(f, S) \in Int /\ Total(g, S) \in Int
  BY TotalInt
<1> QED BY <1>1, <1>2

(* A sum in proportion to another. *)
LEMMA TotalScaled ==
  ASSUME NEW S, IsFiniteSet(S), NEW f, NEW g, NEW r \in Int, NEW l \in Int,
         \A x \in S : f[x] \in Int /\ g[x] \in Int /\ f[x] * r <= g[x] * l
  PROVE  Total(f, S) * r <= Total(g, S) * l
<1> DEFINE P == {s \in SUBSET S : Total(f, s) * r <= Total(g, s) * l}
<1>0. \A s \in SUBSET S : IsFiniteSet(s) /\ Total(f, s) \in Int /\ Total(g, s) \in Int
  BY FS_Subset, TotalInt
<1>1. ASSUME NEW s \in SUBSET S, \A x \in s : s \ {x} \in P PROVE s \in P
  <2>1. CASE s = {}
    BY <2>1, TotalEmpty
  <2>2. CASE s # {}
    <3>1. PICK x \in s : TRUE
      BY <2>2
    <3>2. /\ Total(f, s) = f[x] + Total(f, s \ {x})
          /\ Total(g, s) = g[x] + Total(g, s \ {x})
      BY <1>0, TotalRemove
    <3>3. Total(f, s \ {x}) * r <= Total(g, s \ {x}) * l
      BY <1>1
    <3>4. /\ f[x] \in Int /\ g[x] \in Int /\ f[x] * r <= g[x] * l
          /\ Total(f, s \ {x}) \in Int /\ Total(g, s \ {x}) \in Int
      BY <1>0
    <3>5. \A a, b, c, d \in Int : a * r <= b * l /\ c * r <= d * l
            => (a + c) * r <= (b + d) * l
      OBVIOUS
    <3>6. Total(f, s) * r <= Total(g, s) * l
      <4> HIDE DEF P
      <4> QED BY <3>2, <3>3, <3>4, <3>5
    <3> QED BY <3>6
  <2> QED BY <2>1, <2>2
<1>2. P = SUBSET S
  <2>1. P \subseteq SUBSET S
    OBVIOUS
  <2> HIDE DEF P
  <2> QED BY <1>1, <2>1, EverySubset
<1> QED BY <1>2

(* The sum of sums.                                                        *)
LEMMA TotalPlus ==
  ASSUME NEW S, IsFiniteSet(S), NEW f, NEW g, NEW h,
         \A x \in S : f[x] \in Int /\ g[x] \in Int /\ h[x] = f[x] + g[x]
  PROVE  Total(h, S) = Total(f, S) + Total(g, S)
<1> DEFINE P == {s \in SUBSET S : Total(h, s) = Total(f, s) + Total(g, s)}
<1>0. \A s \in SUBSET S : /\ IsFiniteSet(s) /\ Total(f, s) \in Int
                          /\ Total(g, s) \in Int /\ Total(h, s) \in Int
  BY FS_Subset, TotalInt
<1>1. ASSUME NEW s \in SUBSET S, \A x \in s : s \ {x} \in P PROVE s \in P
  <2>1. CASE s = {}
    BY <2>1, TotalEmpty
  <2>2. CASE s # {}
    <3>1. PICK x \in s : TRUE
      BY <2>2
    <3>2. /\ Total(f, s) = f[x] + Total(f, s \ {x})
          /\ Total(g, s) = g[x] + Total(g, s \ {x})
          /\ Total(h, s) = h[x] + Total(h, s \ {x})
      <4>1. \A y \in s : f[y] \in Int /\ g[y] \in Int /\ h[y] \in Int
        OBVIOUS
      <4> QED BY <1>0, <4>1, TotalRemove
    <3>3. Total(h, s \ {x}) = Total(f, s \ {x}) + Total(g, s \ {x})
      BY <1>1
    <3>4. /\ f[x] \in Int /\ g[x] \in Int /\ h[x] = f[x] + g[x]
          /\ Total(f, s \ {x}) \in Int /\ Total(g, s \ {x}) \in Int
      BY <1>0
    <3>5. Total(h, s) = Total(f, s) + Total(g, s)
      <4> HIDE DEF P
      <4> QED BY <3>2, <3>3, <3>4
    <3> QED BY <3>5
  <2> QED BY <2>1, <2>2
<1>2. P = SUBSET S
  <2>1. P \subseteq SUBSET S
    OBVIOUS
  <2> HIDE DEF P
  <2> QED BY <1>1, <2>1, EverySubset
<1> QED BY <1>2

(* A sum over a set is the sum over a part of it and over what is left.    *)
LEMMA TotalSplit ==
  ASSUME NEW S, IsFiniteSet(S), NEW f, \A x \in S : f[x] \in Int, NEW T \in SUBSET S
  PROVE  Total(f, S) = Total(f, T) + Total(f, S \ T)
<1> DEFINE P == {s \in SUBSET S : Total(f, S) = Total(f, s) + Total(f, S \ s)}
<1>0. \A s \in SUBSET S : IsFiniteSet(s) /\ Total(f, s) \in Int
  BY FS_Subset, TotalInt
<1>1. ASSUME NEW s \in SUBSET S, \A x \in s : s \ {x} \in P PROVE s \in P
  <2>1. CASE s = {}
    <3>1. S \ s = S /\ Total(f, s) = 0 /\ Total(f, S) \in Int
      BY <2>1, <1>0, TotalEmpty
    <3>2. Total(f, S \ s) = Total(f, S)
      BY <3>1
    <3> QED BY <3>1, <3>2
  <2>2. CASE s # {}
    <3>1. PICK x \in s : TRUE
      BY <2>2
    <3> DEFINE a == s \ {x}
               b == S \ s
               c == S \ a
    <3>2. Total(f, s) = f[x] + Total(f, a)
      BY <1>0, TotalRemove
    <3>3. Total(f, c) = f[x] + Total(f, c \ {x})
      BY <1>0, TotalRemove
    <3>4. Total(f, c \ {x}) = Total(f, b)
      <4>1. c \ {x} = b
        OBVIOUS
      <4> HIDE DEF b, c
      <4> QED BY <4>1
    <3>5. Total(f, S) = Total(f, a) + Total(f, c)
      BY <1>1
    <3>6. f[x] \in Int /\ Total(f, a) \in Int /\ Total(f, b) \in Int
      BY <1>0
    <3>7. Total(f, S) = Total(f, s) + Total(f, b)
      <4> HIDE DEF P, a, b, c
      <4> QED BY <3>2, <3>3, <3>4, <3>5, <3>6
    <3> QED BY <3>7
  <2> QED BY <2>1, <2>2
<1>2. P = SUBSET S
  <2>1. P \subseteq SUBSET S
    OBVIOUS
  <2> HIDE DEF P
  <2> QED BY <1>1, <2>1, EverySubset
<1> QED BY <1>2

(* A sum of naturals is one, and no less than any part of it.              *)
LEMMA TotalNat ==
  ASSUME NEW S, IsFiniteSet(S), NEW f, \A x \in S : f[x] \in Nat
  PROVE  /\ Total(f, S) \in Nat
         /\ \A x \in S : f[x] <= Total(f, S)
         /\ \A T \in SUBSET S : Total(f, T) \in Nat /\ Total(f, T) <= Total(f, S)
<1> DEFINE zero == [x \in S |-> 0]
<1>1. ASSUME NEW T \in SUBSET S PROVE IsFiniteSet(T) /\ Total(f, T) \in Nat
  <2>1. IsFiniteSet(T) /\ Total(f, T) \in Int
    <3>1. IsFiniteSet(T) /\ \A x \in T : f[x] \in Int
      BY FS_Subset
    <3> QED BY <3>1, TotalInt
  <2>2. Total(zero, T) * 1 <= Total(f, T) * 1
    <3>1. \A x \in T : zero[x] \in Int /\ f[x] \in Int /\ zero[x] <= f[x]
      OBVIOUS
    <3> HIDE DEF zero
    <3>2. Total(zero, T) \in Int
      BY <2>1, <3>1, TotalInt
    <3> QED BY <2>1, <3>1, <3>2, TotalAtMost
  <2>3. Total(zero, T) = 0
    <3>1. \A x \in T : zero[x] \in Int /\ zero[x] * 1 <= zero[x] * 0 /\ zero[x] * 1 >= zero[x] * 0
      OBVIOUS
    <3>2. \A x \in T : zero[x] = zero[x] + zero[x]
      OBVIOUS
    <3> HIDE DEF zero
    <3>3. Total(zero, T) = Total(zero, T) + Total(zero, T)
      BY <2>1, <3>1, <3>2, TotalPlus
    <3>4. Total(zero, T) \in Int
      BY <2>1, <3>1, TotalInt
    <3> QED BY <3>3, <3>4
  <2> QED BY <2>1, <2>2, <2>3
<1>2. ASSUME NEW T \in SUBSET S PROVE Total(f, T) <= Total(f, S)
  <2>1. Total(f, S) = Total(f, T) + Total(f, S \ T)
    BY TotalSplit
  <2>2. Total(f, S \ T) \in Nat /\ Total(f, T) \in Nat
    BY <1>1
  <2> QED BY <2>1, <2>2
<1>3. ASSUME NEW x \in S PROVE f[x] <= Total(f, S)
  <2>1. Total(f, S) = f[x] + Total(f, S \ {x})
    BY TotalRemove
  <2>2. Total(f, S \ {x}) \in Nat /\ f[x] \in Nat
    BY <1>1
  <2> QED BY <2>1, <2>2
<1> QED BY <1>1, <1>2, <1>3

-----------------------------------------------------------------------------
(* Arithmetic *)

LEMMA AtLeastZeroIs ==
  ASSUME NEW p \in Int
  PROVE  AtLeastZero(p) \in Nat /\ AtLeastZero(p) = IF p >= 0 THEN p ELSE 0
BY DEF AtLeastZero, Max

(* The lesser of two.                                                      *)
LEMMA MinIs ==
  ASSUME NEW p \in Int, NEW q \in Int
  PROVE  Min({p, q}) = IF p <= q THEN p ELSE q
BY DEF Min

(* The greater of two.                                                     *)
LEMMA MaxIs ==
  ASSUME NEW p \in Int, NEW q \in Int
  PROVE  Max({p, q}) = IF p >= q THEN p ELSE q
BY DEF Max

(* A quotient is rounded down.                                             *)
LEMMA RoundedDown ==
  ASSUME NEW p \in Nat, NEW q \in Nat \ {0}
  PROVE  p \div q \in Nat /\ (p \div q) * q <= p
OBVIOUS

(* A positive factor may be cancelled.                                     *)
LEMMA Cancel ==
  ASSUME NEW p \in Int, NEW q \in Int, NEW r \in Nat \ {0}
  PROVE  /\ p * r <= q * r => p <= q
         /\ p * r < q * r => p < q
OBVIOUS

(* A product of naturals is one.                                           *)
LEMMA Product == ASSUME NEW p \in Nat, NEW q \in Nat PROVE p * q \in Nat
OBVIOUS

(* A table is the function it was made of.                                 *)
LEMMA TableIs == ASSUME NEW f PROVE Table(f) = f
BY DEF Table

(* A set of subsets that holds every one all of whose proper parts it      *)
(* holds, holds them all.                                                  *)
LEMMA EveryPart ==
  ASSUME NEW S, IsFiniteSet(S), NEW P \in SUBSET (SUBSET S),
         \A s \in SUBSET S : (\A t \in SUBSET s : t # s => t \in P) => s \in P
  PROVE  P = SUBSET S
<1> DEFINE Q == {s \in SUBSET S : \A t \in SUBSET s : t \in P}
<1>1. ASSUME NEW s \in SUBSET S, \A x \in s : s \ {x} \in Q PROVE s \in Q
  <2>1. ASSUME NEW t \in SUBSET s, t # s PROVE t \in P
    <3>1. PICK x \in s : x \notin t
      BY <2>1
    <3>2. s \ {x} \in Q /\ t \in SUBSET (s \ {x})
      BY <1>1, <3>1
    <3> QED BY <3>2
  <2>2. s \in P
    BY <2>1
  <2> QED BY <2>1, <2>2
<1>2. Q = SUBSET S
  <2>1. Q \subseteq SUBSET S
    OBVIOUS
  <2> HIDE DEF Q
  <2> QED BY <1>1, <2>1, EverySubset
<1> QED BY <1>2

-----------------------------------------------------------------------------
(* Allocation: nobody is granted less than nothing, and all together no     *)
(* more than the budget.                                                    *)

Claims(ids) == [ids -> [want : Nat, floor : Nat, weight : Nat \ {0}]]

(* A claim is its floor and the room above it.                             *)
LEMMA ClaimsAre ==
  ASSUME NEW ids, IsFiniteSet(ids), NEW claims \in Claims(ids)
  PROVE  /\ DOMAIN claims = ids
         /\ \A d \in ids :
              /\ claims[d].want \in Nat /\ claims[d].floor \in Nat
              /\ claims[d].weight \in Nat \ {0}
              /\ Wanted(claims)[d] = claims[d].want
              /\ WeightOf(claims)[d] = claims[d].weight
              /\ Floor(claims)[d] \in Nat /\ Room(claims)[d] \in Nat
              /\ claims[d].want = Floor(claims)[d] + Room(claims)[d]
         /\ TotalWant(claims) \in Nat /\ TotalFloor(claims) \in Nat
<1>1. DOMAIN claims = ids
  BY DEF Claims
<1>2. ASSUME NEW d \in ids
      PROVE  /\ claims[d].want \in Nat /\ claims[d].floor \in Nat
             /\ claims[d].weight \in Nat \ {0}
             /\ Wanted(claims)[d] = claims[d].want
             /\ WeightOf(claims)[d] = claims[d].weight
             /\ Floor(claims)[d] \in Nat /\ Room(claims)[d] \in Nat
             /\ claims[d].want = Floor(claims)[d] + Room(claims)[d]
  <2>1. claims[d] \in [want : Nat, floor : Nat, weight : Nat \ {0}]
    BY DEF Claims
  <2>2. /\ claims[d].want \in Nat /\ claims[d].floor \in Nat
        /\ claims[d].weight \in Nat \ {0}
    BY <2>1
  <2>3. Floor(claims)[d] = Min({claims[d].floor, claims[d].want})
    BY <1>1 DEF Floor
  <2>4. Min({claims[d].floor, claims[d].want})
          = IF claims[d].floor <= claims[d].want THEN claims[d].floor ELSE claims[d].want
    BY <2>2, MinIs
  <2>5. Room(claims)[d] = claims[d].want - Floor(claims)[d]
    BY <1>1 DEF Room
  <2>6. Wanted(claims)[d] = claims[d].want /\ WeightOf(claims)[d] = claims[d].weight
    BY <1>1 DEF Wanted, WeightOf
  <2> QED BY <2>2, <2>3, <2>4, <2>5, <2>6
<1>3. TotalWant(claims) \in Nat
  <2>1. \A d \in ids : Wanted(claims)[d] \in Nat
    BY <1>2
  <2> QED BY <1>1, <2>1, TotalNat DEF TotalWant
<1>4. TotalFloor(claims) \in Nat
  <2>1. \A d \in ids : Floor(claims)[d] \in Nat
    BY <1>2
  <2> QED BY <1>1, <2>1, TotalNat DEF TotalFloor
<1> QED BY <1>1, <1>2, <1>3, <1>4

(* What is left to pour, and over what weight.                             *)
LEMMA LeftIs ==
  ASSUME NEW ids, IsFiniteSet(ids), NEW claims \in Claims(ids), NEW budget \in Nat,
         NEW active \in SUBSET ids
  PROVE  /\ Left(budget, claims, active) \in Int
         /\ TotalWeight(claims, active) \in Nat
         /\ active # {} => TotalWeight(claims, active) > 0
<1>1. \A d \in ids : Room(claims)[d] \in Nat /\ WeightOf(claims)[d] \in Nat \ {0}
  BY ClaimsAre
<1>2. TotalFloor(claims) \in Nat /\ DOMAIN claims = ids
  BY ClaimsAre
<1>3. IsFiniteSet(active) /\ IsFiniteSet(ids \ active)
  BY FS_Subset
<1>4. Total(Room(claims), ids \ active) \in Int
  BY <1>1, <1>3, TotalInt
<1>5. /\ Total(WeightOf(claims), active) \in Nat
      /\ \A d \in active : WeightOf(claims)[d] <= Total(WeightOf(claims), active)
  BY <1>1, <1>3, TotalNat
<1>6. active # {} => Total(WeightOf(claims), active) > 0
  BY <1>1, <1>5
<1> QED BY <1>2, <1>4, <1>5, <1>6 DEF Left, TotalWeight

(* What is poured over those that are left, with the wants of those that   *)
(* are not, fits the budget.                                               *)
LEMMA PourFits ==
  ASSUME NEW ids, IsFiniteSet(ids), NEW claims \in Claims(ids), NEW budget \in Nat,
         NEW active \in SUBSET ids, Left(budget, claims, active) >= 0
  PROVE  /\ Pour(budget, claims, active) \in [ids -> Nat]
         /\ Total(Pour(budget, claims, active), ids) <= budget
<1> DEFINE p     == Pour(budget, claims, active)
           floor == Floor(claims)
           room  == Room(claims)
           left  == Left(budget, claims, active)
           total == TotalWeight(claims, active)
           part  == [d \in ids |-> (left * claims[d].weight) \div total]
           rest1 == ids \ active
<1>1. /\ DOMAIN claims = ids /\ left \in Nat /\ total \in Nat
      /\ active # {} => total \in Nat \ {0}
      /\ IsFiniteSet(active) /\ IsFiniteSet(rest1)
  BY ClaimsAre, LeftIs, FS_Subset
<1>2. \A d \in ids : /\ floor[d] \in Nat /\ room[d] \in Nat
                     /\ claims[d].want = floor[d] + room[d]
                     /\ claims[d].weight \in Nat \ {0}
                     /\ WeightOf(claims)[d] = claims[d].weight
  BY ClaimsAre
<1>3. \A d \in ids : p[d] = IF d \in active THEN floor[d] + part[d] ELSE claims[d].want
  BY <1>1 DEF Pour
<1>4. ASSUME NEW d \in active
      PROVE  part[d] \in Nat /\ part[d] * total <= WeightOf(claims)[d] * left
  <2>1. left * claims[d].weight \in Nat /\ total \in Nat \ {0}
    BY <1>1, <1>2, Product
  <2>2. part[d] = (left * claims[d].weight) \div total
    OBVIOUS
  <2>3. part[d] \in Nat /\ part[d] * total <= left * claims[d].weight
    <3> HIDE DEF left, total, part
    <3> QED BY <2>1, <2>2, RoundedDown
  <2>4. left * claims[d].weight = WeightOf(claims)[d] * left
    BY <1>1, <1>2
  <2> QED BY <2>3, <2>4
<1> HIDE DEF floor, room, left, total, part, p
<1>5. Total(part, active) \in Nat /\ Total(part, active) <= left
  <2>1. Total(part, active) \in Nat
    BY <1>1, <1>4, TotalNat
  <2>2. CASE active = {}
    BY <1>1, <2>2, TotalEmpty
  <2>3. CASE active # {}
    <3>1. Total(part, active) * total <= Total(WeightOf(claims), active) * left
      <4>1. \A d \in active : part[d] \in Int /\ WeightOf(claims)[d] \in Int
        BY <1>2, <1>4
      <4> QED BY <1>1, <1>4, <4>1, TotalScaled
    <3>2. Total(WeightOf(claims), active) = total
      BY DEF total, TotalWeight
    <3>3. Total(part, active) * total <= left * total
      BY <1>1, <3>1, <3>2
    <3> QED BY <1>1, <2>1, <2>3, <3>3, Cancel
  <2> QED BY <2>1, <2>2, <2>3
<1>6. \A d \in ids : p[d] \in Nat
  BY <1>2, <1>3, <1>4
<1>7. Total(p, active) = Total(floor, active) + Total(part, active)
  <2>1. \A d \in active : floor[d] \in Int /\ part[d] \in Int /\ p[d] = floor[d] + part[d]
    BY <1>2, <1>3, <1>4
  <2> QED BY <1>1, <2>1, TotalPlus
<1>8. Total(p, rest1) = Total(floor, rest1) + Total(room, rest1)
  <2>1. \A d \in rest1 : floor[d] \in Int /\ room[d] \in Int /\ p[d] = floor[d] + room[d]
    BY <1>2, <1>3
  <2> QED BY <1>1, <2>1, TotalPlus
<1>9. Total(p, ids) = Total(p, active) + Total(p, rest1)
  BY <1>6, TotalSplit
<1>10. Total(floor, ids) = Total(floor, active) + Total(floor, rest1)
  BY <1>2, TotalSplit
<1>11. left = budget - Total(floor, ids) - Total(room, rest1)
  BY <1>1 DEF left, Left, TotalFloor, floor, room
<1>12. /\ Total(floor, active) \in Int /\ Total(floor, rest1) \in Int
       /\ Total(room, rest1) \in Int
  BY <1>1, <1>2, TotalInt
<1>13. Total(p, ids) <= budget
  <2> HIDE DEF rest1
  <2> QED BY <1>1, <1>5, <1>7, <1>8, <1>9, <1>10, <1>11, <1>12
<1>14. p \in [ids -> Nat]
  <2>1. p = [d \in ids |-> p[d]]
    BY <1>1 DEF p, Pour
  <2> QED BY <1>6, <2>1
<1> QED BY <1>13, <1>14 DEF p

(* To fill those that would be satisfied never takes more than there is.   *)
LEMMA SatisfiedLeaves ==
  ASSUME NEW ids, IsFiniteSet(ids), NEW claims \in Claims(ids), NEW budget \in Nat,
         NEW active \in SUBSET ids, Left(budget, claims, active) >= 0
  PROVE  Left(budget, claims, active \ Satisfied(budget, claims, active)) >= 0
<1> DEFINE full  == Satisfied(budget, claims, active)
           room  == Room(claims)
           left  == Left(budget, claims, active)
           total == TotalWeight(claims, active)
           rest1 == ids \ active
           rest2 == ids \ (active \ full)
<1>1. full \subseteq active
  BY DEF Satisfied, Tightest
<1>2. CASE full = {}
  <2>1. active \ full = active
    BY <1>2
  <2>2. Left(budget, claims, active \ full) = left
    <3> HIDE DEF full
    <3> QED BY <2>1
  <2> QED BY <2>2
<1>3. CASE full # {}
  <2>1. /\ DOMAIN claims = ids /\ left \in Nat /\ total \in Nat \ {0}
        /\ IsFiniteSet(active) /\ IsFiniteSet(full) /\ IsFiniteSet(rest1) /\ IsFiniteSet(rest2)
    <3>1. active # {}
      BY <1>1, <1>3
    <3>2. full \in SUBSET ids /\ rest1 \in SUBSET ids /\ rest2 \in SUBSET ids
      BY <1>1
    <3> HIDE DEF full, rest1, rest2
    <3> QED BY <3>1, <3>2, ClaimsAre, LeftIs, FS_Subset
  <2>2. \A d \in ids : /\ room[d] \in Nat /\ claims[d].weight \in Nat \ {0}
                       /\ WeightOf(claims)[d] = claims[d].weight
    BY ClaimsAre
  <2>3. ASSUME NEW d \in full
        PROVE  /\ room[d] \in Int /\ WeightOf(claims)[d] \in Nat
               /\ room[d] * total <= WeightOf(claims)[d] * left
    <3>1. room[d] * total < left * claims[d].weight /\ d \in ids
      BY <1>1 DEF Satisfied
    <3>2. room[d] \in Int /\ claims[d].weight \in Nat /\ WeightOf(claims)[d] = claims[d].weight
      BY <3>1, <2>2
    <3> HIDE DEF full, room, left, total
    <3> QED BY <2>1, <3>1, <3>2
  <2> HIDE DEF full, room, left, total
  <2>4. Total(room, full) * total <= Total(WeightOf(claims), full) * left
    BY <2>1, <2>3, TotalScaled
  <2>5. Total(WeightOf(claims), full) \in Nat /\ Total(WeightOf(claims), full) <= total
    <3>1. \A d \in active : WeightOf(claims)[d] \in Nat
      BY <2>2
    <3>2. Total(WeightOf(claims), active) = total
      BY DEF total, TotalWeight
    <3> QED BY <1>1, <2>1, <3>1, <3>2, TotalNat
  <2>6. Total(room, full) \in Int
    BY <2>1, <2>3, TotalInt
  <2>7. Total(room, full) * total <= left * total
    <3>1. \A a, b, c \in Nat : a <= b => a * c <= b * c
      OBVIOUS
    <3>2. Total(WeightOf(claims), full) * left <= total * left
      BY <2>1, <2>5, <3>1
    <3>3. total * left = left * total
      BY <2>1
    <3>4. /\ Total(room, full) * total \in Int /\ left * total \in Int
          /\ Total(WeightOf(claims), full) * left \in Int
      BY <2>1, <2>5, <2>6
    <3> QED BY <2>4, <3>2, <3>3, <3>4
  <2>8. Total(room, full) <= left
    BY <2>1, <2>6, <2>7, Cancel
  <2>9. Total(room, rest2) = Total(room, rest1) + Total(room, full)
    <3>1. rest1 \in SUBSET rest2
      OBVIOUS
    <3>2. rest2 \ rest1 = full
      BY <1>1
    <3>3. \A d \in rest2 : room[d] \in Int
      BY <2>2
    <3>4. Total(room, rest2) = Total(room, rest1) + Total(room, rest2 \ rest1)
      <4> HIDE DEF rest1, rest2
      <4> QED BY <2>1, <3>1, <3>3, TotalSplit
    <3> HIDE DEF rest1, rest2
    <3> QED BY <3>2, <3>4
  <2>10. left = budget - TotalFloor(claims) - Total(room, rest1)
    BY <2>1 DEF left, Left, room
  <2>11. Left(budget, claims, active \ full) = budget - TotalFloor(claims) - Total(room, rest2)
    BY <2>1 DEF Left, room
  <2>12. Total(room, rest1) \in Int /\ TotalFloor(claims) \in Nat
    <3>1. \A d \in rest1 : room[d] \in Int
      BY <2>2
    <3> QED BY <2>1, <3>1, TotalInt, ClaimsAre
  <2>13. Left(budget, claims, active \ full) >= 0
    <3> HIDE DEF rest1, rest2
    <3> QED BY <2>6, <2>8, <2>9, <2>10, <2>11, <2>12
  <2> QED BY <2>13 DEF full
<1> QED BY <1>2, <1>3

(* The recursive function of Poured.                                       *)
Pours(pour, budget, claims) ==
  pour = [active \in SUBSET DOMAIN claims |->
            IF Satisfied(budget, claims, active) # {}
            THEN pour[active \ Satisfied(budget, claims, active)]
            ELSE Table(Pour(budget, claims, active))]

(* It exists, so that Poured is what it computes.                          *)
LEMMA PouredIs ==
  ASSUME NEW ids, IsFiniteSet(ids), NEW claims \in Claims(ids), NEW budget
  PROVE  \E pour : Pours(pour, budget, claims) /\ Poured(budget, claims) = pour[ids]
<1> DEFINE pour[active \in SUBSET DOMAIN claims] ==
             IF Satisfied(budget, claims, active) # {}
             THEN pour[active \ Satisfied(budget, claims, active)]
             ELSE Table(Pour(budget, claims, active))
           smaller == [a \in SUBSET ids |-> a \ Satisfied(budget, claims, a)]
           leaf == [a \in SUBSET ids |-> Pour(budget, claims, a)]
           V    == {leaf[a] : a \in SUBSET ids}
           step == [a \in SUBSET ids |-> [v \in V |-> v]]
<1>1. DOMAIN claims = ids
  BY DEF Claims
<1>2. Poured(budget, claims) = pour[ids]
  BY <1>1 DEF Poured
<1>3. \A a : Satisfied(budget, claims, a) \subseteq a
  BY DEF Satisfied, Tightest
<1>4. PICK g : Descends(g, ids, V, smaller, step, leaf)
  <2>1. smaller \in [SUBSET ids -> SUBSET ids] /\ \A a \in SUBSET ids : smaller[a] \subseteq a
    OBVIOUS
  <2>2. leaf \in [SUBSET ids -> V]
    OBVIOUS
  <2>3. step \in [SUBSET ids -> [V -> V]]
    OBVIOUS
  <2> HIDE DEF pour, smaller, leaf, step, V
  <2> QED BY <2>1, <2>2, <2>3, Descent
<1>5. ASSUME NEW a \in SUBSET ids
      PROVE  g[a] = IF Satisfied(budget, claims, a) # {}
                    THEN g[a \ Satisfied(budget, claims, a)]
                    ELSE Table(Pour(budget, claims, a))
  <2>1. smaller[a] = a \ Satisfied(budget, claims, a) /\ smaller[a] \in SUBSET ids
    OBVIOUS
  <2>2. smaller[a] # a <=> Satisfied(budget, claims, a) # {}
    BY <1>3, <2>1
  <2>3. g[a] = IF smaller[a] # a THEN step[a][g[smaller[a]]] ELSE leaf[a]
    BY <1>4 DEF Descends
  <2>4. g[smaller[a]] \in V
    <3> HIDE DEF V, smaller, leaf, step
    <3> QED BY <1>4, <2>1 DEF Descends
  <2>5. step[a][g[smaller[a]]] = g[smaller[a]]
    <3> HIDE DEF V, smaller, leaf
    <3> QED BY <2>4
  <2>6. leaf[a] = Table(Pour(budget, claims, a))
    BY TableIs
  <2> HIDE DEF pour, smaller, leaf, step, V
  <2> QED BY <2>1, <2>2, <2>3, <2>5, <2>6
<1>6. g = [a \in SUBSET ids |-> g[a]]
  BY <1>4 DEF Descends
<1>7. Pours(g, budget, claims)
  <2> HIDE DEF pour, smaller, leaf, step, V
  <2> QED BY <1>1, <1>5, <1>6 DEF Pours
<1>8. \E f : f = [active \in SUBSET DOMAIN claims |->
            IF Satisfied(budget, claims, active) # {}
            THEN f[active \ Satisfied(budget, claims, active)]
            ELSE Table(Pour(budget, claims, active))]
  BY <1>7 DEF Pours
<1>9. Pours(pour, budget, claims)
  BY <1>8 DEF Pours
<1> HIDE DEF pour
<1> QED BY <1>2, <1>9

(* The water filling fits the budget wherever the floors do.               *)
LEMMA PouredFits ==
  ASSUME NEW ids, IsFiniteSet(ids), NEW claims \in Claims(ids), NEW budget \in Nat,
         TotalFloor(claims) <= budget
  PROVE  Poured(budget, claims) \in [ids -> Nat] /\ Total(Poured(budget, claims), ids) <= budget
<1>1. PICK pour : Pours(pour, budget, claims) /\ Poured(budget, claims) = pour[ids]
  BY PouredIs
<1>2. DOMAIN claims = ids
  BY DEF Claims
<1> DEFINE P == {s \in SUBSET ids : Left(budget, claims, s) >= 0
                    => pour[s] \in [ids -> Nat] /\ Total(pour[s], ids) <= budget}
<1>3. ASSUME NEW s \in SUBSET ids, \A t \in SUBSET s : t # s => t \in P
      PROVE  s \in P
  <2> SUFFICES ASSUME Left(budget, claims, s) >= 0
               PROVE  pour[s] \in [ids -> Nat] /\ Total(pour[s], ids) <= budget
    OBVIOUS
  <2>1. CASE Satisfied(budget, claims, s) # {}
    <3> DEFINE t == s \ Satisfied(budget, claims, s)
    <3>1. pour[s] = pour[t]
      BY <1>1, <1>2, <2>1 DEF Pours
    <3>2. t \in SUBSET s /\ t # s
      BY <2>1 DEF Satisfied, Tightest
    <3>3. Left(budget, claims, t) >= 0
      BY SatisfiedLeaves
    <3> HIDE DEF t
    <3> QED BY <1>3, <3>1, <3>2, <3>3
  <2>2. CASE Satisfied(budget, claims, s) = {}
    <3>1. pour[s] = Pour(budget, claims, s)
      BY <1>1, <1>2, <2>2, TableIs DEF Pours
    <3> QED BY <3>1, PourFits
  <2> QED BY <2>1, <2>2
<1>4. P = SUBSET ids
  <2>1. P \subseteq SUBSET ids
    OBVIOUS
  <2> HIDE DEF P
  <2> QED BY <1>3, <2>1, EveryPart
<1>5. Left(budget, claims, ids) >= 0
  <2>1. ids \ ids = {}
    OBVIOUS
  <2>2. Total(Room(claims), ids \ ids) = 0
    BY <2>1, TotalEmpty
  <2>3. TotalFloor(claims) \in Nat
    BY ClaimsAre
  <2> QED BY <1>2, <2>2, <2>3 DEF Left
<1> QED BY <1>1, <1>4, <1>5

(* allocate: nobody is granted less than nothing, and all of them together *)
(* no more than the budget.                                                *)
THEOREM AllocateFits ==
  ASSUME NEW ids, IsFiniteSet(ids), NEW claims \in Claims(ids), NEW budget \in Int
  PROVE  /\ Allocate(budget, claims) \in [ids -> Nat]
         /\ Total(Allocate(budget, claims), ids) <= AtLeastZero(budget)
<1> DEFINE most == AtLeastZero(budget)
           grants == Allocate(budget, claims)
           floors == TotalFloor(claims)
<1>1. most \in Nat /\ DOMAIN claims = ids /\ floors \in Nat /\ TotalWant(claims) \in Nat
  BY AtLeastZeroIs, ClaimsAre
<1>2. \A d \in ids : /\ claims[d].want \in Nat /\ Floor(claims)[d] \in Nat
                     /\ Wanted(claims)[d] = claims[d].want
  BY ClaimsAre
<1>3. CASE TotalWant(claims) <= most
  <2>1. grants = [d \in ids |-> claims[d].want]
    BY <1>1, <1>3 DEF Allocate
  <2>2. grants \in [ids -> Nat]
    BY <1>2, <2>1
  <2>3. Total(grants, ids) = Total(Wanted(claims), ids)
    <3>1. \A d \in ids : grants[d] \in Int /\ Wanted(claims)[d] = grants[d]
      BY <1>2, <2>1
    <3> HIDE DEF grants
    <3> QED BY <3>1, TotalSame
  <2> QED BY <1>1, <1>3, <2>2, <2>3 DEF TotalWant
<1>4. CASE ~ (TotalWant(claims) <= most) /\ floors > most
  <2>1. grants = [d \in ids |-> (Floor(claims)[d] * most) \div floors]
    BY <1>1, <1>4 DEF Allocate
  <2>2. ASSUME NEW d \in ids
        PROVE  grants[d] \in Nat /\ grants[d] * floors <= Floor(claims)[d] * most
    <3>1. Floor(claims)[d] * most \in Nat /\ floors \in Nat \ {0}
      BY <1>1, <1>2, <1>4, Product
    <3>2. grants[d] = (Floor(claims)[d] * most) \div floors
      BY <2>1
    <3> HIDE DEF grants, most, floors
    <3> QED BY <3>1, <3>2, RoundedDown
  <2>3. grants \in [ids -> Nat]
    BY <2>1, <2>2
  <2>4. Total(grants, ids) \in Nat
    BY <2>2, TotalNat
  <2>5. Total(grants, ids) * floors <= Total(Floor(claims), ids) * most
    <3>1. \A d \in ids : /\ grants[d] \in Int /\ Floor(claims)[d] \in Int
                         /\ grants[d] * floors <= Floor(claims)[d] * most
      BY <1>2, <2>2
    <3> HIDE DEF grants, most, floors
    <3> QED BY <1>1, <3>1, TotalScaled
  <2>6. Total(Floor(claims), ids) = floors
    BY <1>1 DEF TotalFloor
  <2>7. Total(grants, ids) <= most
    <3>1. Total(grants, ids) * floors <= most * floors /\ floors \in Nat \ {0}
      <4> HIDE DEF grants, most, floors
      <4> QED BY <1>1, <1>4, <2>4, <2>5, <2>6
    <3> HIDE DEF grants, most, floors
    <3> QED BY <1>1, <2>4, <3>1, Cancel
  <2> QED BY <2>3, <2>7
<1>5. CASE ~ (TotalWant(claims) <= most) /\ ~ (floors > most)
  <2>1. grants = Poured(most, claims)
    BY <1>5 DEF Allocate
  <2>2. floors <= most
    BY <1>1, <1>5
  <2> QED BY <1>1, <2>1, <2>2, PouredFits
<1> QED BY <1>3, <1>4, <1>5

(* The claims of those that are left are claims.                           *)
LEMMA OnlyAre ==
  ASSUME NEW ids, IsFiniteSet(ids), NEW claims \in Claims(ids), NEW active \in SUBSET ids
  PROVE  Only(claims, active) \in Claims(active) /\ IsFiniteSet(active)
BY TableIs, FS_Subset DEF Only, Claims

(* What those that are left share fits the budget.                         *)
LEMMA SharedFits ==
  ASSUME NEW ids, IsFiniteSet(ids), NEW claims \in Claims(ids), NEW budget \in Int,
         NEW active \in SUBSET ids
  PROVE  /\ SharedBy(budget, claims, active) \in [ids -> Nat]
         /\ Total(SharedBy(budget, claims, active), ids) <= AtLeastZero(budget)
<1> DEFINE grants == Allocate(budget, Only(claims, active))
           all    == SharedBy(budget, claims, active)
<1>1. /\ grants \in [active -> Nat] /\ IsFiniteSet(active)
      /\ Total(grants, active) <= AtLeastZero(budget)
  BY OnlyAre, AllocateFits
<1>2. all = [d \in ids |-> IF d \in active THEN grants[d] ELSE 0]
  BY DEF SharedBy, Claims
<1> HIDE DEF grants, all
<1>3. all \in [ids -> Nat]
  BY <1>1, <1>2
<1>4. Total(all, active) = Total(grants, active)
  <2>1. \A d \in active : all[d] \in Int /\ grants[d] = all[d]
    BY <1>1, <1>2
  <2> QED BY <1>1, <2>1, TotalSame
<1>5. Total(all, ids \ active) = 0
  <2>1. \A d \in ids \ active : all[d] \in Int /\ all[d] * 1 <= all[d] * 0 /\ all[d] = 0
    BY <1>2
  <2>2. IsFiniteSet(ids \ active)
    BY FS_Subset
  <2>3. Total(all, ids \ active) * 1 <= Total(all, ids \ active) * 0
    BY <2>1, <2>2, TotalScaled
  <2>4. Total(all, ids \ active) \in Nat
    <3>1. \A d \in ids \ active : all[d] \in Nat
      BY <1>3
    <3> QED BY <3>1, <2>2, TotalNat
  <2> QED BY <2>3, <2>4
<1>6. Total(all, ids) = Total(all, active) + Total(all, ids \ active)
  BY <1>3, TotalSplit
<1>7. Total(grants, active) \in Nat
  BY <1>1, TotalNat
<1>8. Total(all, ids) <= AtLeastZero(budget)
  BY <1>1, <1>4, <1>5, <1>6, <1>7
<1> QED BY <1>3, <1>8 DEF all

(* The order in which devices are shed is total and transitive.            *)
LEMMA ShedFirstOrders ==
  ASSUME NEW ids \in SUBSET Devices, NEW claims \in Claims(ids),
         NEW a \in ids, NEW b \in ids, NEW c \in ids
  PROVE  /\ ShedFirst(claims, a, a)
         /\ ShedFirst(claims, a, b) \/ ShedFirst(claims, b, a)
         /\ ShedFirst(claims, a, b) /\ ShedFirst(claims, b, c) => ShedFirst(claims, a, c)
<1>1. \A d \in ids : /\ claims[d].weight \in Nat /\ claims[d].floor \in Nat
                     /\ Order[d] \in Int
  BY AllocationAssumption DEF Claims
<1> QED BY <1>1 DEF ShedFirst

(* There is one to shed wherever one has a floor.                          *)
LEMMA ShedIs ==
  ASSUME NEW ids \in SUBSET Devices, IsFiniteSet(ids), NEW claims \in Claims(ids),
         NEW active \in SUBSET ids, \E d \in active : claims[d].floor > 0
  PROVE  Shed(claims, active) \in active
<1> DEFINE holding == {d \in active : claims[d].floor > 0}
           P == {s \in SUBSET holding :
                   s # {} => \E d \in s : \A e \in s : ShedFirst(claims, d, e)}
<1>1. IsFiniteSet(holding) /\ holding \in SUBSET ids /\ holding # {}
  BY FS_Subset
<1>2. ASSUME NEW s \in SUBSET holding, \A x \in s : s \ {x} \in P PROVE s \in P
  <2> SUFFICES ASSUME s # {} PROVE \E d \in s : \A e \in s : ShedFirst(claims, d, e)
    OBVIOUS
  <2>1. PICK x \in s : TRUE
    OBVIOUS
  <2>2. \A d, e, f \in s :
          /\ ShedFirst(claims, d, d)
          /\ ShedFirst(claims, d, e) \/ ShedFirst(claims, e, d)
          /\ ShedFirst(claims, d, e) /\ ShedFirst(claims, e, f) => ShedFirst(claims, d, f)
    BY ShedFirstOrders
  <2>3. CASE s \ {x} = {}
    BY <2>1, <2>2, <2>3
  <2>4. CASE s \ {x} # {}
    <3>1. PICK m \in s \ {x} : \A e \in s \ {x} : ShedFirst(claims, m, e)
      BY <1>2, <2>1, <2>4
    <3> HIDE DEF holding, P
    <3>2. CASE ShedFirst(claims, m, x)
      BY <3>1, <3>2
    <3>3. CASE ShedFirst(claims, x, m)
      <4>1. \A e \in s : ShedFirst(claims, x, e)
        BY <2>2, <3>1, <3>3
      <4> QED BY <4>1, <2>1
    <3> QED BY <2>2, <3>1, <3>2, <3>3
  <2> QED BY <2>3, <2>4
<1>3. P = SUBSET holding
  <2>1. P \subseteq SUBSET holding
    OBVIOUS
  <2> HIDE DEF P, holding
  <2> QED BY <1>1, <1>2, <2>1, EverySubset
<1>4. holding \in P
  BY <1>3
<1>5. \E d \in holding : \A e \in holding : ShedFirst(claims, d, e)
  BY <1>1, <1>4
<1>6. Shed(claims, active) \in holding
  BY <1>5 DEF Shed
<1> QED BY <1>6

(* Floors that do not fit are not all zero.                                *)
LEMMA SomebodyHolds ==
  ASSUME NEW ids \in SUBSET Devices, IsFiniteSet(ids), NEW claims \in Claims(ids),
         NEW budget \in Int, NEW active \in SUBSET ids,
         FloorsDoNotFit(budget, Only(claims, active))
  PROVE  \E d \in active : claims[d].floor > 0
<1> DEFINE only == Only(claims, active)
<1>1. only \in Claims(active) /\ IsFiniteSet(active) /\ \A d \in active : only[d] = claims[d]
  BY OnlyAre, TableIs DEF Only
<1>2. TotalFloor(only) > 0
  BY AtLeastZeroIs, <1>1, ClaimsAre DEF FloorsDoNotFit
<1> HIDE DEF only
<1> SUFFICES ASSUME \A d \in active : ~ (claims[d].floor > 0) PROVE FALSE
  OBVIOUS
<1>3. \A d \in active : Floor(only)[d] \in Nat /\ Floor(only)[d] = 0
  <2> SUFFICES ASSUME NEW d \in active PROVE Floor(only)[d] \in Nat /\ Floor(only)[d] = 0
    OBVIOUS
  <2>1. only[d].floor \in Nat /\ only[d].want \in Nat /\ Floor(only)[d] \in Nat
        /\ DOMAIN only = active
    BY <1>1, ClaimsAre
  <2>2. only[d].floor = 0
    BY <1>1, <2>1
  <2>3. Floor(only)[d] = Min({only[d].floor, only[d].want})
    BY <2>1 DEF Floor
  <2> QED BY <2>1, <2>2, <2>3, MinIs
<1>4. Total(Floor(only), active) * 1 <= Total(Floor(only), active) * 0
  <2>1. \A d \in active : /\ Floor(only)[d] \in Int
                          /\ Floor(only)[d] * 1 <= Floor(only)[d] * 0
    BY <1>3
  <2> QED BY <1>1, <2>1, TotalScaled
<1>5. TotalFloor(only) = Total(Floor(only), active) /\ TotalFloor(only) \in Nat
  BY <1>1, ClaimsAre DEF TotalFloor
<1> QED BY <1>2, <1>4, <1>5

(* The condition of the loop.                                              *)
Sheds(budget, claims, active) ==
  Cardinality(active) > 1 /\ FloorsDoNotFit(budget, Only(claims, active))

(* allocate_indivisible: whoever is switched off, what the others are      *)
(* granted fits the budget.                                                *)
THEOREM AllocateIndivisibleFits ==
  ASSUME NEW ids \in SUBSET Devices, IsFiniteSet(ids), NEW claims \in Claims(ids),
         NEW budget \in Int
  PROVE  /\ AllocateIndivisible(budget, claims) \in [ids -> Nat]
         /\ Total(AllocateIndivisible(budget, claims), ids) <= AtLeastZero(budget)
<1> DEFINE shared[active \in SUBSET DOMAIN claims] ==
             IF Cardinality(active) > 1 /\ FloorsDoNotFit(budget, Only(claims, active))
             THEN shared[active \ {Shed(claims, active)}]
             ELSE Table(SharedBy(budget, claims, active))
           smaller == [a \in SUBSET ids |->
                         IF Sheds(budget, claims, a) THEN a \ {Shed(claims, a)} ELSE a]
           leaf == [a \in SUBSET ids |-> SharedBy(budget, claims, a)]
           V    == {f \in [ids -> Nat] : Total(f, ids) <= AtLeastZero(budget)}
           step == [a \in SUBSET ids |-> [v \in V |-> v]]
<1>1. DOMAIN claims = ids
  BY DEF Claims
<1>2. AllocateIndivisible(budget, claims) = shared[ids]
  BY <1>1 DEF AllocateIndivisible
<1>3. \A a \in SUBSET ids : Sheds(budget, claims, a) => Shed(claims, a) \in a
  BY SomebodyHolds, ShedIs DEF Sheds
<1>4. PICK g : Descends(g, ids, V, smaller, step, leaf)
  <2>1. smaller \in [SUBSET ids -> SUBSET ids] /\ \A a \in SUBSET ids : smaller[a] \subseteq a
    OBVIOUS
  <2>2. leaf \in [SUBSET ids -> V]
    BY SharedFits
  <2>3. step \in [SUBSET ids -> [V -> V]]
    OBVIOUS
  <2> HIDE DEF shared, smaller, leaf, step, V
  <2> QED BY <2>1, <2>2, <2>3, Descent
<1>5. ASSUME NEW a \in SUBSET ids
      PROVE  g[a] = IF Sheds(budget, claims, a) THEN g[a \ {Shed(claims, a)}]
                    ELSE Table(SharedBy(budget, claims, a))
  <2>1. /\ smaller[a] = IF Sheds(budget, claims, a) THEN a \ {Shed(claims, a)} ELSE a
        /\ smaller[a] \in SUBSET ids
    OBVIOUS
  <2>2. smaller[a] # a <=> Sheds(budget, claims, a)
    BY <1>3, <2>1
  <2>3. g[a] = IF smaller[a] # a THEN step[a][g[smaller[a]]] ELSE leaf[a]
    BY <1>4 DEF Descends
  <2>4. g[smaller[a]] \in V
    <3> HIDE DEF V, smaller, leaf, step
    <3> QED BY <1>4, <2>1 DEF Descends
  <2>5. step[a][g[smaller[a]]] = g[smaller[a]]
    <3> HIDE DEF V, smaller, leaf
    <3> QED BY <2>4
  <2>6. leaf[a] = Table(SharedBy(budget, claims, a))
    BY TableIs
  <2> HIDE DEF shared, smaller, leaf, step, V
  <2> QED BY <2>1, <2>2, <2>3, <2>5, <2>6
<1>6. g = [a \in SUBSET ids |-> g[a]] /\ \A a \in SUBSET ids : g[a] \in V
  <2> HIDE DEF V, smaller, leaf, step
  <2> QED BY <1>4 DEF Descends
<1>7. g = [active \in SUBSET DOMAIN claims |->
             IF Cardinality(active) > 1 /\ FloorsDoNotFit(budget, Only(claims, active))
             THEN g[active \ {Shed(claims, active)}]
             ELSE Table(SharedBy(budget, claims, active))]
  <2> HIDE DEF shared, smaller, leaf, step, V
  <2> QED BY <1>1, <1>5, <1>6 DEF Sheds
<1>8. shared = [active \in SUBSET DOMAIN claims |->
             IF Cardinality(active) > 1 /\ FloorsDoNotFit(budget, Only(claims, active))
             THEN shared[active \ {Shed(claims, active)}]
             ELSE Table(SharedBy(budget, claims, active))]
  <2> HIDE DEF smaller, leaf, step, V
  <2> QED BY <1>7
<1> DEFINE P == {s \in SUBSET ids : shared[s] = g[s]}
<1> HIDE DEF shared
<1>9. ASSUME NEW s \in SUBSET ids, \A x \in s : s \ {x} \in P PROVE s \in P
  <2>1. CASE Sheds(budget, claims, s)
    <3>1. Shed(claims, s) \in s
      BY <1>3, <2>1
    <3>2. shared[s \ {Shed(claims, s)}] = g[s \ {Shed(claims, s)}]
      BY <1>9, <3>1
    <3>3. shared[s] = shared[s \ {Shed(claims, s)}]
      BY <1>1, <1>8, <2>1 DEF Sheds
    <3>4. g[s] = g[s \ {Shed(claims, s)}]
      BY <1>5, <2>1
    <3> QED BY <3>2, <3>3, <3>4
  <2>2. CASE ~ Sheds(budget, claims, s)
    <3>1. shared[s] = Table(SharedBy(budget, claims, s))
      BY <1>1, <1>8, <2>2 DEF Sheds
    <3>2. g[s] = Table(SharedBy(budget, claims, s))
      BY <1>5, <2>2
    <3> QED BY <3>1, <3>2
  <2> QED BY <2>1, <2>2
<1>10. P = SUBSET ids
  <2>1. P \subseteq SUBSET ids
    OBVIOUS
  <2> HIDE DEF P
  <2> QED BY <1>9, <2>1, EverySubset
<1>11. shared[ids] \in V
  BY <1>6, <1>10
<1> QED BY <1>2, <1>11

-----------------------------------------------------------------------------
(* What the rule promises beyond the budget *)

(* What the module of the code claims of the rule, "weighted max-min fair": *)
(* a claim gets its floor at least and its want at most; whoever is short   *)
(* has been filled above its floor, per weight, as high as anybody, but for *)
(* the one unit that is rounded away; and less than a unit per claim is     *)
(* left in the budget.                                                      *)
Fair(budget, claims, grants) ==
    /\ \A d \in DOMAIN claims :
         Floor(claims)[d] <= grants[d] /\ grants[d] <= claims[d].want
    /\ \A d, e \in DOMAIN claims : grants[d] < claims[d].want =>
         (grants[e] - Floor(claims)[e]) * claims[d].weight
           <= (grants[d] + 1 - Floor(claims)[d]) * claims[e].weight
    /\ budget < Total(grants, DOMAIN claims) + Cardinality(DOMAIN claims)

(* Fractions compare as they do: p / q at most r / s at most t / u.         *)
LEMMA Between ==
  ASSUME NEW p \in Int, NEW q \in Nat \ {0}, NEW r \in Int, NEW s \in Nat, NEW t \in Int,
         NEW u \in Nat, p * q <= r * s, r * u <= t * q
  PROVE  p * u <= t * s
<1>1. (p * q) * u <= (r * s) * u
  <2>1. \A a, b \in Int, c \in Nat : a <= b => a * c <= b * c
    OBVIOUS
  <2>2. p * q \in Int /\ r * s \in Int
    OBVIOUS
  <2> QED BY <2>1, <2>2
<1>2. (r * u) * s <= (t * q) * s
  <2>1. \A a, b \in Int, c \in Nat : a <= b => a * c <= b * c
    OBVIOUS
  <2>2. r * u \in Int /\ t * q \in Int
    OBVIOUS
  <2> QED BY <2>1, <2>2
<1>3. (p * u) * q = (p * q) * u /\ (r * s) * u = (r * u) * s /\ (t * q) * s = (t * s) * q
  OBVIOUS
<1>4. p * u \in Int /\ t * s \in Int
  OBVIOUS
<1>5. (p * u) * q <= (t * s) * q
  <2>1. /\ (p * q) * u \in Int /\ (r * s) * u \in Int /\ (r * u) * s \in Int
        /\ (t * q) * s \in Int
    OBVIOUS
  <2> QED BY <1>1, <1>2, <1>3, <2>1
<1> QED BY <1>4, <1>5, Cancel

(* A quotient falls short by less than one. *)
LEMMA RoundedUp ==
  ASSUME NEW p \in Nat, NEW q \in Nat \ {0}
  PROVE  p < (p \div q + 1) * q
OBVIOUS

(* A finite set that is ordered has a least element. *)
LEMMA LeastOf ==
  ASSUME NEW S, IsFiniteSet(S), S # {}, NEW R,
         \A d, e \in S : <<d, e>> \in R \/ <<e, d>> \in R,
         \A d, e, f \in S : <<d, e>> \in R /\ <<e, f>> \in R => <<d, f>> \in R
  PROVE  \E d \in S : \A e \in S : <<d, e>> \in R
<1> DEFINE P == {s \in SUBSET S : s # {} => \E d \in s : \A e \in s : <<d, e>> \in R}
<1>1. ASSUME NEW s \in SUBSET S, \A x \in s : s \ {x} \in P PROVE s \in P
  <2> SUFFICES ASSUME s # {} PROVE \E d \in s : \A e \in s : <<d, e>> \in R
    OBVIOUS
  <2>1. PICK x \in s : TRUE
    OBVIOUS
  <2>2. CASE s \ {x} = {}
    BY <2>1, <2>2
  <2>3. CASE s \ {x} # {}
    <3>1. PICK m \in s \ {x} : \A e \in s \ {x} : <<m, e>> \in R
      BY <1>1, <2>1, <2>3
    <3> HIDE DEF P
    <3>2. CASE <<m, x>> \in R
      BY <3>1, <3>2
    <3>3. CASE <<x, m>> \in R
      <4>1. \A e \in s : <<x, e>> \in R
        BY <2>1, <3>1, <3>3
      <4> QED BY <4>1, <2>1
    <3> QED BY <2>1, <3>1, <3>2, <3>3
  <2> QED BY <2>2, <2>3
<1>2. P = SUBSET S
  <2>1. P \subseteq SUBSET S
    OBVIOUS
  <2> HIDE DEF P
  <2> QED BY <1>1, <2>1, EverySubset
<1>3. S \in P
  BY <1>2
<1> QED BY <1>3

(* Counting is summing ones. *)
LEMMA TotalOnes ==
  ASSUME NEW S, IsFiniteSet(S), NEW f, \A x \in S : f[x] = 1
  PROVE  Total(f, S) = Cardinality(S)
<1> DEFINE P == {s \in SUBSET S : Total(f, s) = Cardinality(s)}
<1>1. ASSUME NEW s \in SUBSET S, \A x \in s : s \ {x} \in P PROVE s \in P
  <2>1. IsFiniteSet(s)
    BY FS_Subset
  <2>2. CASE s = {}
    BY <2>2, TotalEmpty, FS_EmptySet
  <2>3. CASE s # {}
    <3>1. PICK x \in s : TRUE
      BY <2>3
    <3>2. Total(f, s) = f[x] + Total(f, s \ {x})
      BY <2>1, <3>1, TotalRemove
    <3>3. Cardinality(s \ {x}) = Cardinality(s) - 1 /\ Cardinality(s) \in Nat
      BY <2>1, <3>1, FS_RemoveElement, FS_CardinalityType
    <3>4. Total(f, s \ {x}) = Cardinality(s \ {x})
      BY <1>1, <3>1
    <3> QED BY <3>1, <3>2, <3>3, <3>4
  <2> QED BY <2>2, <2>3
<1>2. P = SUBSET S
  <2>1. P \subseteq SUBSET S
    OBVIOUS
  <2> HIDE DEF P
  <2> QED BY <1>1, <2>1, EverySubset
<1>3. S \in P
  BY <1>2
<1> QED BY <1>3

(* Among those still being filled, somebody is full first. *)
LEMMA TightestIs ==
  ASSUME NEW ids, IsFiniteSet(ids), NEW claims \in Claims(ids),
         NEW active \in SUBSET ids, active # {}
  PROVE  \E d \in active : d \in Tightest(claims, active)
<1> DEFINE room == Room(claims)
           R == {p \in active \X active : room[p[1]] * claims[p[2]].weight
                                            <= room[p[2]] * claims[p[1]].weight}
<1>1. \A d \in active : room[d] \in Nat /\ claims[d].weight \in Nat \ {0}
  BY ClaimsAre
<1>2. \A d, e \in active : <<d, e>> \in R
                             <=> room[d] * claims[e].weight <= room[e] * claims[d].weight
  OBVIOUS
<1>3. IsFiniteSet(active)
  BY FS_Subset
<1> HIDE DEF R, room
<1>4. ASSUME NEW d \in active, NEW e \in active
      PROVE  <<d, e>> \in R \/ <<e, d>> \in R
  <2>1. /\ room[d] * claims[e].weight \in Nat /\ room[e] * claims[d].weight \in Nat
    BY <1>1, Product
  <2> QED BY <1>2, <2>1
<1>5. ASSUME NEW d \in active, NEW e \in active, NEW f \in active,
             <<d, e>> \in R, <<e, f>> \in R
      PROVE  <<d, f>> \in R
  <2> DEFINE p == room[d]
             q == claims[d].weight
             r == room[e]
             w == claims[e].weight
             t == room[f]
             u == claims[f].weight
  <2>1. p \in Nat /\ q \in Nat \ {0} /\ r \in Nat /\ w \in Nat \ {0} /\ t \in Nat /\ u \in Nat \ {0}
    BY <1>1
  <2>2. p * w <= r * q /\ r * u <= t * w
    BY <1>2, <1>5
  <2>3. p * u <= t * q
    <3> HIDE DEF p, q, r, w, t, u
    <3>1. p \in Int /\ w \in Nat \ {0} /\ r \in Int /\ q \in Nat /\ t \in Int /\ u \in Nat
      BY <2>1
    <3> QED BY <2>2, <3>1, Between
  <2> QED BY <1>2, <2>3
<1>6. \E d \in active : \A e \in active : <<d, e>> \in R
  BY <1>3, <1>4, <1>5, LeastOf
<1> QED BY <1>2, <1>6 DEF Tightest, room

(* The level at which the water would run out only rises: whoever was filled *)
(* is no higher above its floor, per weight, than it is now.                 *)
Reached(budget, claims, active) ==
  /\ Left(budget, claims, active) >= 0
  /\ \A e \in DOMAIN claims \ active :
       Room(claims)[e] * TotalWeight(claims, active)
         <= Left(budget, claims, active) * claims[e].weight

(* Filling up whoever is full raises the level for the rest. *)
LEMMA LevelRises ==
  ASSUME NEW ids, IsFiniteSet(ids), NEW claims \in Claims(ids), NEW budget \in Nat,
         NEW active \in SUBSET ids, Left(budget, claims, active) >= 0
  PROVE  LET next == active \ Satisfied(budget, claims, active)
         IN  Left(budget, claims, active) * TotalWeight(claims, next)
               <= Left(budget, claims, next) * TotalWeight(claims, active)
<1> DEFINE full == Satisfied(budget, claims, active)
           next == active \ full
           room == Room(claims)
           weight == WeightOf(claims)
           left == Left(budget, claims, active)
           total == TotalWeight(claims, active)
<1>1. full \in SUBSET active /\ next \in SUBSET ids /\ full \in SUBSET ids
  BY DEF Satisfied, Tightest
<1>2. /\ DOMAIN claims = ids /\ left \in Nat /\ total \in Nat
      /\ IsFiniteSet(active) /\ IsFiniteSet(full) /\ IsFiniteSet(next)
      /\ IsFiniteSet(ids \ next)
  <2> HIDE DEF full, next
  <2> QED BY <1>1, ClaimsAre, LeftIs, FS_Subset
<1>3. \A d \in ids : /\ room[d] \in Nat /\ weight[d] \in Nat
                     /\ weight[d] = claims[d].weight
  BY ClaimsAre
<1>4. ASSUME NEW d \in full PROVE room[d] * total <= weight[d] * left
  <2>1. room[d] * total < left * claims[d].weight /\ d \in ids
    BY <1>1 DEF Satisfied
  <2> HIDE DEF full, room, left, total, weight
  <2> QED BY <1>2, <1>3, <2>1
<1>5. total = Total(weight, full) + Total(weight, next)
  <2>1. next = active \ full
    OBVIOUS
  <2>2. \A d \in active : weight[d] \in Int
    BY <1>3
  <2>3. total = Total(weight, active)
    BY DEF TotalWeight
  <2> HIDE DEF full, next, total, weight
  <2> QED BY <1>1, <1>2, <2>1, <2>2, <2>3, TotalSplit
<1>6. Left(budget, claims, next) = left - Total(room, full)
  <2>1. ids \ active \in SUBSET (ids \ next) /\ (ids \ next) \ (ids \ active) = full
    BY <1>1
  <2>2. \A d \in ids \ next : room[d] \in Int
    BY <1>3
  <2>3. Total(room, ids \ next) = Total(room, ids \ active) + Total(room, full)
    <3> HIDE DEF full, next, room
    <3> QED BY <1>2, <2>1, <2>2, TotalSplit
  <2>4. /\ left = budget - TotalFloor(claims) - Total(room, ids \ active)
        /\ Left(budget, claims, next) = budget - TotalFloor(claims) - Total(room, ids \ next)
    BY <1>2 DEF Left
  <2>5. Total(room, ids \ active) \in Int /\ TotalFloor(claims) \in Nat
    <3>1. \A d \in ids \ active : room[d] \in Int
      BY <1>3
    <3>2. IsFiniteSet(ids \ active)
      BY FS_Subset
    <3> HIDE DEF room
    <3> QED BY <3>1, <3>2, TotalInt, ClaimsAre
  <2>6. Total(room, full) \in Int
    <3> HIDE DEF full, room
    <3> QED BY <1>1, <1>2, <1>3, TotalInt
  <2> HIDE DEF left, next, full, room
  <2> QED BY <2>3, <2>4, <2>5, <2>6
<1>7. TotalWeight(claims, next) = Total(weight, next)
  BY DEF TotalWeight
<1> HIDE DEF full, next, room, weight, left, total
<1>8. Total(room, full) * total <= Total(weight, full) * left
  BY <1>1, <1>2, <1>3, <1>4, TotalScaled
<1>9. Total(room, full) \in Int /\ Total(weight, full) \in Int /\ Total(weight, next) \in Int
  BY <1>1, <1>2, <1>3, TotalInt
<1>10. left * Total(weight, next) <= (left - Total(room, full)) * total
  <2>1. left * Total(weight, next) = left * total - Total(weight, full) * left
    BY <1>2, <1>5, <1>9
  <2>2. (left - Total(room, full)) * total = left * total - Total(room, full) * total
    BY <1>2, <1>9
  <2>3. left * total \in Int /\ Total(weight, full) * left \in Int /\ Total(room, full) * total \in Int
    BY <1>2, <1>9
  <2> QED BY <1>8, <2>1, <2>2, <2>3
<1> QED BY <1>6, <1>7, <1>10 DEF full, next, left, total

(* So whoever was filled stays below the level, as the filling goes on. *)
LEMMA ReachedOn ==
  ASSUME NEW ids, IsFiniteSet(ids), NEW claims \in Claims(ids), NEW budget \in Nat,
         NEW active \in SUBSET ids, Reached(budget, claims, active)
  PROVE  Reached(budget, claims, active \ Satisfied(budget, claims, active))
<1> DEFINE full == Satisfied(budget, claims, active)
           next == active \ full
           left == Left(budget, claims, active)
           total == TotalWeight(claims, active)
           left2 == Left(budget, claims, next)
           total2 == TotalWeight(claims, next)
<1>1. next \in SUBSET ids /\ full \in SUBSET active
  BY DEF Satisfied, Tightest
<1>2. left >= 0 /\ left2 >= 0 /\ left * total2 <= left2 * total
  BY SatisfiedLeaves, LevelRises DEF Reached
<1>3. CASE full = {}
  <2>1. next = active
    BY <1>3
  <2> HIDE DEF full, next
  <2> QED BY <2>1 DEF next, full
<1>4. CASE full # {}
  <2>1. left \in Nat /\ total \in Nat \ {0} /\ left2 \in Nat /\ total2 \in Nat /\ DOMAIN claims = ids
    <3>1. active # {}
      BY <1>1, <1>4
    <3> HIDE DEF full, next
    <3> QED BY <1>1, <1>2, <3>1, LeftIs, ClaimsAre
  <2>2. ASSUME NEW e \in ids \ next
        PROVE  Room(claims)[e] * total2 <= left2 * claims[e].weight
    <3>1. Room(claims)[e] \in Nat /\ claims[e].weight \in Nat
      BY ClaimsAre
    <3>2. Room(claims)[e] * total <= left * claims[e].weight
      <4>1. CASE e \in full
        <5>1. Room(claims)[e] * total < left * claims[e].weight
          BY <4>1 DEF Satisfied
        <5>2. Room(claims)[e] * total \in Nat /\ left * claims[e].weight \in Nat
          <6> HIDE DEF left, total
          <6> QED BY <2>1, <3>1, Product
        <5> QED BY <5>1, <5>2
      <4>2. CASE e \notin full
        BY <2>1, <4>2 DEF Reached
      <4> QED BY <4>1, <4>2
    <3> DEFINE p == Room(claims)[e]
               w == claims[e].weight
    <3>3. p \in Int /\ total \in Nat \ {0} /\ left \in Int /\ w \in Nat /\ left2 \in Int /\ total2 \in Nat
      <4> HIDE DEF left, total, left2, total2
      <4> QED BY <2>1, <3>1
    <3>4. p * total <= left * w
      BY <3>2
    <3> HIDE DEF left, total, left2, total2, p, w
    <3>5. p * total2 <= left2 * w
      BY <1>2, <3>3, <3>4, Between
    <3> QED BY <3>5 DEF p, w
  <2> QED BY <1>2, <2>1, <2>2 DEF Reached
<1> QED BY <1>3, <1>4

(* The filling ends with a set that nobody in it leaves: what is left is    *)
(* poured over it.                                                          *)
LEMMA PouredEnds ==
  ASSUME NEW ids, IsFiniteSet(ids), NEW claims \in Claims(ids), NEW budget \in Nat,
         TotalFloor(claims) <= budget
  PROVE  \E active \in SUBSET ids :
           /\ Reached(budget, claims, active) /\ Satisfied(budget, claims, active) = {}
           /\ Poured(budget, claims) = Pour(budget, claims, active)
<1>1. PICK pour : Pours(pour, budget, claims) /\ Poured(budget, claims) = pour[ids]
  BY PouredIs
<1>2. DOMAIN claims = ids
  BY DEF Claims
<1> DEFINE Ends(s) == \E active \in SUBSET ids :
                        /\ Reached(budget, claims, active)
                        /\ Satisfied(budget, claims, active) = {}
                        /\ pour[s] = Pour(budget, claims, active)
           P == {s \in SUBSET ids : Reached(budget, claims, s) => Ends(s)}
<1>3. ASSUME NEW s \in SUBSET ids, \A t \in SUBSET s : t # s => t \in P
      PROVE  s \in P
  <2> SUFFICES ASSUME Reached(budget, claims, s) PROVE Ends(s)
    OBVIOUS
  <2>1. CASE Satisfied(budget, claims, s) # {}
    <3> DEFINE t == s \ Satisfied(budget, claims, s)
    <3>1. pour[s] = pour[t]
      BY <1>1, <1>2, <2>1 DEF Pours
    <3>2. t \in SUBSET s /\ t # s
      BY <2>1 DEF Satisfied, Tightest
    <3>3. Reached(budget, claims, t)
      BY ReachedOn
    <3>4. Ends(t)
      <4> HIDE DEF t, Ends
      <4> QED BY <1>3, <3>2, <3>3
    <3> HIDE DEF t
    <3> QED BY <3>1, <3>4
  <2>2. CASE Satisfied(budget, claims, s) = {}
    <3>1. pour[s] = Pour(budget, claims, s)
      BY <1>1, <1>2, <2>2, TableIs DEF Pours
    <3> QED BY <2>2, <3>1
  <2> QED BY <2>1, <2>2
<1>4. P = SUBSET ids
  <2>1. P \subseteq SUBSET ids
    OBVIOUS
  <2> HIDE DEF P
  <2> QED BY <1>3, <2>1, EveryPart
<1>5. Reached(budget, claims, ids)
  <2>1. ids \ ids = {}
    OBVIOUS
  <2>2. Total(Room(claims), ids \ ids) = 0
    BY <2>1, TotalEmpty
  <2>3. TotalFloor(claims) \in Nat
    BY ClaimsAre
  <2>4. Left(budget, claims, ids) >= 0
    BY <1>2, <2>2, <2>3 DEF Left
  <2> QED BY <1>2, <2>1, <2>4 DEF Reached
<1>6. Ends(ids)
  <2> HIDE DEF Ends
  <2> QED BY <1>4, <1>5
<1> QED BY <1>1, <1>6

(* A sum in proportion to another, strictly. *)
LEMMA TotalBelow ==
  ASSUME NEW S, IsFiniteSet(S), S # {}, NEW f, NEW g, NEW r \in Int, NEW l \in Int,
         \A x \in S : f[x] \in Int /\ g[x] \in Int /\ f[x] * r < g[x] * l
  PROVE  Total(f, S) * r < Total(g, S) * l
<1>1. PICK x \in S : TRUE
  OBVIOUS
<1> DEFINE rest1 == S \ {x}
           a == f[x]
           b == g[x]
           sa == Total(f, rest1)
           sb == Total(g, rest1)
<1>2. IsFiniteSet(rest1)
  BY FS_Subset
<1>3. Total(f, S) = a + sa /\ Total(g, S) = b + sb
  <2>1. \A y \in S : f[y] \in Int
    OBVIOUS
  <2>2. \A y \in S : g[y] \in Int
    OBVIOUS
  <2> QED BY <2>1, <2>2, <1>1, TotalRemove
<1>4. a \in Int /\ b \in Int /\ a * r < b * l
  BY <1>1
<1>5. sa \in Int /\ sb \in Int
  <2>1. \A y \in rest1 : f[y] \in Int
    OBVIOUS
  <2>2. \A y \in rest1 : g[y] \in Int
    OBVIOUS
  <2> HIDE DEF rest1
  <2> QED BY <1>2, <2>1, <2>2, TotalInt
<1>6. sa * r <= sb * l
  <2>1. ASSUME NEW y \in rest1
        PROVE f[y] \in Int /\ g[y] \in Int /\ f[y] * r <= g[y] * l
    <3>1. f[y] \in Int /\ g[y] \in Int /\ f[y] * r < g[y] * l
      OBVIOUS
    <3>2. f[y] * r \in Int /\ g[y] * l \in Int
      BY <3>1
    <3> QED BY <3>1, <3>2
  <2> HIDE DEF rest1
  <2> QED BY <1>2, <2>1, TotalScaled
<1> HIDE DEF a, b, sa, sb, rest1
<1>7. /\ (a + sa) * r = a * r + sa * r /\ (b + sb) * l = b * l + sb * l
      /\ a * r \in Int /\ sa * r \in Int /\ b * l \in Int /\ sb * l \in Int
  BY <1>4, <1>5
<1>8. (a + sa) * r < (b + sb) * l
  <2>1. \A i, j, k, m \in Int : i < j /\ k <= m => i + k < j + m
    OBVIOUS
  <2> QED BY <1>4, <1>6, <1>7, <2>1
<1> QED BY <1>3, <1>8

(* What the last pour grants above the floors: its part of what is left,   *)
(* rounded down, to whom it is poured over, and their room to the others.   *)
LEMMA PourIs ==
  ASSUME NEW ids, IsFiniteSet(ids), NEW claims \in Claims(ids), NEW budget \in Nat,
         budget < TotalWant(claims), NEW active \in SUBSET ids,
         Reached(budget, claims, active), Satisfied(budget, claims, active) = {}
  PROVE  LET gain  == [d \in ids |-> Pour(budget, claims, active)[d] - Floor(claims)[d]]
             left  == Left(budget, claims, active)
             total == TotalWeight(claims, active)
         IN  /\ active # {} /\ left \in Nat /\ total \in Nat \ {0}
             /\ \A d \in ids : gain[d] \in Nat /\ gain[d] <= Room(claims)[d]
             /\ \A d \in active :
                  /\ left * claims[d].weight < (gain[d] + 1) * total
                  /\ gain[d] * total <= left * claims[d].weight
                  /\ left * claims[d].weight <= Room(claims)[d] * total
             /\ \A d \in ids \ active :
                  /\ gain[d] = Room(claims)[d]
                  /\ Room(claims)[d] * total <= left * claims[d].weight
<1> DEFINE p     == Pour(budget, claims, active)
           floor == Floor(claims)
           room  == Room(claims)
           weight == WeightOf(claims)
           left  == Left(budget, claims, active)
           total == TotalWeight(claims, active)
           part  == [d \in ids |-> (left * claims[d].weight) \div total]
           gain  == [d \in ids |-> IF d \in active THEN part[d] ELSE room[d]]
           rest1 == ids \ active
           more  == [d \in ids |-> p[d] - floor[d]]
<1>1. /\ DOMAIN claims = ids /\ left \in Nat
      /\ IsFiniteSet(active) /\ IsFiniteSet(rest1)
  BY ClaimsAre, LeftIs, FS_Subset DEF Reached
<1>2. \A d \in ids : /\ floor[d] \in Nat /\ room[d] \in Nat
                     /\ claims[d].want = floor[d] + room[d]
                     /\ weight[d] \in Nat \ {0} /\ weight[d] = claims[d].weight
  BY ClaimsAre
<1>3. active # {}
  <2> SUFFICES ASSUME active = {} PROVE FALSE
    OBVIOUS
  <2>1. left = budget - TotalFloor(claims) - Total(room, ids)
    <3>1. ids \ active = ids
      OBVIOUS
    <3> QED BY <1>1, <3>1 DEF Left
  <2>2. TotalWant(claims) = TotalFloor(claims) + Total(room, ids)
    <3>1. \A d \in ids : /\ floor[d] \in Int /\ room[d] \in Int
                         /\ Wanted(claims)[d] = floor[d] + room[d]
      BY <1>2, ClaimsAre
    <3>2. Total(Wanted(claims), ids) = Total(floor, ids) + Total(room, ids)
      <4> HIDE DEF floor, room
      <4> QED BY <3>1, TotalPlus
    <3> QED BY <1>1, <3>2 DEF TotalWant, TotalFloor
  <2>3. TotalFloor(claims) \in Int /\ Total(room, ids) \in Int
    <3>1. \A d \in ids : room[d] \in Int
      BY <1>2
    <3>2. Total(room, ids) \in Int
      <4> HIDE DEF room
      <4> QED BY <3>1, TotalInt
    <3> QED BY <3>2, ClaimsAre
  <2> HIDE DEF left, room
  <2> QED BY <1>1, <2>1, <2>2, <2>3
<1>4. total \in Nat \ {0}
  BY <1>3, LeftIs
<1>5. ASSUME NEW d \in active
      PROVE  /\ part[d] \in Nat /\ part[d] * total <= left * weight[d]
             /\ left * weight[d] < (part[d] + 1) * total
             /\ left * weight[d] <= room[d] * total /\ part[d] <= room[d]
  <2>1. left * weight[d] \in Nat
    <3> HIDE DEF left, weight
    <3> QED BY <1>1, <1>2, Product
  <2>2. part[d] = (left * weight[d]) \div total
    BY <1>2
  <2>3. /\ part[d] \in Nat /\ part[d] * total <= left * weight[d]
        /\ left * weight[d] < (part[d] + 1) * total
    <3> HIDE DEF left, total, part, weight
    <3> QED BY <1>4, <2>1, <2>2, RoundedDown, RoundedUp
  <2>4. left * weight[d] <= room[d] * total
    <3>1. PICK m \in active : m \in Tightest(claims, active)
      BY <1>3, TightestIs
    <3>2. ~ (room[m] * total < left * claims[m].weight)
      BY <3>1 DEF Satisfied
    <3>3. room[m] * total \in Nat /\ left * weight[m] \in Nat
      <4> HIDE DEF room, total, left, weight
      <4> QED BY <1>1, <1>2, <1>4, Product
    <3>4. left * weight[m] <= room[m] * total
      <4>1. left * weight[m] = left * claims[m].weight
        BY <1>2
      <4> HIDE DEF room, total, left, weight
      <4> QED BY <3>2, <3>3, <4>1
    <3>5. room[m] * weight[d] <= room[d] * weight[m]
      BY <1>2, <3>1 DEF Tightest
    <3> DEFINE rm == room[m]
               rd == room[d]
               wm == weight[m]
               wd == weight[d]
    <3>6. rm \in Int /\ rd \in Int /\ wm \in Nat \ {0} /\ wd \in Nat /\ left \in Int /\ total \in Nat
      <4> HIDE DEF room, total, left, weight
      <4> QED BY <1>1, <1>2, <1>4
    <3>7. left * wm <= rm * total /\ rm * wd <= rd * wm
      BY <3>4, <3>5
    <3>8. left * wd <= rd * total
      <4> HIDE DEF rm, rd, wm, wd, left, total
      <4> QED BY <3>6, <3>7, Between
    <3> QED BY <3>8
  <2>5. part[d] <= room[d]
    <3>1. part[d] * total \in Nat /\ room[d] * total \in Nat /\ room[d] \in Nat
      <4> HIDE DEF room, part, total
      <4> QED BY <1>2, <1>4, <2>3, Product
    <3>2. part[d] * total <= room[d] * total
      <4> HIDE DEF room, part, total, left, weight
      <4> QED BY <2>1, <2>3, <2>4, <3>1
    <3> HIDE DEF room, part, total
    <3> QED BY <1>4, <2>3, <3>1, <3>2, Cancel
  <2> QED BY <2>3, <2>4, <2>5
<1>6. \A d \in ids : p[d] = floor[d] + gain[d]
  <2>1. \A d \in ids : p[d] = IF d \in active THEN floor[d] + part[d] ELSE claims[d].want
    BY <1>1 DEF Pour
  <2> HIDE DEF p, floor, room, part
  <2> QED BY <1>2, <2>1
<1>7. \A d \in ids : more[d] = gain[d]
  <2>1. \A d \in active : gain[d] = part[d] /\ gain[d] \in Nat
    BY <1>5
  <2>2. \A d \in rest1 : gain[d] = room[d] /\ gain[d] \in Nat
    BY <1>2
  <2>3. \A d \in ids : more[d] = p[d] - floor[d] /\ gain[d] \in Nat
    BY <2>1, <2>2
  <2> HIDE DEF p, floor, gain, more
  <2> QED BY <1>2, <1>6, <2>3
<1>8. \A d \in active : gain[d] = part[d]
  OBVIOUS
<1>9. \A d \in rest1 : gain[d] = room[d]
  OBVIOUS
<1>10. \A d \in rest1 : room[d] * total <= left * claims[d].weight
  BY <1>1 DEF Reached
<1>11. /\ \A d \in ids : more[d] \in Nat /\ more[d] <= room[d]
       /\ \A d \in active : /\ left * claims[d].weight < (more[d] + 1) * total
                            /\ more[d] * total <= left * claims[d].weight
                            /\ left * claims[d].weight <= room[d] * total
       /\ \A d \in rest1 : more[d] = room[d]
  <2>1. \A d \in active : /\ more[d] = part[d] /\ weight[d] = claims[d].weight
    BY <1>2, <1>7, <1>8
  <2>2. \A d \in rest1 : more[d] = room[d] /\ room[d] \in Nat
    BY <1>2, <1>7, <1>9
  <2>3. \A d \in ids : d \in active \/ d \in rest1
    OBVIOUS
  <2> HIDE DEF p, floor, gain, more, part, room, rest1, left, total, weight
  <2> QED BY <1>2, <1>5, <2>1, <2>2, <2>3
<1> QED BY <1>1, <1>3, <1>4, <1>10, <1>11 DEF more, p, floor, room, left, total, rest1

(* That last pour is fair. *)
LEMMA PourIsFair ==
  ASSUME NEW ids, IsFiniteSet(ids), NEW claims \in Claims(ids), NEW budget \in Nat,
         budget < TotalWant(claims), NEW active \in SUBSET ids,
         Reached(budget, claims, active), Satisfied(budget, claims, active) = {}
  PROVE  Fair(budget, claims, Pour(budget, claims, active))
<1> DEFINE p     == Pour(budget, claims, active)
           floor == Floor(claims)
           room  == Room(claims)
           weight == WeightOf(claims)
           left  == Left(budget, claims, active)
           total == TotalWeight(claims, active)
           gain  == [d \in ids |-> p[d] - floor[d]]
           rest1 == ids \ active
<1>1. /\ DOMAIN claims = ids /\ left \in Nat
      /\ IsFiniteSet(active) /\ IsFiniteSet(rest1)
  BY ClaimsAre, LeftIs, FS_Subset DEF Reached
<1>2. \A d \in ids : /\ floor[d] \in Nat /\ room[d] \in Nat
                     /\ claims[d].want = floor[d] + room[d]
                     /\ weight[d] \in Nat \ {0} /\ weight[d] = claims[d].weight
  BY ClaimsAre
<1>3. /\ active # {} /\ total \in Nat \ {0}
      /\ \A d \in ids : gain[d] \in Nat /\ gain[d] <= room[d]
      /\ \A d \in active : /\ left * claims[d].weight < (gain[d] + 1) * total
                           /\ gain[d] * total <= left * claims[d].weight
      /\ \A d \in rest1 : /\ gain[d] = room[d]
                         /\ room[d] * total <= left * claims[d].weight
  BY PourIs
<1>4. total \in Nat \ {0} /\ active # {}
  BY <1>3
<1>5. ASSUME NEW d \in active PROVE left * weight[d] < (gain[d] + 1) * total
  BY <1>2, <1>3
<1>6. \A d \in ids : p[d] = floor[d] + gain[d]
  <2>1. \A d \in ids : p[d] \in Nat
    <3>1. p \in [ids -> Nat]
      BY PourFits DEF Reached
    <3> QED BY <3>1
  <2>2. \A d \in ids : gain[d] = p[d] - floor[d]
    OBVIOUS
  <2> HIDE DEF p, floor, gain
  <2> QED BY <1>2, <2>1, <2>2
<1>7. ASSUME NEW d \in ids
      PROVE  gain[d] \in Nat /\ gain[d] <= room[d] /\ gain[d] * total <= left * weight[d]
  <2>1. CASE d \in active
    BY <1>2, <1>3, <2>1
  <2>2. CASE d \notin active
    <3>1. d \in rest1 /\ weight[d] = claims[d].weight
      BY <1>2, <2>2
    <3> HIDE DEF gain, room, left, total, weight, rest1
    <3> QED BY <1>3, <3>1
  <2> QED BY <2>1, <2>2
<1>8. \A d \in rest1 : gain[d] = room[d]
  BY <1>3
<1> HIDE DEF p, gain
<1>9. \A d \in ids : floor[d] <= p[d] /\ p[d] <= claims[d].want
  <2> HIDE DEF floor, room, left, total, weight
  <2> QED BY <1>2, <1>6, <1>7
<1>10. ASSUME NEW d \in ids, NEW e \in ids, p[d] < claims[d].want
       PROVE  (p[e] - floor[e]) * claims[d].weight <= (p[d] + 1 - floor[d]) * claims[e].weight
  <2>1. d \in active
    <3> SUFFICES ASSUME d \notin active PROVE FALSE
      OBVIOUS
    <3>1. gain[d] = room[d]
      BY <1>8
    <3> HIDE DEF floor, room
    <3> QED BY <1>2, <1>6, <1>10, <3>1
  <2> DEFINE ge == gain[e]
             gd == gain[d] + 1
             we == weight[e]
             wd == weight[d]
  <2>2. /\ ge \in Int /\ gd \in Int /\ we \in Nat /\ wd \in Nat
        /\ left \in Int /\ total \in Nat \ {0}
    <3> HIDE DEF left, total, weight, room
    <3> QED BY <1>1, <1>2, <1>4, <1>7
  <2>3. ge * total <= left * we
    BY <1>7
  <2>4. left * wd <= gd * total
    <3>1. left * wd < gd * total
      BY <1>5, <2>1
    <3>2. left * wd \in Int /\ gd * total \in Int
      <4> HIDE DEF left, total, gd, wd
      <4> QED BY <2>2
    <3> QED BY <3>1, <3>2
  <2>5. ge * wd <= gd * we
    <3> HIDE DEF ge, gd, we, wd, left, total
    <3> QED BY <2>2, <2>3, <2>4, Between
  <2>6. p[e] - floor[e] = ge /\ p[d] + 1 - floor[d] = gd
    <3> HIDE DEF floor, room, left, total, weight
    <3> QED BY <1>2, <1>6, <1>7
  <2>7. we = claims[e].weight /\ wd = claims[d].weight
    BY <1>2
  <2> HIDE DEF ge, gd, we, wd, floor
  <2> QED BY <2>5, <2>6, <2>7
<1>11. left < Total(gain, active) + Cardinality(active)
  <2> DEFINE one  == [d \in ids |-> 1]
             more == [d \in ids |-> gain[d] + 1]
             sum  == Total(more, active)
  <2>1. \A d \in active : /\ weight[d] \in Int /\ more[d] \in Int
                          /\ weight[d] * left < more[d] * total
    <3> SUFFICES ASSUME NEW d \in active
                 PROVE  /\ weight[d] \in Int /\ more[d] \in Int
                        /\ weight[d] * left < more[d] * total
      OBVIOUS
    <3>1. more[d] = gain[d] + 1 /\ gain[d] \in Nat
      BY <1>7
    <3>2. left * weight[d] = weight[d] * left
      <4> HIDE DEF left, weight
      <4> QED BY <1>1, <1>2
    <3> HIDE DEF more, left, weight, total
    <3> QED BY <1>2, <1>5, <3>1, <3>2
  <2>2. Total(weight, active) * left < sum * total
    <3> HIDE DEF weight, more, left, total
    <3>1. left \in Int /\ total \in Int
      BY <1>1, <1>4
    <3> QED BY <1>1, <1>4, <2>1, <3>1, TotalBelow
  <2>3. Total(weight, active) = total
    BY DEF TotalWeight
  <2>4. sum = Total(gain, active) + Total(one, active)
    <3>1. \A d \in active : gain[d] \in Int /\ one[d] \in Int /\ more[d] = gain[d] + one[d]
      BY <1>7
    <3> HIDE DEF more, one
    <3> QED BY <1>1, <3>1, TotalPlus
  <2>5. Total(one, active) = Cardinality(active)
    <3>1. \A d \in active : one[d] = 1
      OBVIOUS
    <3> HIDE DEF one
    <3> QED BY <1>1, <3>1, TotalOnes
  <2>6. sum \in Int
    <3> HIDE DEF weight, left, total, more
    <3> QED BY <1>1, <2>1, TotalInt
  <2>7. left * total < sum * total
    <3>1. total * left = left * total
      <4> HIDE DEF total, left
      <4> QED BY <1>1, <1>4
    <3> HIDE DEF left, total, sum, weight
    <3> QED BY <2>2, <2>3, <3>1
  <2>8. left < sum
    <3> HIDE DEF left, total, sum
    <3> QED BY <1>1, <1>4, <2>6, <2>7, Cancel
  <2> HIDE DEF left, sum, one
  <2> QED BY <2>4, <2>5, <2>8
<1>12. Total(p, ids) = TotalFloor(claims) + Total(gain, active) + Total(room, rest1)
  <2>1. Total(p, ids) = Total(floor, ids) + Total(gain, ids)
    <3>1. \A d \in ids : floor[d] \in Int /\ gain[d] \in Int /\ p[d] = floor[d] + gain[d]
      <4> HIDE DEF floor, room, left, total, weight
      <4> QED BY <1>2, <1>6, <1>7
    <3> HIDE DEF floor
    <3> QED BY <3>1, TotalPlus
  <2>2. Total(gain, ids) = Total(gain, active) + Total(gain, rest1)
    <3>1. \A d \in ids : gain[d] \in Int
      BY <1>7
    <3> QED BY <3>1, TotalSplit
  <2>3. Total(gain, rest1) = Total(room, rest1)
    <3>1. \A d \in rest1 : gain[d] \in Int /\ room[d] = gain[d]
      BY <1>7, <1>8
    <3> HIDE DEF rest1, room
    <3> QED BY <1>1, <3>1, TotalSame
  <2>4. Total(floor, ids) = TotalFloor(claims)
    BY <1>1 DEF TotalFloor
  <2>5. TotalFloor(claims) \in Int /\ Total(gain, active) \in Int /\ Total(gain, rest1) \in Int
    <3>1. \A d \in active : gain[d] \in Int
      BY <1>7
    <3>2. \A d \in rest1 : gain[d] \in Int
      BY <1>7
    <3>3. Total(gain, active) \in Int /\ Total(gain, rest1) \in Int
      <4> HIDE DEF rest1
      <4> QED BY <1>1, <3>1, <3>2, TotalInt
    <3> QED BY <3>3, ClaimsAre
  <2> HIDE DEF floor, room, rest1
  <2> QED BY <2>1, <2>2, <2>3, <2>4, <2>5
<1>13. budget < Total(p, ids) + Cardinality(ids)
  <2>1. left = budget - TotalFloor(claims) - Total(room, rest1)
    BY <1>1 DEF Left
  <2>2. TotalFloor(claims) \in Int /\ Total(room, rest1) \in Int /\ Total(gain, active) \in Int
    <3>1. \A d \in active : gain[d] \in Int
      BY <1>7
    <3>2. \A d \in rest1 : room[d] \in Int
      BY <1>2
    <3>3. Total(gain, active) \in Int /\ Total(room, rest1) \in Int
      <4> HIDE DEF rest1, room
      <4> QED BY <1>1, <3>1, <3>2, TotalInt
    <3> QED BY <3>3, ClaimsAre
  <2>3. Cardinality(active) <= Cardinality(ids) /\ Cardinality(ids) \in Nat /\ Cardinality(active) \in Nat
    BY <1>1, FS_Subset, FS_CardinalityType
  <2> HIDE DEF left, room, rest1
  <2> QED BY <1>11, <1>12, <2>1, <2>2, <2>3
<1> HIDE DEF floor, room, left, total, weight
<1> QED BY <1>1, <1>9, <1>10, <1>13 DEF Fair, p, floor

(* allocate: when the floors fit and the wants do not, the budget is shared *)
(* fairly: nobody is filled further above its floor, per weight, than one   *)
(* who is still short, and nothing worth a unit each is left over.          *)
THEOREM AllocateIsFair ==
  ASSUME NEW ids, IsFiniteSet(ids), NEW claims \in Claims(ids), NEW budget \in Nat,
         TotalFloor(claims) <= budget, budget < TotalWant(claims)
  PROVE  Fair(budget, claims, Allocate(budget, claims))
<1>1. AtLeastZero(budget) = budget
  BY AtLeastZeroIs
<1>2. TotalFloor(claims) \in Nat /\ TotalWant(claims) \in Nat
  BY ClaimsAre
<1>3. Allocate(budget, claims) = Poured(budget, claims)
  BY <1>1, <1>2 DEF Allocate
<1>4. PICK active \in SUBSET ids :
        /\ Reached(budget, claims, active) /\ Satisfied(budget, claims, active) = {}
        /\ Poured(budget, claims) = Pour(budget, claims, active)
  BY PouredEnds
<1>5. Fair(budget, claims, Pour(budget, claims, active))
  BY <1>4, PourIsFair
<1> QED BY <1>3, <1>4, <1>5

(* A sum times a number. *)
LEMMA Distributes ==
  ASSUME NEW p \in Int, NEW q \in Int, NEW r \in Int
  PROVE  (p + q) * r = p * r + q * r
OBVIOUS

(* A sum of multiples. *)
LEMMA TotalTimes ==
  ASSUME NEW S, IsFiniteSet(S), NEW f, NEW g, NEW k \in Int,
         \A x \in S : f[x] \in Int /\ g[x] = f[x] * k
  PROVE  Total(g, S) = Total(f, S) * k
<1>1. \A x \in S : f[x] \in Int /\ g[x] \in Int
  OBVIOUS
<1>2. Total(f, S) \in Int /\ Total(g, S) \in Int
  BY <1>1, TotalInt
<1>3. Total(g, S) * 1 <= Total(f, S) * k
  <2>1. \A x \in S : g[x] \in Int /\ f[x] \in Int /\ g[x] * 1 <= f[x] * k
    <3> SUFFICES ASSUME NEW x \in S PROVE g[x] \in Int /\ f[x] \in Int /\ g[x] * 1 <= f[x] * k
      OBVIOUS
    <3>1. f[x] \in Int /\ g[x] \in Int /\ g[x] = f[x] * k
      BY <1>1
    <3> QED BY <3>1
  <2> QED BY <2>1, TotalScaled
<1>4. Total(f, S) * k <= Total(g, S) * 1
  <2>1. \A x \in S : f[x] \in Int /\ g[x] \in Int /\ f[x] * k <= g[x] * 1
    <3> SUFFICES ASSUME NEW x \in S PROVE f[x] \in Int /\ g[x] \in Int /\ f[x] * k <= g[x] * 1
      OBVIOUS
    <3>1. f[x] \in Int /\ g[x] \in Int /\ g[x] = f[x] * k
      BY <1>1
    <3> QED BY <3>1
  <2> QED BY <2>1, TotalScaled
<1>5. Total(f, S) * k \in Int
  BY <1>2
<1> QED BY <1>2, <1>3, <1>4, <1>5

(* The larger the number, the larger its part. *)
LEMMA LargerQuotient ==
  ASSUME NEW p \in Nat, NEW r \in Nat, NEW q \in Nat \ {0}, p <= r
  PROVE  p \div q <= r \div q
<1> DEFINE a == p \div q
           b == r \div q
<1>1. a \in Nat /\ a * q <= p
  BY RoundedDown
<1>2. b \in Nat /\ r < (b + 1) * q
  BY RoundedDown, RoundedUp
<1> HIDE DEF a, b
<1>3. a * q < (b + 1) * q
  <2>1. a * q \in Int /\ (b + 1) * q \in Int
    BY <1>1, <1>2
  <2> QED BY <1>1, <1>2, <2>1
<1>4. a < b + 1
  BY <1>1, <1>2, <1>3, Cancel
<1>5. a <= b
  BY <1>1, <1>2, <1>4
<1> QED BY <1>5 DEF a, b

(* What a pour shares out before it is rounded, times the total of the      *)
(* weights that it divides by.                                              *)
Shares(budget, claims, active) ==
  [d \in DOMAIN claims |->
     IF d \in active
     THEN claims[d].weight * Left(budget, claims, active)
     ELSE Room(claims)[d] * TotalWeight(claims, active)]

(* Before it is rounded, a pour gives away all there is. *)
LEMMA SharesAddUp ==
  ASSUME NEW ids, IsFiniteSet(ids), NEW claims \in Claims(ids), NEW budget \in Nat,
         NEW active \in SUBSET ids
  PROVE  Total(Shares(budget, claims, active), ids)
           = (budget - TotalFloor(claims)) * TotalWeight(claims, active)
<1> DEFINE share  == Shares(budget, claims, active)
           room   == Room(claims)
           weight == WeightOf(claims)
           left   == Left(budget, claims, active)
           total  == TotalWeight(claims, active)
           rest1  == ids \ active
<1>1. /\ DOMAIN claims = ids /\ left \in Int /\ total \in Nat
      /\ IsFiniteSet(active) /\ IsFiniteSet(rest1)
  BY ClaimsAre, LeftIs, FS_Subset
<1>2. \A d \in ids : room[d] \in Nat /\ weight[d] \in Nat /\ weight[d] = claims[d].weight
  BY ClaimsAre
<1>3. \A d \in active : weight[d] \in Int /\ share[d] = weight[d] * left
  BY <1>1, <1>2 DEF Shares
<1>4. \A d \in rest1 : room[d] \in Int /\ share[d] = room[d] * total
  BY <1>1, <1>2 DEF Shares
<1>5. total = Total(weight, active)
  BY DEF TotalWeight
<1>6. left = budget - TotalFloor(claims) - Total(room, rest1)
  BY <1>1 DEF Left
<1> HIDE DEF share, room, weight, left, total
<1>7. Total(share, active) = total * left
  BY <1>1, <1>3, <1>5, TotalTimes
<1>8. Total(share, rest1) = Total(room, rest1) * total
  <2> HIDE DEF rest1
  <2> QED BY <1>1, <1>4, TotalTimes
<1>9. Total(share, ids) = Total(share, active) + Total(share, rest1)
  <2>1. \A d \in active : share[d] \in Int
    BY <1>1, <1>3
  <2>2. \A d \in rest1 : share[d] \in Int
    BY <1>1, <1>4
  <2>3. \A d \in ids : share[d] \in Int
    BY <2>1, <2>2
  <2> QED BY <2>3, TotalSplit
<1>10. TotalFloor(claims) \in Int /\ Total(room, rest1) \in Int
  <2>1. Total(room, rest1) \in Int
    <3> HIDE DEF rest1
    <3> QED BY <1>1, <1>4, TotalInt
  <2> QED BY <2>1, ClaimsAre
<1>11. total * left + Total(room, rest1) * total = (budget - TotalFloor(claims)) * total
  <2> HIDE DEF rest1
  <2> QED BY <1>1, <1>6, <1>10
<1> QED BY <1>7, <1>8, <1>9, <1>11 DEF share, total

(* A larger budget is poured to a level at least as high. *)
LEMMA LevelFollows ==
  ASSUME NEW ids, IsFiniteSet(ids), NEW claims \in Claims(ids),
         NEW less \in Nat, NEW more \in Nat, less <= more, more < TotalWant(claims),
         NEW s \in SUBSET ids, Reached(less, claims, s), Satisfied(less, claims, s) = {},
         NEW t \in SUBSET ids, Reached(more, claims, t), Satisfied(more, claims, t) = {}
  PROVE  Left(less, claims, s) * TotalWeight(claims, t)
           <= Left(more, claims, t) * TotalWeight(claims, s)
<1> DEFINE ls == Left(less, claims, s)
           lt == Left(more, claims, t)
           ts == TotalWeight(claims, s)
           tt == TotalWeight(claims, t)
           a  == Shares(less, claims, s)
           c  == Shares(more, claims, t)
           room == Room(claims)
           weight == WeightOf(claims)
           rest1 == ids \ s
<1>1. TotalWant(claims) \in Nat /\ less < TotalWant(claims) /\ DOMAIN claims = ids
  BY ClaimsAre
<1>2. /\ s # {} /\ ls \in Nat /\ ts \in Nat \ {0}
      /\ \A d \in s : ls * claims[d].weight <= room[d] * ts
      /\ \A d \in rest1 : room[d] * ts <= ls * claims[d].weight
  BY <1>1, PourIs
<1>3. /\ t # {} /\ lt \in Nat /\ tt \in Nat \ {0}
      /\ \A d \in t : lt * claims[d].weight <= room[d] * tt
      /\ \A d \in ids \ t : room[d] * tt <= lt * claims[d].weight
  BY PourIs
<1>4. \A d \in ids : /\ room[d] \in Nat /\ weight[d] \in Nat \ {0}
                     /\ weight[d] = claims[d].weight
  BY ClaimsAre
<1>5. /\ \A d \in s : a[d] = weight[d] * ls
      /\ \A d \in rest1 : a[d] = room[d] * ts
  BY <1>1, <1>4 DEF Shares
<1>6. ASSUME NEW d \in ids
      PROVE  c[d] \in Nat /\ c[d] <= lt * weight[d] /\ c[d] <= room[d] * tt
  <2>1. lt * weight[d] \in Nat /\ room[d] * tt \in Nat /\ weight[d] * lt = lt * weight[d]
    <3> HIDE DEF lt, tt, room, weight
    <3> QED BY <1>3, <1>4, Product
  <2>2. CASE d \in t
    <3>1. c[d] = weight[d] * lt
      BY <1>1, <1>4, <2>2 DEF Shares
    <3>2. lt * weight[d] <= room[d] * tt
      BY <1>3, <1>4, <2>2
    <3> HIDE DEF lt, tt, room, weight, c
    <3> QED BY <2>1, <3>1, <3>2
  <2>3. CASE d \notin t
    <3>1. c[d] = room[d] * tt
      BY <1>1, <2>3 DEF Shares
    <3>2. room[d] * tt <= lt * weight[d]
      BY <1>3, <1>4, <2>3
    <3> HIDE DEF lt, tt, room, weight, c
    <3> QED BY <2>1, <3>1, <3>2
  <2> QED BY <2>2, <2>3
<1>7. /\ Total(a, ids) = (less - TotalFloor(claims)) * ts
      /\ Total(c, ids) = (more - TotalFloor(claims)) * tt
      /\ TotalFloor(claims) \in Nat
  BY SharesAddUp, ClaimsAre
<1> HIDE DEF ls, lt, ts, tt, a, c, room, weight
<1> SUFFICES ASSUME lt * ts < ls * tt PROVE FALSE
  <2>1. lt * ts \in Int /\ ls * tt \in Int
    BY <1>2, <1>3
  <2> QED BY <2>1 DEF ls, lt, ts, tt
<1>8. ASSUME NEW d \in s
      PROVE  a[d] \in Int /\ c[d] \in Int /\ c[d] * ts < a[d] * tt
  <2> DEFINE w == weight[d]
             x == c[d]
  <2>1. w \in Nat \ {0} /\ x \in Nat /\ x <= lt * w /\ a[d] = w * ls
    BY <1>4, <1>5, <1>6
  <2> HIDE DEF w, x
  <2>2. x * ts <= (lt * w) * ts
    <3>1. \A i, j \in Int, k \in Nat : i <= j => i * k <= j * k
      OBVIOUS
    <3>2. lt * w \in Int /\ x \in Int /\ ts \in Nat
      BY <1>2, <1>3, <2>1
    <3> QED BY <2>1, <3>1, <3>2
  <2>3. (lt * ts) * w < (ls * tt) * w
    <3>1. \A i, j \in Int, k \in Nat \ {0} : i < j => i * k < j * k
      OBVIOUS
    <3>2. lt * ts \in Int /\ ls * tt \in Int
      BY <1>2, <1>3
    <3> QED BY <2>1, <3>1, <3>2
  <2>4. (lt * w) * ts = (lt * ts) * w /\ (ls * tt) * w = (w * ls) * tt
    BY <1>2, <1>3, <2>1
  <2>5. /\ x * ts \in Int /\ (lt * w) * ts \in Int /\ (w * ls) * tt \in Int
        /\ w * ls \in Int
    BY <1>2, <1>3, <2>1
  <2>6. x * ts < (w * ls) * tt
    BY <2>2, <2>3, <2>4, <2>5
  <2> QED BY <2>1, <2>5, <2>6 DEF x
<1>9. ASSUME NEW d \in rest1
      PROVE  a[d] \in Int /\ c[d] \in Int /\ c[d] * ts <= a[d] * tt
  <2> DEFINE r == room[d]
             x == c[d]
  <2>1. r \in Nat /\ x \in Nat /\ x <= r * tt /\ a[d] = r * ts
    BY <1>4, <1>5, <1>6
  <2> HIDE DEF r, x
  <2>2. x * ts <= (r * tt) * ts
    <3>1. \A i, j \in Int, k \in Nat : i <= j => i * k <= j * k
      OBVIOUS
    <3>2. r * tt \in Int /\ x \in Int /\ ts \in Nat
      BY <1>2, <1>3, <2>1
    <3> QED BY <2>1, <3>1, <3>2
  <2>3. (r * tt) * ts = (r * ts) * tt /\ r * ts \in Int
    BY <1>2, <1>3, <2>1
  <2> QED BY <2>1, <2>2, <2>3 DEF x
<1> DEFINE as == Total(a, s)
           ar == Total(a, rest1)
           cs == Total(c, s)
           cr == Total(c, rest1)
<1>10. IsFiniteSet(s) /\ IsFiniteSet(rest1)
  BY FS_Subset
<1>11. /\ as \in Int /\ ar \in Int /\ cs \in Int /\ cr \in Int
       /\ Total(a, ids) = as + ar /\ Total(c, ids) = cs + cr
  <2>1. \A d \in s : a[d] \in Int /\ c[d] \in Int
    BY <1>8
  <2>2. \A d \in rest1 : a[d] \in Int /\ c[d] \in Int
    BY <1>9
  <2>3. as \in Int /\ ar \in Int /\ cs \in Int /\ cr \in Int
    <3> HIDE DEF rest1
    <3> QED BY <1>10, <2>1, <2>2, TotalInt
  <2>4. \A d \in ids : a[d] \in Int /\ c[d] \in Int
    BY <2>1, <2>2
  <2>5. Total(a, ids) = as + ar /\ Total(c, ids) = cs + cr
    BY <2>4, TotalSplit
  <2> QED BY <2>3, <2>5
<1>12. cs * ts < as * tt
  BY <1>2, <1>3, <1>8, <1>10, TotalBelow
<1>13. cr * ts <= ar * tt
  <2> HIDE DEF rest1
  <2> QED BY <1>2, <1>3, <1>9, <1>10, TotalScaled
<1> HIDE DEF as, ar, cs, cr
<1>14. (cs + cr) * ts < (as + ar) * tt
  <2> DEFINE i == cs * ts
             j == as * tt
             k == cr * ts
             m == ar * tt
             p == (cs + cr) * ts
             q == (as + ar) * tt
  <2>1. p = i + k /\ q = j + m
    <3>1. ts \in Int /\ tt \in Int
      BY <1>2, <1>3
    <3> QED BY <1>11, <3>1, Distributes
  <2>2. i \in Int /\ j \in Int /\ k \in Int /\ m \in Int
    BY <1>2, <1>3, <1>11
  <2>3. i < j /\ k <= m
    BY <1>12, <1>13
  <2>4. p < q
    <3> HIDE DEF i, j, k, m, p, q
    <3> QED BY <2>1, <2>2, <2>3
  <2> QED BY <2>4
<1> DEFINE u == less - TotalFloor(claims)
           v == more - TotalFloor(claims)
           both == ts * tt
<1>15. u \in Int /\ v \in Int /\ u <= v
  BY <1>7
<1>16. (v * tt) * ts < (u * ts) * tt
  BY <1>7, <1>11, <1>14
<1> HIDE DEF u, v
<1>17. (v * tt) * ts = v * both /\ (u * ts) * tt = u * both
  BY <1>2, <1>3, <1>15
<1>18. both \in Nat \ {0}
  BY <1>2, <1>3
<1> HIDE DEF both
<1>19. v < u
  BY <1>15, <1>16, <1>17, <1>18, Cancel
<1> QED BY <1>15, <1>19

(* So it leaves nobody with less. *)
LEMMA PourFollows ==
  ASSUME NEW ids, IsFiniteSet(ids), NEW claims \in Claims(ids),
         NEW less \in Nat, NEW more \in Nat, less <= more, more < TotalWant(claims),
         NEW s \in SUBSET ids, Reached(less, claims, s), Satisfied(less, claims, s) = {},
         NEW t \in SUBSET ids, Reached(more, claims, t), Satisfied(more, claims, t) = {},
         NEW d \in ids
  PROVE  Pour(less, claims, s)[d] <= Pour(more, claims, t)[d]
<1> DEFINE ls == Left(less, claims, s)
           lt == Left(more, claims, t)
           ts == TotalWeight(claims, s)
           tt == TotalWeight(claims, t)
           gs == Pour(less, claims, s)[d] - Floor(claims)[d]
           gt == Pour(more, claims, t)[d] - Floor(claims)[d]
           r  == Room(claims)[d]
           w  == claims[d].weight
<1>1. TotalWant(claims) \in Nat /\ less < TotalWant(claims)
  BY ClaimsAre
<1>2. r \in Nat /\ w \in Nat \ {0} /\ Floor(claims)[d] \in Nat
  BY ClaimsAre
<1>3. /\ ls \in Nat /\ ts \in Nat \ {0} /\ gs \in Nat /\ gs <= r
      /\ d \in s => gs * ts <= ls * w
      /\ d \notin s => gs = r /\ r * ts <= ls * w
  <2> DEFINE gain == [e \in ids |-> Pour(less, claims, s)[e] - Floor(claims)[e]]
  <2>1. /\ ls \in Nat /\ ts \in Nat \ {0}
        /\ \A e \in ids : gain[e] \in Nat /\ gain[e] <= Room(claims)[e]
        /\ \A e \in s : gain[e] * ts <= ls * claims[e].weight
        /\ \A e \in ids \ s : /\ gain[e] = Room(claims)[e]
                              /\ Room(claims)[e] * ts <= ls * claims[e].weight
    BY <1>1, PourIs
  <2>2. gain[d] = gs
    OBVIOUS
  <2> HIDE DEF gain, gs, ls, ts
  <2> QED BY <2>1, <2>2
<1>4. /\ lt \in Nat /\ tt \in Nat \ {0} /\ gt \in Nat
      /\ d \in t => lt * w < (gt + 1) * tt
      /\ d \notin t => gt = r
  <2> DEFINE gain == [e \in ids |-> Pour(more, claims, t)[e] - Floor(claims)[e]]
  <2>1. /\ lt \in Nat /\ tt \in Nat \ {0}
        /\ \A e \in ids : gain[e] \in Nat /\ gain[e] <= Room(claims)[e]
        /\ \A e \in t : lt * claims[e].weight < (gain[e] + 1) * tt
        /\ \A e \in ids \ t : gain[e] = Room(claims)[e]
    BY PourIs
  <2>2. gain[d] = gt
    OBVIOUS
  <2> HIDE DEF gain, gt, lt, tt
  <2> QED BY <2>1, <2>2
<1>5. ls * tt <= lt * ts
  BY LevelFollows
<1>6. Pour(less, claims, s)[d] \in Nat /\ Pour(more, claims, t)[d] \in Nat
  <2>1. Pour(less, claims, s) \in [ids -> Nat] /\ Pour(more, claims, t) \in [ids -> Nat]
    BY PourFits DEF Reached
  <2> QED BY <2>1
<1>7. gs <= gt
  <2> HIDE DEF ls, lt, ts, tt, gs, gt, r, w
  <2>1. CASE d \notin t
    BY <1>3, <1>4, <2>1
  <2>2. CASE d \in t
    <3>1. gs * ts <= ls * w
      BY <1>3
    <3>2. gs * tt <= lt * w
      <4>1. gs \in Int /\ ts \in Nat \ {0} /\ ls \in Int /\ w \in Nat /\ lt \in Int /\ tt \in Nat
        BY <1>2, <1>3, <1>4
      <4> QED BY <1>5, <3>1, <4>1, Between
    <3>3. gs * tt < (gt + 1) * tt
      <4>1. gs * tt \in Int /\ lt * w \in Int /\ (gt + 1) * tt \in Int
        BY <1>2, <1>3, <1>4
      <4> QED BY <1>4, <2>2, <3>2, <4>1
    <3>4. gs < gt + 1
      BY <1>3, <1>4, <3>3, Cancel
    <3> QED BY <1>3, <1>4, <3>4
  <2> QED BY <2>1, <2>2
<1> QED BY <1>2, <1>6, <1>7

(* Nobody is granted more than it wants, and when the floors do not fit no  *)
(* more than its floor.                                                     *)
LEMMA AllocateWithin ==
  ASSUME NEW ids, IsFiniteSet(ids), NEW claims \in Claims(ids), NEW budget \in Int, NEW d \in ids
  PROVE  /\ Allocate(budget, claims)[d] <= claims[d].want
         /\ TotalFloor(claims) > AtLeastZero(budget) => Allocate(budget, claims)[d] <= Floor(claims)[d]
<1> DEFINE b  == AtLeastZero(budget)
           f  == Floor(claims)[d]
           tf == TotalFloor(claims)
           tw == TotalWant(claims)
<1>1. /\ b \in Nat /\ tf \in Nat /\ tw \in Nat /\ f \in Nat /\ claims[d].want \in Nat
      /\ f <= claims[d].want /\ DOMAIN claims = ids
  <2>1. /\ Room(claims)[d] \in Nat /\ f \in Nat /\ claims[d].want = f + Room(claims)[d]
        /\ claims[d].want \in Nat
    BY ClaimsAre
  <2>2. b \in Nat
    BY AtLeastZeroIs
  <2> HIDE DEF b, f
  <2> QED BY <2>1, <2>2, ClaimsAre
<1>2. tf <= tw
  <2>1. \A e \in ids : /\ Floor(claims)[e] \in Int /\ Wanted(claims)[e] \in Int
                       /\ Floor(claims)[e] <= Wanted(claims)[e]
    <3> SUFFICES ASSUME NEW e \in ids
                 PROVE  /\ Floor(claims)[e] \in Int /\ Wanted(claims)[e] \in Int
                        /\ Floor(claims)[e] <= Wanted(claims)[e]
      OBVIOUS
    <3>1. /\ Floor(claims)[e] \in Nat /\ Room(claims)[e] \in Nat
          /\ Wanted(claims)[e] = Floor(claims)[e] + Room(claims)[e]
      BY ClaimsAre
    <3> QED BY <3>1
  <2>2. Total(Floor(claims), ids) <= Total(Wanted(claims), ids)
    BY <2>1, TotalAtMost
  <2> QED BY <1>1, <2>2 DEF TotalFloor, TotalWant
<1>3. CASE tw <= b
  <2>1. Allocate(budget, claims)[d] = claims[d].want
    BY <1>1, <1>3 DEF Allocate
  <2> HIDE DEF b, f, tf, tw
  <2> QED BY <1>1, <1>2, <1>3, <2>1 DEF tf, b
<1>4. CASE tf > b
  <2>1. Allocate(budget, claims)[d] = (f * b) \div tf
    <3>1. ~ (tw <= b)
      <4> HIDE DEF b, tf, tw
      <4> QED BY <1>1, <1>2, <1>4
    <3> QED BY <1>1, <1>4, <3>1 DEF Allocate
  <2>2. (f * b) \div tf <= f
    <3> HIDE DEF b, f, tf, tw
    <3>1. f * b \in Nat /\ tf \in Nat \ {0}
      BY <1>1, <1>4, Product
    <3> DEFINE x == (f * b) \div tf
    <3>2. x \in Nat /\ x * tf <= f * b
      BY <3>1, RoundedDown
    <3>3. f * b <= f * tf
      <4>1. \A i, j, k \in Nat : i <= j => k * i <= k * j
        OBVIOUS
      <4> QED BY <1>1, <1>4, <4>1
    <3> HIDE DEF x
    <3>4. x * tf <= f * tf
      <4>1. x * tf \in Int /\ f * tf \in Int
        BY <1>1, <3>2
      <4> QED BY <3>1, <3>2, <3>3, <4>1
    <3>5. x <= f
      BY <1>1, <3>1, <3>2, <3>4, Cancel
    <3> QED BY <3>5 DEF x
  <2>3. (f * b) \div tf \in Nat
    <3> HIDE DEF b, f, tf, tw
    <3>1. f * b \in Nat /\ tf \in Nat \ {0}
      BY <1>1, <1>4, Product
    <3> QED BY <3>1, RoundedDown
  <2> DEFINE x == (f * b) \div tf
  <2>4. Allocate(budget, claims)[d] = x /\ x \in Nat /\ x <= f
    BY <2>1, <2>2, <2>3
  <2>5. x <= claims[d].want
    <3> HIDE DEF x, b, f, tf, tw
    <3> QED BY <1>1, <2>4
  <2> QED BY <2>4, <2>5
<1>5. CASE tf <= b /\ b < tw
  <2>1. Allocate(budget, claims) = Allocate(b, claims)
    <3>1. AtLeastZero(b) = b
      <4> HIDE DEF b
      <4> QED BY <1>1, AtLeastZeroIs
    <3> QED BY <3>1 DEF Allocate
  <2>2. Fair(b, claims, Allocate(b, claims))
    <3> HIDE DEF b
    <3> QED BY <1>1, <1>5, AllocateIsFair
  <2>3. ~ (tf > b)
    <3> HIDE DEF b, tf, tw, f
    <3> QED BY <1>1, <1>5
  <2> QED BY <1>1, <2>1, <2>2, <2>3 DEF Fair
<1>6. tw <= b \/ tf > b \/ (tf <= b /\ b < tw)
  <2> HIDE DEF b, tf, tw, f
  <2> QED BY <1>1
<1> QED BY <1>3, <1>4, <1>5, <1>6

(* allocate: raising the budget never takes anything away from anybody, from *)
(* the budgets in which the floors do not fit to those in which all is      *)
(* served; the code's test of it (allocate.rs:588) has one house.           *)
THEOREM AllocateIsMonotone ==
  ASSUME NEW ids, IsFiniteSet(ids), NEW claims \in Claims(ids),
         NEW less \in Int, NEW more \in Int, less <= more
  PROVE  \A d \in ids : Allocate(less, claims)[d] <= Allocate(more, claims)[d]
<1> SUFFICES ASSUME NEW d \in ids
             PROVE  Allocate(less, claims)[d] <= Allocate(more, claims)[d]
  OBVIOUS
<1> DEFINE a  == AtLeastZero(less)
           b  == AtLeastZero(more)
           f  == Floor(claims)[d]
           tf == TotalFloor(claims)
           tw == TotalWant(claims)
           ga == Allocate(less, claims)[d]
           gb == Allocate(more, claims)[d]
<1>1. a \in Nat /\ b \in Nat /\ a <= b
  BY AtLeastZeroIs
<1>2. /\ tf \in Nat /\ tw \in Nat /\ f \in Nat /\ DOMAIN claims = ids
      /\ claims[d].want \in Nat
  BY ClaimsAre
<1>3. ga \in Nat /\ gb \in Nat
  BY AllocateFits
<1>4. ga <= claims[d].want /\ (tf > a => ga <= f)
  BY AllocateWithin
<1>5. CASE tw <= b
  <2>1. gb = claims[d].want
    BY <1>2, <1>5 DEF Allocate
  <2>2. ga <= gb
    BY <1>4, <2>1
  <2> QED BY <2>2
<1>6. CASE b < tw /\ tf <= b /\ a < tf
  <2>1. Fair(b, claims, Allocate(b, claims))
    <3> HIDE DEF b
    <3> QED BY <1>1, <1>6, AllocateIsFair
  <2>2. AtLeastZero(b) = b
    <3> HIDE DEF b
    <3> QED BY <1>1, AtLeastZeroIs
  <2>3. gb = Allocate(b, claims)[d]
    BY <2>2 DEF Allocate
  <2>4. f <= gb
    BY <1>2, <2>1, <2>3 DEF Fair
  <2>5. ga <= f
    <3> HIDE DEF a, b, f, tf, tw, ga, gb
    <3> QED BY <1>1, <1>2, <1>4, <1>6
  <2>6. ga <= gb
    <3> HIDE DEF a, b, f, tf, tw, ga, gb
    <3> QED BY <1>2, <1>3, <2>4, <2>5
  <2> QED BY <2>6
<1>7. CASE b < tw /\ tf <= a
  <2>1. a < tw /\ tf <= b
    <3> HIDE DEF a, b, tf, tw, f
    <3> QED BY <1>1, <1>2, <1>7
  <2>2. /\ Allocate(less, claims) = Poured(a, claims)
        /\ Allocate(more, claims) = Poured(b, claims)
    <3>1. ~ (tw <= a) /\ ~ (tw <= b) /\ ~ (tf > a) /\ ~ (tf > b)
      <4> HIDE DEF a, b, tf, tw, f
      <4> QED BY <1>1, <1>2, <1>7, <2>1
    <3> QED BY <3>1 DEF Allocate
  <2> HIDE DEF a, b
  <2>3. PICK s \in SUBSET ids : /\ Reached(a, claims, s) /\ Satisfied(a, claims, s) = {}
                                /\ Poured(a, claims) = Pour(a, claims, s)
    BY <1>1, <1>7, PouredEnds
  <2>4. PICK t \in SUBSET ids : /\ Reached(b, claims, t) /\ Satisfied(b, claims, t) = {}
                                /\ Poured(b, claims) = Pour(b, claims, t)
    BY <1>1, <2>1, PouredEnds
  <2>5. Pour(a, claims, s)[d] <= Pour(b, claims, t)[d]
    BY <1>1, <1>7, <2>3, <2>4, PourFollows
  <2> QED BY <2>2, <2>3, <2>4, <2>5
<1>8. CASE b < tw /\ b < tf
  <2>1. a < tf /\ a < tw /\ tf \in Nat \ {0}
    <3> HIDE DEF a, b, tf, tw, f
    <3> QED BY <1>1, <1>2, <1>8
  <2>2. ga = (f * a) \div tf /\ gb = (f * b) \div tf
    <3>1. ~ (tw <= a) /\ ~ (tw <= b) /\ tf > a /\ tf > b
      <4> HIDE DEF a, b, tf, tw, f
      <4> QED BY <1>1, <1>2, <1>8, <2>1
    <3> QED BY <1>2, <3>1 DEF Allocate
  <2> HIDE DEF a, b, tf, tw, f
  <2>3. f * a \in Nat /\ f * b \in Nat
    BY <1>1, <1>2, Product
  <2>4. f * a <= f * b
    <3>1. \A i, j, k \in Nat : i <= j => k * i <= k * j
      OBVIOUS
    <3> QED BY <1>1, <1>2, <3>1
  <2>5. (f * a) \div tf <= (f * b) \div tf
    <3> DEFINE x == f * a
               y == f * b
    <3>1. x \in Nat /\ y \in Nat /\ x <= y
      BY <2>3, <2>4
    <3> HIDE DEF x, y
    <3>2. x \div tf <= y \div tf
      BY <2>1, <3>1, LargerQuotient
    <3> QED BY <3>2 DEF x, y
  <2> QED BY <2>2, <2>5
<1>9. tw <= b \/ (b < tw /\ tf <= b /\ a < tf) \/ (b < tw /\ tf <= a) \/ (b < tw /\ b < tf)
  <2> HIDE DEF a, b, tf, tw, f
  <2> QED BY <1>1, <1>2
<1> QED BY <1>5, <1>6, <1>7, <1>8, <1>9

-----------------------------------------------------------------------------
(* The house *)

LEMMA HouseIs ==
  /\ IsFiniteSet(Devices) /\ IsFiniteSet(Commandable) /\ Commandable \subseteq Devices
  /\ Evses \subseteq Devices /\ Batteries \subseteq Devices /\ Roofs \subseteq Devices
  /\ Pumps \subseteq Devices /\ Steuve \subseteq Devices /\ Switchable \subseteq Devices
  /\ Evses \cap Batteries = {} /\ Evses \cap Roofs = {} /\ Batteries \cap Roofs = {}
  /\ Pumps \cap Roofs = {} /\ Pumps \cap Evses = {} /\ Pumps \cap Batteries = {}
  /\ Tanks \subseteq Devices /\ Thermostats \subseteq Devices
  /\ Tanks \cap Roofs = {} /\ Tanks \cap Evses = {} /\ Tanks \cap Batteries = {}
  /\ Tanks \cap Pumps = {}
  /\ Steuve \cap Roofs = {}
<1>1. IsFiniteSet(Devices) /\ IsFiniteSet(Commandable) /\ Commandable \subseteq Devices
  BY GuardAssumption, FS_Subset
<1>2. /\ Evses \subseteq Devices /\ Batteries \subseteq Devices /\ Roofs \subseteq Devices
      /\ Pumps \subseteq Devices /\ Switchable \subseteq Devices
      /\ Evses \cap Batteries = {} /\ Evses \cap Roofs = {} /\ Batteries \cap Roofs = {}
      /\ Pumps \cap Roofs = {} /\ Pumps \cap Evses = {} /\ Pumps \cap Batteries = {}
  BY GuardAssumption DEF Evses, Batteries, Roofs, Pumps, Of
<1>4. /\ Tanks \subseteq Devices /\ Thermostats \subseteq Devices
      /\ Tanks \cap Roofs = {} /\ Tanks \cap Evses = {} /\ Tanks \cap Batteries = {}
      /\ Tanks \cap Pumps = {}
  BY DEF Evses, Batteries, Roofs, Pumps, Tanks, Thermostats, Of
<1>3. Steuve \subseteq Evses \cup Batteries \cup Pumps
  BY DEF Steuve
<1> QED BY <1>1, <1>2, <1>3, <1>4

(* A fuse.                                                                 *)
LEMMA CircuitIs ==
  ASSUME NEW i \in DOMAIN Circuits
  PROVE  Circuits[i].below \in SUBSET Devices /\ Circuits[i].limit \in Nat
<1>1. Circuits \in Seq([below : SUBSET Devices, meters : BOOLEAN, limit : Nat])
  BY GuardAssumption
<1> DEFINE Circuit == [below : SUBSET Devices, meters : BOOLEAN, limit : Nat]
<1>2. Circuits[i] \in Circuit
  <2>1. Circuits \in Seq(Circuit)
    BY <1>1
  <2> HIDE DEF Circuit
  <2>2. DOMAIN Circuits = 1 .. Len(Circuits)
    BY <2>1
  <2> QED BY <2>1, <2>2
<1> QED BY <1>2

(* Any part of the house is finite.                                        *)
LEMMA PartIsFinite == ASSUME NEW S \in SUBSET Devices PROVE IsFiniteSet(S)
BY HouseIs, FS_Subset

(* What flows in and out.                                                  *)
LEMMA FlowIs ==
  ASSUME NEW p \in Int
  PROVE  /\ Inflow(p) \in Nat /\ Inflow(p) = IF p >= 0 THEN p ELSE 0
         /\ Outflow(p) \in Nat /\ Outflow(p) = IF p <= 0 THEN -p ELSE 0
BY AtLeastZeroIs DEF Inflow, Outflow

(* A charge point *)

LEMMA ModesAre ==
  ASSUME NEW e \in Evses
  PROVE  /\ ModesOf(e) \in {{"Single"}, {"Three"}, {"Single", "Three"}}
         /\ e \in Switchable <=> ModesOf(e) = {"Single", "Three"}
BY DEF ModesOf

(* A charge point can draw no less on three conductors than on one.        *)
LEMMA MaxPowerIs ==
  ASSUME NEW e \in Devices
  PROVE  /\ MaxPower(e, "Single") \in Nat /\ MaxPower(e, "Three") \in Nat
         /\ MaxPower(e, "Single") <= MaxPower(e, "Three")
         /\ MaxPower(e, "Three") <= Nameplate[e]
<1>1. MostAmps \in Nat /\ Nameplate[e] \in Nat
  BY GuardAssumption
<1>2. MostAmps * Wires("Single") = MostAmps /\ MostAmps * Wires("Three") = MostAmps * 3
      /\ MostAmps * 3 \in Nat
  BY <1>1 DEF Wires
<1>3. /\ MaxPower(e, "Single") = IF MostAmps <= Nameplate[e] THEN MostAmps ELSE Nameplate[e]
      /\ MaxPower(e, "Three") = IF MostAmps * 3 <= Nameplate[e] THEN MostAmps * 3 ELSE Nameplate[e]
  BY <1>1, <1>2, MinIs DEF MaxPower
<1> QED BY <1>1, <1>2, <1>3

(* The least it charges with.                                              *)
LEMMA MinPowerIs ==
  ASSUME NEW e
  PROVE  /\ MinPower(e, "Single") = LeastAmps /\ MinPower(e, "Three") = 3 * LeastAmps
         /\ MinPower(e, "Single") \in Nat \ {0} /\ MinPower(e, "Three") \in Nat \ {0}
BY GuardAssumption DEF MinPower, Wires

(* The best it can do in the modes it has.                                 *)
LEMMA BestIs ==
  ASSUME NEW e \in Evses
  PROVE  /\ Best(e) \in Nat /\ Best(e) <= MaxPower(e, "Three")
         /\ \A m \in ModesOf(e) : MaxPower(e, m) <= Best(e)
<1>1. /\ MaxPower(e, "Single") \in Nat /\ MaxPower(e, "Three") \in Nat
      /\ MaxPower(e, "Single") <= MaxPower(e, "Three")
  BY MaxPowerIs, HouseIs
<1>2. CASE ModesOf(e) = {"Single"}
  <2>1. {MaxPower(e, m) : m \in ModesOf(e)} = {MaxPower(e, "Single"), MaxPower(e, "Single")}
    BY <1>2
  <2>2. Best(e) = MaxPower(e, "Single")
    BY <1>1, <2>1, MaxIs DEF Best
  <2> QED BY <1>1, <1>2, <2>2
<1>3. CASE ModesOf(e) = {"Three"}
  <2>1. {MaxPower(e, m) : m \in ModesOf(e)} = {MaxPower(e, "Three"), MaxPower(e, "Three")}
    BY <1>3
  <2>2. Best(e) = MaxPower(e, "Three")
    BY <1>1, <2>1, MaxIs DEF Best
  <2> QED BY <1>1, <1>3, <2>2
<1>4. CASE ModesOf(e) = {"Single", "Three"}
  <2>1. {MaxPower(e, m) : m \in ModesOf(e)} = {MaxPower(e, "Single"), MaxPower(e, "Three")}
    BY <1>4
  <2>2. Best(e) = MaxPower(e, "Three")
    BY <1>1, <2>1, MaxIs DEF Best
  <2> QED BY <1>1, <1>4, <2>2
<1> QED BY <1>2, <1>3, <1>4, ModesAre

(* The floor a device claims is a power.                                   *)
LEMMA UsefulIs ==
  ASSUME NEW d \in Devices
  PROVE  Useful(d) \in Nat
<1>1. CASE d \in Evses
  <2>1. MinPower(d, "Single") \in Nat /\ MinPower(d, "Three") \in Nat
    BY MinPowerIs
  <2>2. \/ {MinPower(d, m) : m \in ModesOf(d)} = {MinPower(d, "Single"), MinPower(d, "Single")}
        \/ {MinPower(d, m) : m \in ModesOf(d)} = {MinPower(d, "Three"), MinPower(d, "Three")}
        \/ {MinPower(d, m) : m \in ModesOf(d)} = {MinPower(d, "Single"), MinPower(d, "Three")}
    <3>1. \A S : S = {"Single"} => {MinPower(d, m) : m \in S} = {MinPower(d, "Single"), MinPower(d, "Single")}
      OBVIOUS
    <3>2. \A S : S = {"Three"} => {MinPower(d, m) : m \in S} = {MinPower(d, "Three"), MinPower(d, "Three")}
      OBVIOUS
    <3>3. \A S : S = {"Single", "Three"} =>
             {MinPower(d, m) : m \in S} = {MinPower(d, "Single"), MinPower(d, "Three")}
      OBVIOUS
    <3>4. ModesOf(d) = {"Single"} \/ ModesOf(d) = {"Three"} \/ ModesOf(d) = {"Single", "Three"}
      BY <1>1, ModesAre
    <3> QED BY <3>1, <3>2, <3>3, <3>4
  <2> DEFINE least == {MinPower(d, m) : m \in ModesOf(d)}
  <2>3. Useful(d) = Min(least)
    BY <1>1 DEF Useful
  <2> HIDE DEF least
  <2>4. \A p, q \in Nat : Min({p, q}) \in Nat
    BY MinIs
  <2>5. \E p, q \in Nat : least = {p, q}
    BY <2>1, <2>2 DEF least
  <2> QED BY <2>3, <2>4, <2>5
<1>2. CASE d \notin Evses
  BY <1>2 DEF Useful
<1> QED BY <1>1, <1>2

(* Every device may rest within its ratings, and only a roof, a store or a *)
(* car feeds in.                                                           *)
LEMMA RatingsAre ==
  ASSUME NEW d \in Devices
  PROVE  /\ Ratings(d) \in Envelope
         /\ Ratings(d).floor <= 0 /\ 0 <= Ratings(d).ceiling
         /\ d \in Roofs => Ratings(d).ceiling = 0
         /\ d \notin Roofs \cup Batteries \cup Evses => Ratings(d).floor = 0
         /\ d \in Evses => Ratings(d).ceiling = Best(d)
         /\ d \in Tanks => Ratings(d).ceiling = Takes[d]
<1>1. Nameplate[d] \in Nat /\ Takes[d] \in Nat /\ Gives[d] \in Nat
  BY GuardAssumption
<1>2. d \in Evses => Best(d) \in Nat
  BY BestIs
<1>3. CASE d \in Roofs
  BY <1>1, <1>3, HouseIs DEF Ratings, Envelope
<1>4. CASE d \in Batteries
  BY <1>1, <1>4, HouseIs DEF Ratings, Envelope
<1>5. CASE d \in Evses
  BY <1>1, <1>2, <1>5, HouseIs DEF Ratings, Envelope
<1>6. CASE d \in Tanks
  BY <1>1, <1>6, HouseIs DEF Ratings, Envelope
<1>7. CASE d \notin Roofs \cup Batteries \cup Evses \cup Tanks
  BY <1>1, <1>7 DEF Ratings, Envelope
<1> QED BY <1>3, <1>4, <1>5, <1>6, <1>7

-----------------------------------------------------------------------------
(* Bounds *)

LEMMA AtMostIs ==
  ASSUME NEW e \in Envelope, NEW p \in Int
  PROVE  /\ AtMost(e, p) \in Envelope /\ AtMost(e, p).floor = e.floor
         /\ AtMost(e, p).ceiling = IF e.ceiling <= p THEN e.ceiling ELSE p
<1>1. e.ceiling \in Int
  BY DEF Envelope
<1>2. Min({e.ceiling, p}) = IF e.ceiling <= p THEN e.ceiling ELSE p
  BY <1>1, MinIs
<1> QED BY <1>1, <1>2 DEF AtMost, Envelope

(* The floor goes up, and nothing else changes.                            *)
LEMMA AtLeastIs ==
  ASSUME NEW e \in Envelope, NEW p \in Int
  PROVE  /\ AtLeast(e, p) \in Envelope /\ AtLeast(e, p).ceiling = e.ceiling
         /\ AtLeast(e, p).floor = IF e.floor >= p THEN e.floor ELSE p
<1>1. e.floor \in Int
  BY DEF Envelope
<1>2. Max({e.floor, p}) = IF e.floor >= p THEN e.floor ELSE p
  BY <1>1, MaxIs
<1> QED BY <1>1, <1>2 DEF AtLeast, Envelope

(* A device may always be told zero. *)
MayRest(d, e) ==
  /\ e \in Envelope
  /\ Ratings(d).floor <= e.floor /\ e.floor <= 0
  /\ 0 <= e.ceiling /\ e.ceiling <= Ratings(d).ceiling

(* A ceiling of at least nothing leaves a device its rest.                 *)
LEMMA AtMostRests ==
  ASSUME NEW d \in Devices, NEW e, MayRest(d, e), NEW p \in Nat
  PROVE  MayRest(d, AtMost(e, p))
<1>1. /\ AtMost(e, p) \in Envelope /\ AtMost(e, p).floor = e.floor
      /\ AtMost(e, p).ceiling = IF e.ceiling <= p THEN e.ceiling ELSE p
  BY AtMostIs DEF MayRest
<1>2. e.ceiling \in Int /\ Ratings(d).ceiling \in Int
  BY RatingsAre DEF MayRest, Envelope
<1> QED BY <1>1, <1>2 DEF MayRest

(* And so does a floor of at most nothing.                                 *)
LEMMA AtLeastRests ==
  ASSUME NEW d \in Devices, NEW e, MayRest(d, e), NEW p \in Int, p <= 0
  PROVE  MayRest(d, AtLeast(e, p))
<1>1. /\ AtLeast(e, p) \in Envelope /\ AtLeast(e, p).ceiling = e.ceiling
      /\ AtLeast(e, p).floor = IF e.floor >= p THEN e.floor ELSE p
  BY AtLeastIs DEF MayRest
<1>2. e.floor \in Int /\ Ratings(d).floor \in Int
  BY RatingsAre DEF MayRest, Envelope
<1> QED BY <1>1, <1>2 DEF MayRest

(* A set of naturals has a least.                                          *)
LEMMA MinOfNats ==
  ASSUME NEW S \in SUBSET Nat, S # {}
  PROVE  Min(S) \in S /\ \A n \in S : Min(S) <= n
<1> DEFINE R == OpToRel(<, Nat)
<1>1. IsWellFoundedOn(R, Nat)
  BY NatLessThanWellFounded
<1>2. R = {ss \in Nat \X Nat : ss[1] < ss[2]}
  BY DEF OpToRel
<1> HIDE DEF R
<1>3. PICK n \in S : \A m \in S : ~ (<<m, n>> \in R)
  BY <1>1, WFMin
<1>4. ASSUME NEW m \in S PROVE n <= m
  <2>1. m \in Nat /\ n \in Nat
    OBVIOUS
  <2>2. m < n => <<m, n>> \in R
    BY <1>2, <2>1
  <2> QED BY <1>3, <2>1, <2>2
<1> QED BY <1>4 DEF Min

(* narrow_asset: what the store, the fuses and the connection bound a      *)
(* device to lets it rest.                                                 *)
LEMMA NarrowAssetRests ==
  ASSUME NEW d \in Devices, store \in [Batteries -> {"empty", "part", "full"}]
  PROVE  MayRest(d, NarrowAsset(d))
<1>1. MayRest(d, Ratings(d))
  BY RatingsAre DEF MayRest, Envelope
<1> DEFINE stored == WithinStore(d, Ratings(d))
           fused  == WithinFuses(d, stored)
<1>2. MayRest(d, stored)
  <2> HIDE DEF stored
  <2>1. CASE d \notin Batteries \cap heard
    BY <1>1, <2>1 DEF stored, WithinStore
  <2>2. CASE d \in Batteries \cap heard
    <3>1. store[d] \in {"empty", "part", "full"}
      BY <2>2
    <3>2. /\ MayRest(d, AtMost(Ratings(d), 0))
          /\ MayRest(d, AtLeast(Ratings(d), 0))
      BY <1>1, AtMostRests, AtLeastRests
    <3> QED BY <1>1, <2>2, <3>1, <3>2 DEF stored, WithinStore
  <2> QED BY <2>1, <2>2
<1> HIDE DEF stored
<1>3. MayRest(d, fused)
  <2> DEFINE limitsOn == {Circuits[i].limit :
                        i \in {j \in DOMAIN Circuits : d \in Circuits[j].below}}
  <2>1. CASE limitsOn = {}
    BY <1>2, <2>1 DEF WithinFuses
  <2>2. CASE limitsOn # {}
    <3>1. limitsOn \in SUBSET Nat
      <4>1. \A i \in DOMAIN Circuits : Circuits[i].limit \in Nat
        BY CircuitIs
      <4> QED BY <4>1
    <3>2. Min(limitsOn) \in Nat
      <4> HIDE DEF limitsOn
      <4> QED BY <2>2, <3>1, MinOfNats
    <3>3. fused = AtMost(AtLeast(stored, -Min(limitsOn)), Min(limitsOn))
      BY <2>2 DEF WithinFuses
    <3> HIDE DEF limitsOn, fused
    <3>4. MayRest(d, AtLeast(stored, -Min(limitsOn)))
      BY <1>2, <3>2, AtLeastRests
    <3> QED BY <3>2, <3>3, <3>4, AtMostRests
  <2> QED BY <2>1, <2>2
<1>4. NarrowAsset(d) = AtMost(fused, ImportCeiling)
  BY DEF NarrowAsset, fused, stored
<1> HIDE DEF fused
<1> QED BY <1>3, <1>4, GuardAssumption, AtMostRests

-----------------------------------------------------------------------------
(* What is left is spread, and fits the budget all the same. *)

LEMMA DistributeFits ==
  ASSUME NEW ids, IsFiniteSet(ids), NEW grants \in [ids -> Nat], NEW bound \in [ids -> Nat],
         NEW budget \in Nat, Total(grants, ids) <= budget
  PROVE  LET spread == Distribute(budget, grants, bound)
         IN  /\ spread.binding \in BOOLEAN
             /\ spread.bound \in [ids -> Nat]
             /\ Total(spread.bound, ids) <= budget
             /\ ~ spread.binding => Total(bound, ids) <= budget
<1> DEFINE room  == Table(Spare(grants, bound))
           rooms == Total(room, ids)
           left  == AtLeastZero(budget - Total(grants, ids))
           part  == [d \in ids |-> (room[d] * left) \div rooms]
           given == [d \in ids |-> IF rooms > left THEN grants[d] + (room[d] * left) \div rooms
                                   ELSE bound[d]]
           spread == Distribute(budget, grants, bound)
<1>1. /\ spread.binding = (rooms > left)
      /\ spread.bound = given
  BY TableIs DEF Distribute
<1>2. Total(grants, ids) \in Nat /\ left \in Nat /\ left = budget - Total(grants, ids)
  <2>1. Total(grants, ids) \in Nat
    BY TotalNat
  <2> QED BY <2>1, AtLeastZeroIs
<1>3. ASSUME NEW d \in ids
      PROVE  room[d] \in Nat /\ bound[d] <= grants[d] + room[d]
  <2>1. room[d] = AtLeastZero(bound[d] - grants[d])
    BY TableIs DEF Spare
  <2>2. bound[d] \in Nat /\ grants[d] \in Nat
    OBVIOUS
  <2> HIDE DEF room
  <2> QED BY <2>1, <2>2, AtLeastZeroIs
<1>4. rooms \in Nat
  <2> HIDE DEF room
  <2> QED BY <1>3, TotalNat
<1> HIDE DEF room, left
<1>5. ASSUME rooms > left
      PROVE  given \in [ids -> Nat] /\ Total(given, ids) <= budget
  <2>1. ASSUME NEW d \in ids
        PROVE  part[d] \in Nat /\ part[d] * rooms <= room[d] * left
    <3>1. room[d] * left \in Nat /\ rooms \in Nat \ {0}
      BY <1>2, <1>3, <1>4, <1>5, Product
    <3>2. part[d] = (room[d] * left) \div rooms
      OBVIOUS
    <3> HIDE DEF part, rooms
    <3> QED BY <3>1, <3>2, RoundedDown
  <2>2. given = [d \in ids |-> grants[d] + part[d]]
    BY <1>5
  <2> HIDE DEF given, part
  <2>3. given \in [ids -> Nat]
    BY <2>1, <2>2
  <2>4. Total(given, ids) = Total(grants, ids) + Total(part, ids)
    <3>1. \A d \in ids : /\ grants[d] \in Int /\ part[d] \in Int
                         /\ given[d] = grants[d] + part[d]
      BY <2>1, <2>2
    <3> QED BY <3>1, TotalPlus
  <2>5. Total(part, ids) * rooms <= rooms * left
    <3>1. \A d \in ids : /\ part[d] \in Int /\ room[d] \in Int
                         /\ part[d] * rooms <= room[d] * left
      BY <1>3, <2>1
    <3>2. Total(part, ids) * rooms <= Total(room, ids) * left
      <4>1. rooms \in Int /\ left \in Int
        BY <1>2, <1>4
      <4> HIDE DEF rooms
      <4> QED BY <3>1, <4>1, TotalScaled
    <3> QED BY <3>2
  <2>6. Total(part, ids) \in Nat
    BY <2>1, TotalNat
  <2> HIDE DEF rooms
  <2>7. Total(part, ids) * rooms <= left * rooms
    BY <1>2, <1>4, <2>5, <2>6
  <2>8. Total(part, ids) <= left
    BY <1>2, <1>4, <1>5, <2>6, <2>7, Cancel
  <2> QED BY <1>2, <2>3, <2>4, <2>6, <2>8
<1>6. ASSUME ~ (rooms > left)
      PROVE  given = bound /\ Total(bound, ids) <= budget
  <2>1. given = bound
    BY <1>6
  <2> DEFINE up == [d \in ids |-> grants[d] + room[d]]
  <2>2. \A d \in ids : /\ grants[d] \in Int /\ room[d] \in Int
                       /\ up[d] = grants[d] + room[d]
    BY <1>3
  <2>3. \A d \in ids : bound[d] \in Int /\ up[d] \in Int /\ bound[d] <= up[d]
    BY <1>3
  <2> HIDE DEF up
  <2>4. Total(up, ids) = Total(grants, ids) + Total(room, ids)
    BY <2>2, TotalPlus
  <2>5. Total(bound, ids) <= Total(up, ids)
    BY <2>3, TotalAtMost
  <2>6. Total(bound, ids) \in Int /\ Total(up, ids) \in Int
    BY <2>3, TotalInt
  <2>7. Total(bound, ids) <= budget
    BY <1>2, <1>4, <1>6, <2>4, <2>5, <2>6
  <2> QED BY <2>1, <2>7
<1>7. CASE rooms > left
  BY <1>1, <1>5, <1>7
<1>8. CASE ~ (rooms > left)
  BY <1>1, <1>6, <1>8
<1> QED BY <1>7, <1>8

(* What the devices may draw and feed in, at the most. *)
Ceilings(env) == [d \in Devices |-> env[d].ceiling]
Feeds(env)    == [d \in Devices |-> -env[d].floor]

(* No bound forces a device to draw or to feed in.                         *)
Rested(env) == env \in [Devices -> Envelope] /\ \A d \in Devices : MayRest(d, env[d])

(* What that says of each.                                                 *)
LEMMA RestedIs ==
  ASSUME NEW env, Rested(env), NEW d \in Devices
  PROVE  /\ env[d] \in Envelope /\ env[d].floor \in Int /\ env[d].ceiling \in Nat
         /\ env[d].floor <= 0
         /\ Ceilings(env)[d] = env[d].ceiling /\ Inflow(env[d].ceiling) = env[d].ceiling
         /\ Feeds(env)[d] = Outflow(env[d].floor) /\ Feeds(env)[d] \in Nat
         /\ Feeds(env)[d] = -env[d].floor
<1>1. env[d].floor \in Int /\ env[d].ceiling \in Int /\ env[d] \in Envelope
  BY DEF Rested, Envelope
<1>2. env[d].floor <= 0 /\ 0 <= env[d].ceiling
  BY DEF Rested, MayRest
<1> QED BY <1>1, <1>2, FlowIs DEF Ceilings, Feeds

(* Bounds only ever get tighter. *)
Tightens(after, before) ==
  \A d \in Devices : /\ before[d].floor <= after[d].floor
                     /\ after[d].ceiling <= before[d].ceiling

(* A bound on the draw leaves what may be fed in alone.                    *)
SameFloors(after, before) == \A d \in Devices : after[d].floor = before[d].floor

(* To tighten twice is to tighten.                                         *)
LEMMA TightensOn ==
  ASSUME NEW a, NEW b, NEW c, Rested(a), Rested(b), Rested(c), Tightens(b, a), Tightens(c, b)
  PROVE  Tightens(c, a)
BY RestedIs DEF Tightens

(* What all may draw only ever gets less.                                  *)
LEMMA TightensTotal ==
  ASSUME NEW a, NEW b, Rested(a), Rested(b), Tightens(b, a), NEW S \in SUBSET Devices
  PROVE  /\ Total(Ceilings(b), S) <= Total(Ceilings(a), S)
         /\ Total(Ceilings(b), S) \in Nat /\ Total(Ceilings(a), S) \in Nat
         /\ Total(Feeds(b), S) <= Total(Feeds(a), S)
         /\ Total(Feeds(b), S) \in Nat /\ Total(Feeds(a), S) \in Nat
<1>1. IsFiniteSet(S)
  BY PartIsFinite
<1>2. \A d \in S : /\ Ceilings(a)[d] \in Nat /\ Ceilings(b)[d] \in Nat
                   /\ Feeds(a)[d] \in Nat /\ Feeds(b)[d] \in Nat
  BY RestedIs
<1>3. \A d \in S : /\ Ceilings(b)[d] \in Int /\ Ceilings(a)[d] \in Int
                   /\ Ceilings(b)[d] <= Ceilings(a)[d]
  BY RestedIs DEF Tightens
<1>4. \A d \in S : /\ Feeds(b)[d] \in Int /\ Feeds(a)[d] \in Int
                   /\ Feeds(b)[d] <= Feeds(a)[d]
  BY RestedIs DEF Tightens
<1>5. Total(Ceilings(b), S) <= Total(Ceilings(a), S)
  BY <1>1, <1>3, TotalAtMost
<1>6. Total(Feeds(b), S) <= Total(Feeds(a), S)
  BY <1>1, <1>4, TotalAtMost
<1> QED BY <1>1, <1>2, <1>5, <1>6, TotalNat

(* share: the ceilings of those who share fit the budget, what is left of  *)
(* it included.                                                            *)
LEMMA ShareFits ==
  ASSUME NEW env, Rested(env), NEW ids \in SUBSET Commandable, NEW budget \in Nat,
         NEW w \in [Commandable -> Int]
  PROVE  LET after == Share(env, ids, budget, w)
         IN  /\ Rested(after) /\ Tightens(after, env) /\ SameFloors(after, env)
             /\ Total(Ceilings(after), ids) <= budget
<1> DEFINE claims == DrawClaims(env, ids, w)
           grants == AllocateIndivisible(budget, claims)
           bound  == [d \in ids |-> env[d].ceiling]
           spread == Distribute(budget, grants, bound)
           after  == Share(env, ids, budget, w)
<1>1. ids \in SUBSET Devices /\ IsFiniteSet(ids) /\ AtLeastZero(budget) = budget
  BY HouseIs, PartIsFinite, AtLeastZeroIs
<1>2. after = [d \in Devices |-> IF d \in ids /\ spread.binding
                                 THEN AtMost(env[d], spread.bound[d]) ELSE env[d]]
  BY TableIs DEF Share
<1>3. claims \in Claims(ids)
  <2>1. ASSUME NEW d \in ids
        PROVE  /\ Min({Inflow(w[d]), Inflow(env[d].ceiling)}) \in Nat
               /\ Useful(d) \in Nat /\ Weight[d] \in Nat \ {0}
    <3>1. w[d] \in Int /\ env[d].ceiling \in Int
      BY <1>1, RestedIs
    <3>2. Inflow(w[d]) \in Nat /\ Inflow(env[d].ceiling) \in Nat
      BY <3>1, FlowIs
    <3>3. Weight[d] \in Nat \ {0}
      BY <1>1, GuardAssumption
    <3>4. \A p, q \in Nat : Min({p, q}) \in Nat
      BY MinIs
    <3>5. d \in Devices
      BY <1>1
    <3>6. Useful(d) \in Nat
      BY <3>5, UsefulIs
    <3> QED BY <3>2, <3>3, <3>4, <3>6
  <2> QED BY <2>1 DEF DrawClaims, Claims
<1> HIDE DEF claims
<1>4. grants \in [ids -> Nat] /\ Total(grants, ids) <= budget
  BY <1>1, <1>3, AllocateIndivisibleFits
<1>5. bound \in [ids -> Nat]
  BY <1>1, RestedIs
<1> HIDE DEF grants, bound
<1>6. /\ spread.binding \in BOOLEAN /\ spread.bound \in [ids -> Nat]
      /\ Total(spread.bound, ids) <= budget
      /\ ~ spread.binding => Total(bound, ids) <= budget
  BY <1>1, <1>4, <1>5, DistributeFits
<1> HIDE DEF spread, after
<1>7. ASSUME NEW d \in Devices
      PROVE  /\ MayRest(d, after[d]) /\ after[d].floor = env[d].floor
             /\ after[d].ceiling <= env[d].ceiling
             /\ d \in ids /\ spread.binding => after[d].ceiling <= spread.bound[d]
             /\ ~ spread.binding => after[d].ceiling = env[d].ceiling
  <2>1. MayRest(d, env[d]) /\ env[d].ceiling \in Int /\ env[d] \in Envelope
    BY RestedIs DEF Rested
  <2>2. CASE d \in ids /\ spread.binding
    <3>1. after[d] = AtMost(env[d], spread.bound[d]) /\ spread.bound[d] \in Nat
      BY <1>2, <1>6, <2>2
    <3>2. MayRest(d, after[d])
      BY <2>1, <3>1, AtMostRests
    <3>3. /\ after[d].floor = env[d].floor
          /\ after[d].ceiling = IF env[d].ceiling <= spread.bound[d]
                                THEN env[d].ceiling ELSE spread.bound[d]
      <4> DEFINE p == spread.bound[d]
      <4>1. p \in Int /\ after[d] = AtMost(env[d], p)
        BY <3>1
      <4> HIDE DEF p
      <4>2. /\ after[d].floor = env[d].floor
            /\ after[d].ceiling = IF env[d].ceiling <= p THEN env[d].ceiling ELSE p
        BY <2>1, <4>1, AtMostIs
      <4> QED BY <4>2 DEF p
    <3> QED BY <2>1, <2>2, <3>1, <3>2, <3>3
  <2>3. CASE ~ (d \in ids /\ spread.binding)
    <3>1. after[d] = env[d]
      BY <1>2, <2>3
    <3> QED BY <2>1, <2>3, <3>1
  <2> QED BY <2>2, <2>3
<1>8. Rested(after)
  <2>1. \A d \in Devices : after[d] \in Envelope
    BY <1>7 DEF MayRest
  <2> QED BY <1>2, <1>7, <2>1 DEF Rested
<1>9. Tightens(after, env) /\ SameFloors(after, env)
  <2>1. \A d \in Devices : env[d].floor <= after[d].floor
    BY <1>7, RestedIs
  <2> QED BY <1>7, <2>1 DEF Tightens, SameFloors
<1>10. Total(Ceilings(after), ids) <= budget
  <2>1. \A d \in ids : Ceilings(after)[d] = after[d].ceiling /\ after[d].ceiling \in Nat
    BY <1>1, <1>8, RestedIs
  <2>2. CASE spread.binding
    <3>1. \A d \in ids : /\ Ceilings(after)[d] \in Int /\ spread.bound[d] \in Int
                         /\ Ceilings(after)[d] <= spread.bound[d]
      BY <1>1, <1>6, <1>7, <2>1, <2>2
    <3>2. Total(Ceilings(after), ids) <= Total(spread.bound, ids)
      BY <1>1, <3>1, TotalAtMost
    <3>3. Total(Ceilings(after), ids) \in Int /\ Total(spread.bound, ids) \in Int
      BY <1>1, <3>1, TotalInt
    <3> QED BY <1>6, <3>2, <3>3
  <2>3. CASE ~ spread.binding
    <3>1. \A d \in ids : Ceilings(after)[d] \in Int /\ bound[d] = Ceilings(after)[d]
      BY <1>1, <1>7, <2>1, <2>3 DEF bound
    <3>2. Total(Ceilings(after), ids) = Total(bound, ids)
      BY <1>1, <3>1, TotalSame
    <3> QED BY <1>6, <2>3, <3>2
  <2> QED BY <1>6, <2>2, <2>3
<1> QED BY <1>8, <1>9, <1>10 DEF after

(* share_export: the floors do.                                            *)
LEMMA ShareExportFits ==
  ASSUME NEW env, Rested(env), NEW budget \in Nat, NEW w \in [Commandable -> Int]
  PROVE  LET after == ShareExport(env, budget, w)
         IN  /\ Rested(after) /\ Tightens(after, env)
             /\ Total(Feeds(after), Commandable) <= budget
<1> DEFINE ids    == Commandable
           claims == FeedInClaims(env, w)
           grants == Allocate(budget, claims)
           bound  == [d \in Commandable |-> Outflow(env[d].floor)]
           spread == Distribute(budget, grants, bound)
           after  == ShareExport(env, budget, w)
<1>1. ids \in SUBSET Devices /\ IsFiniteSet(ids) /\ AtLeastZero(budget) = budget
  BY HouseIs, AtLeastZeroIs
<1>2. after = [d \in Devices |-> IF d \in ids /\ spread.binding
                                 THEN AtLeast(env[d], -spread.bound[d]) ELSE env[d]]
  BY TableIs DEF ShareExport
<1>3. claims \in Claims(ids)
  <2>1. ASSUME NEW d \in ids
        PROVE  /\ Min({Outflow(w[d]), Outflow(env[d].floor)}) \in Nat
               /\ Weight[d] \in Nat \ {0}
    <3>1. w[d] \in Int /\ env[d].floor \in Int
      BY <1>1, RestedIs
    <3>2. Outflow(w[d]) \in Nat /\ Outflow(env[d].floor) \in Nat
      BY <3>1, FlowIs
    <3>3. Weight[d] \in Nat \ {0}
      BY <1>1, GuardAssumption
    <3> QED BY <3>2, <3>3, MinIs
  <2> QED BY <2>1 DEF FeedInClaims, Claims
<1> HIDE DEF claims
<1>4. grants \in [ids -> Nat] /\ Total(grants, ids) <= budget
  BY <1>1, <1>3, AllocateFits
<1>5. bound \in [ids -> Nat]
  BY <1>1, RestedIs
<1> HIDE DEF grants, bound
<1>6. /\ spread.binding \in BOOLEAN /\ spread.bound \in [ids -> Nat]
      /\ Total(spread.bound, ids) <= budget
      /\ ~ spread.binding => Total(bound, ids) <= budget
  BY <1>1, <1>4, <1>5, DistributeFits
<1> HIDE DEF spread, after
<1>7. ASSUME NEW d \in Devices
      PROVE  /\ MayRest(d, after[d]) /\ after[d].ceiling = env[d].ceiling
             /\ env[d].floor <= after[d].floor
             /\ d \in ids /\ spread.binding => -after[d].floor <= spread.bound[d]
             /\ ~ spread.binding => after[d].floor = env[d].floor
  <2>1. MayRest(d, env[d]) /\ env[d].floor \in Int /\ env[d] \in Envelope
    BY RestedIs DEF Rested
  <2>2. CASE d \in ids /\ spread.binding
    <3>1. after[d] = AtLeast(env[d], -spread.bound[d]) /\ spread.bound[d] \in Nat
      BY <1>2, <1>6, <2>2
    <3>2. MayRest(d, after[d])
      BY <2>1, <3>1, AtLeastRests
    <3>3. /\ after[d].ceiling = env[d].ceiling
          /\ after[d].floor = IF env[d].floor >= -spread.bound[d]
                              THEN env[d].floor ELSE -spread.bound[d]
      <4> DEFINE p == -spread.bound[d]
      <4>1. p \in Int /\ after[d] = AtLeast(env[d], p)
        BY <3>1
      <4> HIDE DEF p
      <4>2. /\ after[d].ceiling = env[d].ceiling
            /\ after[d].floor = IF env[d].floor >= p THEN env[d].floor ELSE p
        BY <2>1, <4>1, AtLeastIs
      <4> QED BY <4>2 DEF p
    <3> QED BY <2>1, <2>2, <3>1, <3>2, <3>3
  <2>3. CASE ~ (d \in ids /\ spread.binding)
    <3>1. after[d] = env[d]
      BY <1>2, <2>3
    <3> QED BY <2>1, <2>3, <3>1
  <2> QED BY <2>2, <2>3
<1>8. Rested(after)
  <2>1. \A d \in Devices : after[d] \in Envelope
    BY <1>7 DEF MayRest
  <2> QED BY <1>2, <1>7, <2>1 DEF Rested
<1>9. Tightens(after, env)
  <2>1. \A d \in Devices : after[d].ceiling <= env[d].ceiling
    BY <1>7, RestedIs
  <2> QED BY <1>7, <2>1 DEF Tightens
<1>10. Total(Feeds(after), ids) <= budget
  <2>1. \A d \in ids : Feeds(after)[d] = -after[d].floor /\ Feeds(after)[d] \in Nat
    BY <1>1, <1>8, RestedIs
  <2>2. CASE spread.binding
    <3>1. \A d \in ids : /\ Feeds(after)[d] \in Int /\ spread.bound[d] \in Int
                         /\ Feeds(after)[d] <= spread.bound[d]
      BY <1>1, <1>6, <1>7, <2>1, <2>2
    <3>2. Total(Feeds(after), ids) <= Total(spread.bound, ids)
      BY <1>1, <3>1, TotalAtMost
    <3>3. Total(Feeds(after), ids) \in Int /\ Total(spread.bound, ids) \in Int
      BY <1>1, <3>1, TotalInt
    <3> QED BY <1>6, <3>2, <3>3
  <2>3. CASE ~ spread.binding
    <3>1. ASSUME NEW d \in ids
          PROVE  Feeds(after)[d] \in Int /\ bound[d] = Feeds(after)[d]
      <4>1. bound[d] = Outflow(env[d].floor)
        BY DEF bound
      <4>2. Outflow(env[d].floor) = -env[d].floor
        BY <1>1, RestedIs
      <4>3. after[d].floor = env[d].floor
        BY <1>1, <1>7, <2>3
      <4> QED BY <2>1, <4>1, <4>2, <4>3
    <3>2. Total(Feeds(after), ids) = Total(bound, ids)
      BY <1>1, <3>1, TotalSame
    <3> QED BY <1>6, <2>3, <3>2
  <2> QED BY <1>6, <2>2, <2>3
<1> QED BY <1>8, <1>9, <1>10 DEF after

-----------------------------------------------------------------------------
(* What the guard makes of the house *)

LEMMA MaxOfThree ==
  ASSUME NEW p \in Int, NEW q \in Int, NEW r \in Int
  PROVE  /\ Max({p, q, r}) \in {p, q, r}
         /\ Max({p, q, r}) >= p /\ Max({p, q, r}) >= q /\ Max({p, q, r}) >= r
<1>1. PICK m \in {p, q, r} : \A n \in {p, q, r} : m >= n
  <2>1. \/ (p >= q /\ p >= r) \/ (q >= p /\ q >= r) \/ (r >= p /\ r >= q)
    OBVIOUS
  <2> QED BY <2>1
<1> QED BY <1>1 DEF Max

(* What a device draws and feeds in, of which one is nothing.              *)
LEMMA DeviceIs ==
  ASSUME GuardTypeOK, NEW d \in Devices
  PROVE  /\ power[d] \in Int /\ Nameplate[d] \in Nat
         /\ Drawn[d] \in Nat /\ Drawn[d] = Inflow(power[d])
         /\ Drawn[d] = (IF power[d] >= 0 THEN power[d] ELSE 0)
         /\ Fed[d] \in Nat /\ Fed[d] = Outflow(power[d])
         /\ Fed[d] = (IF power[d] <= 0 THEN -power[d] ELSE 0)
         /\ power[d] = Drawn[d] - Fed[d]
<1>1. power[d] \in Int /\ Nameplate[d] \in Nat
  BY GuardAssumption DEF GuardTypeOK
<1>2. Drawn[d] = Inflow(power[d]) /\ Fed[d] = Outflow(power[d])
  BY DEF Drawn, Fed
<1> QED BY <1>1, <1>2, FlowIs

(* What the guard takes it to, which is the truth where it is heard.       *)
LEMMA SeenIs ==
  ASSUME GuardTypeOK, NEW d \in Devices
  PROVE  /\ Draw[d] \in Nat /\ Feed[d] \in Nat
         /\ d \in heard => Draw[d] = Drawn[d] /\ Feed[d] = Fed[d]
         /\ d \notin heard => Feed[d] = 0
         /\ d \in Assumed => d \notin heard /\ Draw[d] = Nameplate[d]
         /\ d \notin heard /\ d \notin Assumed => Draw[d] = 0
         /\ Feed[d] <= Fed[d]
<1>1. /\ Draw[d] = IF d \in heard THEN Drawn[d] ELSE IF d \in Assumed THEN Nameplate[d] ELSE 0
      /\ Feed[d] = IF d \in heard THEN Fed[d] ELSE 0
      /\ d \in Assumed => d \notin heard
  BY DEF Draw, Feed, Drawn, Fed, Assumed
<1> QED BY <1>1, DeviceIs

(* The same of any part of the house.                                      *)
LEMMA Sums ==
  ASSUME GuardTypeOK, NEW S \in SUBSET Devices
  PROVE  /\ IsFiniteSet(S)
         /\ Total(Draw, S) \in Nat /\ Total(Feed, S) \in Nat
         /\ Total(Drawn, S) \in Nat /\ Total(Fed, S) \in Nat
         /\ Total(power, S) \in Int /\ Total(Nameplate, S) \in Nat
         /\ Total(power, S) = Total(Drawn, S) - Total(Fed, S)
         /\ Total(Feed, S) <= Total(Fed, S)
         /\ S \subseteq heard => Total(Draw, S) = Total(Drawn, S) /\ Total(Feed, S) = Total(Fed, S)
<1>1. IsFiniteSet(S)
  BY PartIsFinite
<1>2. \A d \in S : /\ Draw[d] \in Nat /\ Feed[d] \in Nat /\ Drawn[d] \in Nat
                   /\ Fed[d] \in Nat /\ Nameplate[d] \in Nat
  BY DeviceIs, SeenIs
<1>3. /\ Total(Draw, S) \in Nat /\ Total(Feed, S) \in Nat
      /\ Total(Drawn, S) \in Nat /\ Total(Fed, S) \in Nat /\ Total(Nameplate, S) \in Nat
  BY <1>1, <1>2, TotalNat
<1>4. \A d \in S : power[d] \in Int /\ Fed[d] \in Int /\ Drawn[d] = power[d] + Fed[d]
  BY DeviceIs
<1>5. Total(Drawn, S) = Total(power, S) + Total(Fed, S) /\ Total(power, S) \in Int
  BY <1>1, <1>4, TotalPlus, TotalInt
<1>6. Total(Feed, S) <= Total(Fed, S)
  <2>1. \A d \in S : Feed[d] \in Int /\ Fed[d] \in Int /\ Feed[d] <= Fed[d]
    BY DeviceIs, SeenIs
  <2> QED BY <1>1, <2>1, TotalAtMost
<1>7. ASSUME S \subseteq heard
      PROVE  Total(Draw, S) = Total(Drawn, S) /\ Total(Feed, S) = Total(Fed, S)
  <2>1. \A d \in S : Draw[d] \in Int /\ Drawn[d] = Draw[d]
    BY <1>7, SeenIs
  <2>2. \A d \in S : Feed[d] \in Int /\ Fed[d] = Feed[d]
    BY <1>7, SeenIs
  <2> QED BY <1>1, <2>1, <2>2, TotalSame
<1> QED BY <1>1, <1>3, <1>5, <1>6, <1>7

(* Guard::flows: the balance the budgets come of.                          *)
LEMMA FlowsAre ==
  ASSUME GuardTypeOK, NEW w \in [Commandable -> Int]
  PROVE  LET flows   == Flows(w)
             derived == Grid - Total(Draw, Steuve) + Total(Feed, Devices \ Steuve)
                          + Total(Feed, Steuve)
         IN  /\ flows.other \in Nat /\ flows.generation \in Nat /\ flows.uncommandable \in Nat
             /\ flows.uncontrollable \in Nat /\ flows.metered \in Nat
             /\ Grid \in Int /\ Grid = Total(power, Devices) + rest
             /\ flows.other >= Total(Draw, Devices \ Steuve)
             /\ metered => flows.other >= derived
             /\ flows.other \in {Total(Draw, Devices \ Steuve), 0} \/ (metered /\ flows.other = derived)
             /\ flows.generation = Total(Feed, Devices \ Steuve)
             /\ flows.uncommandable = Total(Draw, Steuve \ Commandable)
             /\ flows.uncontrollable = Total(Feed, Devices \ (Steuve \cup Commandable))
             /\ flows.metered = AtLeastZero(flows.other + Total(Draw, Steuve)
                                  - Total(Draw, Assumed)
                                  - Total(Ending(w), (heard \cap Commandable) \ Thermostats)
                                  - Uncallable)
<1> DEFINE flows    == Flows(w)
           reported == Total(Draw, Devices \ Steuve)
           steuve   == Total(Draw, Steuve)
           derived  == Grid - steuve + Total(Feed, Devices \ Steuve) + Total(Feed, Steuve)
           net      == flows.other + steuve - Total(Draw, Assumed)
                         - Total(Ending(w), (heard \cap Commandable) \ Thermostats) - Uncallable
<1>1. /\ reported \in Nat /\ steuve \in Nat /\ Total(Feed, Devices \ Steuve) \in Nat
      /\ Total(Feed, Steuve) \in Nat /\ Total(Draw, Steuve \ Commandable) \in Nat
      /\ Total(Feed, Devices \ (Steuve \cup Commandable)) \in Nat
      /\ Total(power, Devices) \in Int /\ Total(Draw, Assumed) \in Nat
      /\ Total(Draw, heard \cap Thermostats) \in Nat
  <2>1. /\ Devices \ Steuve \in SUBSET Devices /\ Steuve \in SUBSET Devices
        /\ Steuve \ Commandable \in SUBSET Devices /\ Devices \in SUBSET Devices
        /\ Devices \ (Steuve \cup Commandable) \in SUBSET Devices
        /\ Assumed \in SUBSET Devices /\ heard \cap Thermostats \in SUBSET Devices
    BY HouseIs DEF Assumed
  <2> QED BY <2>1, Sums
<1>2. rest \in Nat /\ Grid = Total(power, Devices) + rest /\ metered \in BOOLEAN
  BY DEF GuardTypeOK, Grid
<1>3. Grid \in Int /\ derived \in Int
  BY <1>1, <1>2
<1>4. /\ flows.other = IF metered THEN Max({reported, derived, 0}) ELSE reported
      /\ flows.generation = Total(Feed, Devices \ Steuve)
      /\ flows.uncommandable = Total(Draw, Steuve \ Commandable)
      /\ flows.uncontrollable = Total(Feed, Devices \ (Steuve \cup Commandable))
      /\ flows.metered = AtLeastZero(net)
  BY DEF Flows
<1> HIDE DEF flows, reported, derived, steuve
<1>5. /\ flows.other \in Nat /\ flows.other >= reported
      /\ metered => flows.other >= derived
      /\ flows.other \in {reported, 0} \/ (metered /\ flows.other = derived)
  <2>1. CASE metered
    <3> DEFINE top == Max({reported, derived, 0})
    <3>1. /\ top \in {reported, derived, 0} /\ top >= reported /\ top >= derived /\ top >= 0
      <4>1. reported \in Int /\ derived \in Int /\ 0 \in Int
        BY <1>1, <1>3
      <4> QED BY <4>1, MaxOfThree
    <3>2. flows.other = top
      BY <1>4, <2>1
    <3> HIDE DEF top
    <3> QED BY <1>1, <1>3, <2>1, <3>1, <3>2
  <2>2. CASE ~ metered
    BY <1>1, <1>4, <2>2
  <2> QED BY <2>1, <2>2
<1>6. Total(Ending(w), (heard \cap Commandable) \ Thermostats) \in Int
  <2> DEFINE S == (heard \cap Commandable) \ Thermostats
  <2>1. IsFiniteSet(S)
    BY HouseIs, FS_Subset
  <2>2. ASSUME NEW d \in S PROVE Ending(w)[d] \in Int
    <3>1. d \in Commandable /\ d \in Devices /\ power[d] \in Int /\ w[d] \in Int
      BY HouseIs, DeviceIs
    <3>2. Inflow(w[d]) \in Nat
      BY <3>1, FlowIs
    <3>3. AtLeastZero(power[d] - Inflow(w[d])) \in Nat
      BY <3>1, <3>2, AtLeastZeroIs
    <3> QED BY <3>1, <3>3 DEF Ending
  <2> HIDE DEF S
  <2>3. Total(Ending(w), S) \in Int
    BY <2>1, <2>2, TotalInt
  <2> QED BY <2>3 DEF S
<1>7. Uncallable \in Nat
  <2>1. LendWindow \in Nat /\ TickPeriod \in Nat \ {0}
    BY GuardAssumption
  <2>2. AtLeastZero(TickPeriod - LendWindow) \in Nat
    BY <2>1, AtLeastZeroIs
  <2> DEFINE product == Total(Draw, heard \cap Thermostats) * AtLeastZero(TickPeriod - LendWindow)
  <2>3. product \in Nat
    BY <1>1, <2>2, Product
  <2>4. Uncallable = product \div TickPeriod
    BY DEF Uncallable
  <2> HIDE DEF product
  <2> QED BY <2>1, <2>3, <2>4, RoundedDown
<1>8. net \in Int
  BY <1>1, <1>5, <1>6, <1>7 DEF steuve
<1> HIDE DEF net
<1>9. flows.metered \in Nat
  BY <1>4, <1>8, AtLeastZeroIs
<1> QED BY <1>1, <1>2, <1>3, <1>4, <1>5, <1>9 DEF flows, derived, reported, steuve, net

-----------------------------------------------------------------------------
(* One bound after the other *)

LEMMA HeadroomIs ==
  ASSUME NEW p \in Int, NEW q \in Int
  PROVE  /\ PhysicalHeadroom(p, q) \in Nat
         /\ PhysicalHeadroom(p, q) = IF p >= q THEN p - q ELSE 0
<1>1. p - q \in Int
  OBVIOUS
<1>2. AtLeastZero(p - q) \in Nat /\ AtLeastZero(p - q) = IF p - q >= 0 THEN p - q ELSE 0
  BY <1>1, AtLeastZeroIs
<1> QED BY <1>2 DEF PhysicalHeadroom

(* The same floors feed in the same.                                       *)
LEMMA SameFloorsFeed ==
  ASSUME NEW a, NEW b, Rested(a), Rested(b), SameFloors(b, a), NEW S \in SUBSET Devices
  PROVE  Total(Feeds(b), S) = Total(Feeds(a), S)
<1>1. IsFiniteSet(S)
  BY PartIsFinite
<1>2. \A d \in S : Feeds(b)[d] \in Int /\ Feeds(a)[d] = Feeds(b)[d]
  BY RestedIs DEF SameFloors
<1> QED BY <1>1, <1>2, TotalSame

(* The bounds of each device alone.                                        *)
LEMMA OwnRests ==
  ASSUME GuardTypeOK
  PROVE  Rested([d \in Devices |-> NarrowAsset(d)])
<1>1. \A d \in Devices : MayRest(d, NarrowAsset(d))
  BY NarrowAssetRests DEF GuardTypeOK
<1>2. \A d \in Devices : NarrowAsset(d) \in Envelope
  BY <1>1 DEF MayRest
<1> QED BY <1>1, <1>2 DEF Rested

(* The feed-in cap is the least of those in force.                         *)
LEMMA FeedInCapIs ==
  ASSUME GuardTypeOK
  PROVE  /\ FeedInCap \in Nat /\ ExportCeiling \in Nat
         /\ LET caps == {StatutoryCap, limits.feedIn} \ {None}
            IN  /\ caps = {} => FeedInCap = ExportCeiling
                /\ caps # {} => /\ Min(caps) \in Nat
                                /\ FeedInCap = ExportCeiling \/ Min(caps) <= FeedInCap
<1> DEFINE caps == {StatutoryCap, limits.feedIn} \ {None}
           all  == {ExportCeiling, StatutoryCap, limits.feedIn} \ {None}
<1>1. ExportCeiling \in Nat /\ ExportCeiling # None
  BY GuardAssumption
<1>2. caps \in SUBSET Nat /\ all = caps \cup {ExportCeiling}
  BY <1>1, GuardAssumption DEF GuardTypeOK
<1>3. FeedInCap = Min(all)
  BY DEF FeedInCap
<1> HIDE DEF caps, all
<1>4. Min(all) \in all /\ \A n \in all : Min(all) <= n
  BY <1>1, <1>2, MinOfNats
<1>5. ASSUME caps # {}
      PROVE  Min(caps) \in Nat /\ (FeedInCap = ExportCeiling \/ Min(caps) <= FeedInCap)
  <2>1. Min(caps) \in caps /\ \A n \in caps : Min(caps) <= n
    BY <1>2, <1>5, MinOfNats
  <2> QED BY <1>2, <1>3, <1>4, <2>1
<1> QED BY <1>1, <1>2, <1>3, <1>4, <1>5 DEF caps

(* bound_feed_in: what may be curtailed feeds in no more than the cap      *)
(* leaves.                                                                 *)
LEMMA BoundFeedInFits ==
  ASSUME GuardTypeOK, NEW env, Rested(env), NEW w \in [Commandable -> Int],
         NEW flows, flows.uncontrollable \in Nat, flows.metered \in Nat
  PROVE  LET after == BoundFeedIn(env, flows, w)
         IN  /\ Rested(after)
             /\ Total(Feeds(after), Commandable)
                  <= PhysicalHeadroom(FeedInCap, flows.uncontrollable - flows.metered)
<1> DEFINE net   == flows.uncontrollable - flows.metered
           caps  == {StatutoryCap, limits.feedIn} \ {None}
           first == ShareExport(env, PhysicalHeadroom(ExportCeiling, net), w)
           second == ShareExport(first, PhysicalHeadroom(Min(caps), net), w)
<1>1. net \in Int /\ Commandable \in SUBSET Devices
  BY HouseIs
<1>2. /\ FeedInCap \in Nat /\ ExportCeiling \in Nat
      /\ caps = {} => FeedInCap = ExportCeiling
      /\ caps # {} => /\ Min(caps) \in Nat
                      /\ FeedInCap = ExportCeiling \/ Min(caps) <= FeedInCap
  BY FeedInCapIs
<1>3. BoundFeedIn(env, flows, w) = IF caps = {} THEN first ELSE second
  BY DEF BoundFeedIn
<1> HIDE DEF net, caps
<1>4. /\ PhysicalHeadroom(ExportCeiling, net) \in Nat
      /\ PhysicalHeadroom(ExportCeiling, net) = IF ExportCeiling >= net THEN ExportCeiling - net ELSE 0
  <2>1. ExportCeiling \in Int /\ net \in Int
    BY <1>1, <1>2
  <2> QED BY <2>1, HeadroomIs
<1>5. /\ Rested(first) /\ Tightens(first, env)
      /\ Total(Feeds(first), Commandable) <= PhysicalHeadroom(ExportCeiling, net)
  BY <1>4, ShareExportFits
<1> HIDE DEF first
<1>6. CASE caps = {}
  BY <1>2, <1>3, <1>5, <1>6 DEF net
<1>7. CASE caps # {}
  <2>1. /\ PhysicalHeadroom(Min(caps), net) \in Nat
        /\ PhysicalHeadroom(Min(caps), net) = IF Min(caps) >= net THEN Min(caps) - net ELSE 0
    <3> DEFINE cap == Min(caps)
    <3>1. cap \in Int /\ net \in Int
      BY <1>1, <1>2, <1>7
    <3> HIDE DEF cap
    <3>2. /\ PhysicalHeadroom(cap, net) \in Nat
          /\ PhysicalHeadroom(cap, net) = IF cap >= net THEN cap - net ELSE 0
      BY <3>1, HeadroomIs
    <3> QED BY <3>2 DEF cap
  <2>2. /\ Rested(second) /\ Tightens(second, first)
        /\ Total(Feeds(second), Commandable) <= PhysicalHeadroom(Min(caps), net)
    BY <1>5, <2>1, ShareExportFits
  <2> HIDE DEF second
  <2>3. /\ Total(Feeds(second), Commandable) <= Total(Feeds(first), Commandable)
        /\ Total(Feeds(second), Commandable) \in Nat /\ Total(Feeds(first), Commandable) \in Nat
    BY <1>1, <1>5, <2>2, TightensTotal
  <2>4. /\ PhysicalHeadroom(FeedInCap, net) \in Nat
        /\ PhysicalHeadroom(FeedInCap, net) = IF FeedInCap >= net THEN FeedInCap - net ELSE 0
    <3>1. FeedInCap \in Int /\ net \in Int
      BY <1>1, <1>2
    <3> QED BY <3>1, HeadroomIs
  <2>5. Total(Feeds(second), Commandable) <= PhysicalHeadroom(FeedInCap, net)
    <3>1. CASE FeedInCap = ExportCeiling
      BY <1>4, <1>5, <2>3, <3>1
    <3>2. CASE Min(caps) <= FeedInCap
      BY <1>1, <1>2, <1>7, <2>1, <2>2, <2>3, <2>4, <3>2
    <3> QED BY <1>2, <1>7, <3>1, <3>2
  <2> QED BY <1>3, <1>7, <2>2, <2>5 DEF net
<1> QED BY <1>6, <1>7

(* What is lent is measured, wanted and sustainable, and comes of no device *)
(* that could not give it. *)
Lends(lent, w, env) ==
  /\ lent \in [(Commandable \ Roofs) \cap heard -> Nat]
  /\ \A d \in DOMAIN lent : /\ lent[d] <= Outflow(power[d])
                            /\ lent[d] <= Outflow(w[d])
                            /\ lent[d] <= Outflow(env[d].floor)

(* lend_generation lends no more than that.                                *)
LEMMA LentIs ==
  ASSUME GuardTypeOK, NEW env, Rested(env), NEW w \in [Commandable -> Int]
  PROVE  Lends(Lent(env, w), w, env)
<1> DEFINE S == (Commandable \ Roofs) \cap heard
           least(d) == Min({Outflow(power[d]), Outflow(w[d]), Outflow(env[d].floor)})
<1>1. Lent(env, w) = [d \in S |-> least(d)]
  BY TableIs DEF Lent
<1>2. ASSUME NEW d \in S
      PROVE  /\ least(d) \in Nat /\ least(d) <= Outflow(power[d])
             /\ least(d) <= Outflow(w[d]) /\ least(d) <= Outflow(env[d].floor)
  <2>1. d \in Devices /\ d \in Commandable
    BY HouseIs
  <2>2. power[d] \in Int /\ w[d] \in Int /\ env[d].floor \in Int
    BY <2>1, DeviceIs, RestedIs
  <2>3. Outflow(power[d]) \in Nat /\ Outflow(w[d]) \in Nat /\ Outflow(env[d].floor) \in Nat
    BY <2>2, FlowIs
  <2> DEFINE offers == {Outflow(power[d]), Outflow(w[d]), Outflow(env[d].floor)}
  <2>4. offers \in SUBSET Nat /\ offers # {}
    BY <2>3
  <2>5. least(d) \in offers /\ \A n \in offers : least(d) <= n
    <3> HIDE DEF offers
    <3>1. Min(offers) \in offers /\ \A n \in offers : Min(offers) <= n
      BY <2>4, MinOfNats
    <3> QED BY <3>1 DEF offers
  <2> HIDE DEF least
  <2> QED BY <2>4, <2>5
<1> HIDE DEF S, least
<1>3. Lent(env, w) \in [S -> Nat]
  BY <1>1, <1>2
<1>4. \A d \in S : Lent(env, w)[d] = least(d)
  BY <1>1
<1>5. DOMAIN Lent(env, w) = S
  BY <1>1
<1> QED BY <1>2, <1>3, <1>4, <1>5 DEF S, Lends

(* What lends may not draw.                                                *)
LEMMA PinnedRests ==
  ASSUME NEW env, Rested(env), NEW lent, DOMAIN lent \subseteq Devices
  PROVE  /\ Rested(Pinned(env, lent)) /\ Tightens(Pinned(env, lent), env)
         /\ SameFloors(Pinned(env, lent), env)
         /\ \A d \in DOMAIN lent : lent[d] > 0 => Pinned(env, lent)[d].ceiling <= 0
<1> DEFINE after == Pinned(env, lent)
<1>1. after = [d \in Devices |-> IF d \in DOMAIN lent /\ lent[d] > 0
                                 THEN AtMost(env[d], 0) ELSE env[d]]
  BY TableIs DEF Pinned
<1> HIDE DEF after
<1>2. ASSUME NEW d \in Devices
      PROVE  /\ MayRest(d, after[d]) /\ after[d].floor = env[d].floor
             /\ after[d].ceiling <= env[d].ceiling /\ env[d].floor <= after[d].floor
             /\ d \in DOMAIN lent /\ lent[d] > 0 => after[d].ceiling <= 0
  <2>1. /\ MayRest(d, env[d]) /\ env[d].ceiling \in Nat /\ env[d].floor \in Int
        /\ env[d] \in Envelope
    BY RestedIs DEF Rested
  <2>2. CASE d \in DOMAIN lent /\ lent[d] > 0
    <3>1. after[d] = AtMost(env[d], 0)
      BY <1>1, <2>2
    <3>2. MayRest(d, AtMost(env[d], 0))
      BY <2>1, AtMostRests
    <3>3. /\ AtMost(env[d], 0).floor = env[d].floor
          /\ AtMost(env[d], 0).ceiling = IF env[d].ceiling <= 0 THEN env[d].ceiling ELSE 0
      BY <2>1, AtMostIs
    <3> QED BY <2>1, <3>1, <3>2, <3>3
  <2>3. CASE ~ (d \in DOMAIN lent /\ lent[d] > 0)
    <3>1. after[d] = env[d]
      BY <1>1, <2>3
    <3> QED BY <2>1, <2>3, <3>1
  <2> QED BY <2>2, <2>3
<1>3. Rested(after)
  <2>1. \A d \in Devices : after[d] \in Envelope
    BY <1>2 DEF MayRest
  <2> QED BY <1>1, <1>2, <2>1 DEF Rested
<1>4. Tightens(after, env) /\ SameFloors(after, env)
  BY <1>2 DEF Tightens, SameFloors
<1> QED BY <1>2, <1>3, <1>4 DEF after

(* The operator's ceiling. *)
SteuveFits(env, flows, w) ==
  limits.steuve # None =>
    \E lent : /\ Lends(lent, w, env)
              /\ \A d \in DOMAIN lent : lent[d] > 0 => env[d].ceiling <= 0
              /\ Total(Ceilings(env), Steuve \cap Commandable) <= SteuveBudget(flows, lent)

(* The budget under the operator's ceiling.                                *)
LEMMA BudgetIs ==
  ASSUME GuardTypeOK, limits.steuve # None, NEW w, NEW env, NEW lent, Lends(lent, w, env),
         NEW flows, flows.other \in Nat, flows.generation \in Nat, flows.uncommandable \in Nat
  PROVE  /\ SteuveBudget(flows, lent) \in Nat
         /\ Total(lent, DOMAIN lent) \in Nat /\ limits.steuve \in Nat
         /\ SteuveBudget(flows, lent) =
              AtLeastZero(limits.steuve
                + AtLeastZero(flows.generation + Total(lent, DOMAIN lent) - flows.other)
                - flows.uncommandable)
<1>1. IsFiniteSet(DOMAIN lent) /\ \A d \in DOMAIN lent : lent[d] \in Nat
  BY HouseIs, FS_Subset DEF Lends
<1>2. Total(lent, DOMAIN lent) \in Nat
  BY <1>1, TotalNat
<1>3. limits.steuve \in Nat
  BY DEF GuardTypeOK
<1> DEFINE surplus == flows.generation + Total(lent, DOMAIN lent) - flows.other
           budget  == limits.steuve + AtLeastZero(surplus) - flows.uncommandable
<1>4. surplus \in Int
  BY <1>2
<1> HIDE DEF surplus
<1>5. AtLeastZero(surplus) \in Nat
  BY <1>4, AtLeastZeroIs
<1>6. budget \in Int
  BY <1>3, <1>5
<1> HIDE DEF budget
<1>7. AtLeastZero(budget) \in Nat
  BY <1>6, AtLeastZeroIs
<1> QED BY <1>2, <1>3, <1>7 DEF SteuveBudget, surplus, budget

(* bound_steuve: what it leaves fits the operator's ceiling.               *)
LEMMA BoundSteuveFits ==
  ASSUME GuardTypeOK, NEW env, Rested(env), NEW w \in [Commandable -> Int],
         NEW flows, flows.other \in Nat, flows.generation \in Nat, flows.uncommandable \in Nat
  PROVE  LET after == BoundSteuve(env, flows, w)
         IN  /\ Rested(after) /\ Tightens(after, env) /\ SameFloors(after, env)
             /\ SteuveFits(after, flows, w)
<1>1. CASE limits.steuve = None
  <2>1. BoundSteuve(env, flows, w) = env
    BY <1>1 DEF BoundSteuve
  <2>2. Tightens(env, env) /\ SameFloors(env, env)
    BY RestedIs DEF Tightens, SameFloors
  <2> QED BY <1>1, <2>1, <2>2 DEF SteuveFits
<1>2. CASE limits.steuve # None
  <2> DEFINE lent == Lent(env, w)
             pinned == Pinned(env, lent)
             budget == SteuveBudget(flows, lent)
             after == Share(pinned, Steuve \cap Commandable, budget, w)
  <2>1. BoundSteuve(env, flows, w) = after
    BY <1>2 DEF BoundSteuve
  <2>2. Lends(lent, w, env)
    BY LentIs
  <2> HIDE DEF lent
  <2>3. DOMAIN lent \subseteq Devices
    BY <2>2, HouseIs DEF Lends
  <2>4. /\ Rested(pinned) /\ Tightens(pinned, env) /\ SameFloors(pinned, env)
        /\ \A d \in DOMAIN lent : lent[d] > 0 => pinned[d].ceiling <= 0
    BY <2>3, PinnedRests
  <2>5. budget \in Nat
    BY <1>2, <2>2, BudgetIs
  <2> HIDE DEF pinned, budget
  <2>6. /\ Rested(after) /\ Tightens(after, pinned) /\ SameFloors(after, pinned)
        /\ Total(Ceilings(after), Steuve \cap Commandable) <= budget
    <3>1. Steuve \cap Commandable \in SUBSET Commandable
      OBVIOUS
    <3> QED BY <2>4, <2>5, <3>1, ShareFits
  <2> HIDE DEF after
  <2>7. Tightens(after, env)
    BY <2>4, <2>6, TightensOn
  <2>8. SameFloors(after, env)
    BY <2>4, <2>6 DEF SameFloors
  <2>9. \A d \in DOMAIN lent : lent[d] > 0 => after[d].ceiling <= 0
    <3>1. \A d \in DOMAIN lent : /\ after[d].ceiling \in Int /\ pinned[d].ceiling \in Int
                                 /\ after[d].ceiling <= pinned[d].ceiling
      BY <2>3, <2>4, <2>6, RestedIs DEF Tightens
    <3> QED BY <2>4, <3>1
  <2>10. Lends(lent, w, after)
    <3>1. \A d \in DOMAIN lent : after[d].floor = env[d].floor
      BY <2>3, <2>8 DEF SameFloors
    <3> QED BY <2>2, <3>1 DEF Lends
  <2>11. SteuveFits(after, flows, w)
    BY <2>6, <2>9, <2>10 DEF SteuveFits, budget
  <2> QED BY <2>1, <2>6, <2>7, <2>8, <2>11
<1> QED BY <1>1, <1>2

(* bound_connection: what it leaves fits the connection.                   *)
LEMMA BoundConnectionFits ==
  ASSUME GuardTypeOK, NEW env, Rested(env), NEW w \in [Commandable -> Int],
         NEW flows, flows.other \in Nat, flows.generation \in Nat
  PROVE  LET after == BoundConnection(env, flows, w)
         IN  /\ Rested(after) /\ Tightens(after, env) /\ SameFloors(after, env)
             /\ Total(Ceilings(after), Commandable)
                  <= PhysicalHeadroom(ImportCeiling, flows.other - flows.generation)
<1> DEFINE net == flows.other - flows.generation
           budget == PhysicalHeadroom(ImportCeiling, net)
<1>1. net \in Int /\ ImportCeiling \in Int
  BY GuardAssumption
<1>2. BoundConnection(env, flows, w) = Share(env, Commandable, budget, w)
  BY DEF BoundConnection
<1> HIDE DEF net
<1>3. budget \in Nat
  BY <1>1, HeadroomIs
<1> HIDE DEF budget
<1>4. Commandable \in SUBSET Commandable
  OBVIOUS
<1> DEFINE after == Share(env, Commandable, budget, w)
<1>5. /\ Rested(after) /\ Tightens(after, env) /\ SameFloors(after, env)
      /\ Total(Ceilings(after), Commandable) <= budget
  BY <1>3, <1>4, ShareFits
<1> QED BY <1>2, <1>5 DEF budget, net

-----------------------------------------------------------------------------
(* The fuses, one after the other *)

Behind(i) == Circuits[i].below \cap Commandable
Fixed(i)  == Circuits[i].below \ Commandable
Carries(i) == PhysicalHeadroom(Circuits[i].limit, Total(Draw, Fixed(i)) - Total(Feed, Fixed(i)))

(* What the bounds leave fits a fuse, or the fuse is left to the connection. *)
Fits(env, i) ==
  CarriesTheSite(Circuits[i]) \/ Total(Ceilings(env), Behind(i)) <= Carries(i)

(* What the bound of one fuse leaves fits it.                              *)
LEMMA BoundCircuitFits ==
  ASSUME GuardTypeOK, NEW env, Rested(env), NEW w \in [Commandable -> Int],
         NEW i \in DOMAIN Circuits
  PROVE  LET after == BoundCircuit(env, Circuits[i], w)
         IN  /\ Rested(after) /\ Tightens(after, env) /\ SameFloors(after, env)
             /\ Fits(after, i)
<1>1. Circuits[i].below \in SUBSET Devices /\ Circuits[i].limit \in Nat
  BY CircuitIs
<1>2. BoundCircuit(env, Circuits[i], w) =
        IF CarriesTheSite(Circuits[i]) THEN env ELSE Share(env, Behind(i), Carries(i), w)
  BY DEF BoundCircuit, Behind, Carries, Fixed
<1>3. Behind(i) \in SUBSET Commandable /\ Fixed(i) \in SUBSET Devices
  BY <1>1 DEF Behind, Fixed
<1>4. Carries(i) \in Nat
  <2> DEFINE net == Total(Draw, Fixed(i)) - Total(Feed, Fixed(i))
  <2>1. Total(Draw, Fixed(i)) \in Nat /\ Total(Feed, Fixed(i)) \in Nat
    BY <1>3, Sums
  <2>2. net \in Int /\ Circuits[i].limit \in Int
    BY <1>1, <2>1
  <2> DEFINE limit == Circuits[i].limit
  <2> HIDE DEF net, limit
  <2>3. PhysicalHeadroom(limit, net) \in Nat
    BY <2>2, HeadroomIs DEF limit
  <2> QED BY <2>3 DEF Carries, net, limit
<1> DEFINE after == Share(env, Behind(i), Carries(i), w)
<1>5. /\ Rested(after) /\ Tightens(after, env) /\ SameFloors(after, env)
      /\ Total(Ceilings(after), Behind(i)) <= Carries(i)
  BY <1>3, <1>4, ShareFits
<1> HIDE DEF after
<1>6. CASE CarriesTheSite(Circuits[i])
  <2>1. Tightens(env, env) /\ SameFloors(env, env)
    BY RestedIs DEF Tightens, SameFloors
  <2> QED BY <1>2, <1>6, <2>1 DEF Fits
<1>7. CASE ~ CarriesTheSite(Circuits[i])
  BY <1>2, <1>5, <1>7 DEF Fits, after
<1> QED BY <1>6, <1>7

(* The recursive function of BoundCircuits.                                *)
Steps(b, n, env, w) ==
  b = [i \in 0 .. n |-> IF i = 0 THEN env ELSE BoundCircuit(b[i - 1], Circuits[i], w)]

(* It exists for any number of fuses.                                      *)
LEMMA StepsAre ==
  ASSUME NEW env, NEW w, NEW n \in Nat
  PROVE  \E b : Steps(b, n, env, w)
<1> DEFINE P == {k \in Nat : \E b : Steps(b, k, env, w)}
<1>1. 0 \in P
  <2> DEFINE b == [i \in 0 .. 0 |-> env]
  <2>1. b = [i \in 0 .. 0 |-> IF i = 0 THEN env ELSE BoundCircuit(b[i - 1], Circuits[i], w)]
    OBVIOUS
  <2> HIDE DEF b
  <2>2. Steps(b, 0, env, w)
    BY <2>1 DEF Steps
  <2> QED BY <2>2
<1>2. ASSUME NEW k \in P PROVE k + 1 \in P
  <2>1. PICK b : Steps(b, k, env, w)
    OBVIOUS
  <2> DEFINE next == BoundCircuit(b[k], Circuits[k + 1], w)
             c == [i \in 0 .. k + 1 |-> IF i = k + 1 THEN next ELSE b[i]]
             s == [i \in 0 .. k + 1 |->
                      IF i = 0 THEN env ELSE BoundCircuit(c[i - 1], Circuits[i], w)]
  <2>2. k \in Nat /\ \A i \in 0 .. k : b[i] = IF i = 0 THEN env
                                             ELSE BoundCircuit(b[i - 1], Circuits[i], w)
    BY <2>1 DEF Steps
  <2>3. ASSUME NEW i \in 0 .. k + 1 PROVE c[i] = s[i]
    <3>1. CASE i = k + 1
      <4>1. c[i] = next /\ i # 0 /\ i - 1 = k /\ k \in 0 .. k + 1 /\ k # k + 1
        BY <2>2, <3>1
      <4>2. c[k] = b[k]
        BY <4>1
      <4> QED BY <3>1, <4>1, <4>2
    <3>2. CASE i # k + 1
      <4>1. i \in 0 .. k
        BY <2>2, <3>2
      <4>2. c[i] = b[i]
        BY <3>2
      <4>3. CASE i = 0
        BY <2>2, <4>1, <4>2, <4>3
      <4>4. CASE i # 0
        <5>1. i - 1 \in 0 .. k + 1 /\ i - 1 # k + 1
          BY <2>2, <4>1, <4>4
        <5>2. c[i - 1] = b[i - 1]
          BY <5>1
        <5>3. b[i] = BoundCircuit(b[i - 1], Circuits[i], w)
          BY <2>2, <4>1, <4>4
        <5> QED BY <4>2, <4>4, <5>2, <5>3
      <4> QED BY <4>3, <4>4
    <3> QED BY <3>1, <3>2
  <2>4. c = s
    <3>1. c = [i \in 0 .. k + 1 |-> c[i]] /\ s = [i \in 0 .. k + 1 |-> s[i]]
      OBVIOUS
    <3> HIDE DEF c, s
    <3> QED BY <2>3, <3>1
  <2>5. Steps(c, k + 1, env, w)
    <3> HIDE DEF c
    <3> QED BY <2>4 DEF Steps
  <2> HIDE DEF c
  <2> QED BY <2>2, <2>5
<1> HIDE DEF P
<1>3. P \in SUBSET Nat
  BY DEF P
<1>4. P = Nat
  BY <1>1, <1>2, <1>3, EveryNatural
<1>5. n \in P
  BY <1>4
<1> QED BY <1>5 DEF P

(* Every fuse carries what its bound leaves, and the bounds that come      *)
(* after.                                                                  *)
LEMMA BoundCircuitsFit ==
  ASSUME GuardTypeOK, NEW env, Rested(env), NEW w \in [Commandable -> Int]
  PROVE  LET after == BoundCircuits(env, w)
         IN  /\ Rested(after) /\ Tightens(after, env) /\ SameFloors(after, env)
             /\ \A i \in DOMAIN Circuits : Fits(after, i)
<1> DEFINE n == Len(Circuits)
           b == CHOOSE b : Steps(b, n, env, w)
<1>1. n \in Nat /\ DOMAIN Circuits = 1 .. n
  <2> DEFINE Circuit == [below : SUBSET Devices, meters : BOOLEAN, limit : Nat]
  <2>1. Circuits \in Seq(Circuit)
    BY GuardAssumption
  <2> HIDE DEF Circuit
  <2> QED BY <2>1
<1>2. BoundCircuits(env, w) = b[n]
  BY DEF BoundCircuits, Steps
<1> HIDE DEF n
<1>3. Steps(b, n, env, w)
  <2>1. \E c : Steps(c, n, env, w)
    BY <1>1, StepsAre
  <2> QED BY <2>1
<1> HIDE DEF b
<1>4. \A i \in 0 .. n : b[i] = IF i = 0 THEN env ELSE BoundCircuit(b[i - 1], Circuits[i], w)
  BY <1>3 DEF Steps
<1> DEFINE Right(k) == /\ Rested(b[k]) /\ Tightens(b[k], env) /\ SameFloors(b[k], env)
                       /\ \A i \in 1 .. k : Fits(b[k], i)
           P == {k \in Nat : k <= n => Right(k)}
<1>5. 0 \in P
  <2>1. b[0] = env
    BY <1>1, <1>4
  <2>2. Tightens(env, env) /\ SameFloors(env, env)
    BY RestedIs DEF Tightens, SameFloors
  <2> QED BY <2>1, <2>2
<1>6. ASSUME NEW k \in P PROVE k + 1 \in P
  <2>1. SUFFICES ASSUME k + 1 <= n PROVE Right(k + 1)
    OBVIOUS
  <2> DEFINE now  == b[k]
             then == b[k + 1]
  <2>2. k \in Nat /\ Right(k) /\ k + 1 \in DOMAIN Circuits /\ k + 1 \in 0 .. n /\ k + 1 # 0
    BY <1>1, <2>1
  <2>3. then = BoundCircuit(now, Circuits[k + 1], w)
    BY <1>4, <2>2
  <2>4. Rested(now) /\ Tightens(now, env) /\ SameFloors(now, env)
    BY <2>2
  <2>5. \A i \in 1 .. k : Fits(now, i)
    BY <2>2
  <2> HIDE DEF now, then
  <2>6. /\ Rested(then) /\ Tightens(then, now) /\ SameFloors(then, now)
        /\ Fits(then, k + 1)
    BY <2>2, <2>3, <2>4, BoundCircuitFits
  <2>7. Tightens(then, env)
    BY <2>4, <2>6, TightensOn
  <2>8. SameFloors(then, env)
    BY <2>4, <2>6 DEF SameFloors
  <2>9. ASSUME NEW i \in 1 .. k + 1 PROVE Fits(then, i)
    <3>1. CASE i = k + 1
      BY <2>6, <3>1
    <3>2. CASE i # k + 1
      <4>1. i \in 1 .. k /\ i \in DOMAIN Circuits
        BY <1>1, <2>1, <2>2, <3>2
      <4>2. Behind(i) \in SUBSET Devices /\ Fixed(i) \in SUBSET Devices
            /\ Circuits[i].limit \in Nat
        BY <4>1, CircuitIs DEF Behind, Fixed
      <4>3. /\ Total(Ceilings(then), Behind(i)) <= Total(Ceilings(now), Behind(i))
            /\ Total(Ceilings(then), Behind(i)) \in Int /\ Total(Ceilings(now), Behind(i)) \in Int
        BY <2>4, <2>6, <4>2, TightensTotal
      <4>4. Carries(i) \in Int
        <5> DEFINE net == Total(Draw, Fixed(i)) - Total(Feed, Fixed(i))
                   limit == Circuits[i].limit
        <5>1. net \in Int /\ limit \in Int
          BY <4>2, Sums
        <5>2. Carries(i) = PhysicalHeadroom(limit, net)
          BY DEF Carries
        <5> HIDE DEF net, limit
        <5> QED BY <5>1, <5>2, HeadroomIs
      <4> QED BY <2>5, <4>1, <4>3, <4>4 DEF Fits
    <3> QED BY <3>1, <3>2
  <2> QED BY <2>6, <2>7, <2>8, <2>9 DEF then
<1> HIDE DEF P, Right
<1>7. P \in SUBSET Nat
  BY DEF P
<1>8. P = Nat
  BY <1>5, <1>6, <1>7, EveryNatural
<1>9. Right(n)
  BY <1>1, <1>8 DEF P
<1> QED BY <1>1, <1>2, <1>9 DEF Right

-----------------------------------------------------------------------------
(* The verdict *)

Bounded(env, w) ==
  /\ Rested(env)
  /\ Total(Feeds(env), Commandable)
       <= PhysicalHeadroom(FeedInCap, Flows(w).uncontrollable - Flows(w).metered)
  /\ SteuveFits(env, Flows(w), w)
  /\ Total(Ceilings(env), Commandable)
       <= PhysicalHeadroom(ImportCeiling, Flows(w).other - Flows(w).generation)
  /\ \A i \in DOMAIN Circuits : Fits(env, i)

(* A bound that comes later only tightens, so that the operator's ceiling  *)
(* is still kept to.                                                       *)
LEMMA SteuveFitsOn ==
  ASSUME GuardTypeOK, NEW w \in [Commandable -> Int],
         NEW before, Rested(before), NEW after, Rested(after),
         Tightens(after, before), SameFloors(after, before),
         NEW flows, flows.other \in Nat, flows.generation \in Nat, flows.uncommandable \in Nat,
         SteuveFits(before, flows, w)
  PROVE  SteuveFits(after, flows, w)
<1>1. SUFFICES ASSUME limits.steuve # None
               PROVE  SteuveFits(after, flows, w)
  BY DEF SteuveFits
<1>2. PICK lent : /\ Lends(lent, w, before)
                  /\ \A d \in DOMAIN lent : lent[d] > 0 => before[d].ceiling <= 0
                  /\ Total(Ceilings(before), Steuve \cap Commandable) <= SteuveBudget(flows, lent)
  BY <1>1 DEF SteuveFits
<1>3. DOMAIN lent \subseteq Devices
  BY <1>2, HouseIs DEF Lends
<1>4. Lends(lent, w, after)
  <2>1. \A d \in DOMAIN lent : after[d].floor = before[d].floor
    BY <1>3 DEF SameFloors
  <2> QED BY <1>2, <2>1 DEF Lends
<1>5. \A d \in DOMAIN lent : lent[d] > 0 => after[d].ceiling <= 0
  <2>1. \A d \in DOMAIN lent : /\ after[d].ceiling \in Int /\ before[d].ceiling \in Int
                               /\ after[d].ceiling <= before[d].ceiling
    BY <1>3, RestedIs DEF Tightens
  <2> QED BY <1>2, <2>1
<1>6. Total(Ceilings(after), Steuve \cap Commandable) <= SteuveBudget(flows, lent)
  <2> DEFINE S == Steuve \cap Commandable
  <2>1. S \in SUBSET Devices
    BY HouseIs
  <2> HIDE DEF S
  <2>2. /\ Total(Ceilings(after), S) <= Total(Ceilings(before), S)
        /\ Total(Ceilings(after), S) \in Nat /\ Total(Ceilings(before), S) \in Nat
    BY <2>1, TightensTotal
  <2>3. SteuveBudget(flows, lent) \in Nat
    BY <1>1, <1>2, BudgetIs
  <2>4. Total(Ceilings(before), S) <= SteuveBudget(flows, lent)
    BY <1>2 DEF S
  <2> QED BY <2>2, <2>3, <2>4 DEF S
<1> QED BY <1>4, <1>5, <1>6 DEF SteuveFits

(* No budget is negative.                                                  *)
LEMMA BudgetsAre ==
  ASSUME GuardTypeOK, NEW w \in [Commandable -> Int]
  PROVE  /\ PhysicalHeadroom(FeedInCap, Flows(w).uncontrollable - Flows(w).metered) \in Nat
         /\ PhysicalHeadroom(ImportCeiling, Flows(w).other - Flows(w).generation) \in Nat
         /\ \A i \in DOMAIN Circuits : Carries(i) \in Nat
<1> DEFINE flows == Flows(w)
           feedIn == flows.uncontrollable - flows.metered
           draw   == flows.other - flows.generation
<1>1. /\ flows.other \in Nat /\ flows.generation \in Nat
      /\ flows.uncontrollable \in Nat /\ flows.metered \in Nat
  BY FlowsAre
<1> HIDE DEF flows
<1>2. feedIn \in Int /\ draw \in Int /\ FeedInCap \in Int /\ ImportCeiling \in Int
  BY <1>1, FeedInCapIs, GuardAssumption
<1> HIDE DEF feedIn, draw
<1>3. PhysicalHeadroom(FeedInCap, feedIn) \in Nat
  BY <1>2, HeadroomIs
<1>4. PhysicalHeadroom(ImportCeiling, draw) \in Nat
  BY <1>2, HeadroomIs
<1>5. ASSUME NEW i \in DOMAIN Circuits PROVE Carries(i) \in Nat
  <2> DEFINE net == Total(Draw, Fixed(i)) - Total(Feed, Fixed(i))
             limit == Circuits[i].limit
  <2>1. Fixed(i) \in SUBSET Devices /\ limit \in Nat
    BY CircuitIs DEF Fixed
  <2>2. Total(Draw, Fixed(i)) \in Nat /\ Total(Feed, Fixed(i)) \in Nat
    BY <2>1, Sums
  <2>3. net \in Int /\ limit \in Int
    BY <2>1, <2>2
  <2>4. Carries(i) = PhysicalHeadroom(limit, net)
    BY DEF Carries
  <2> HIDE DEF net, limit
  <2> QED BY <2>3, <2>4, HeadroomIs
<1> QED BY <1>3, <1>4, <1>5 DEF feedIn, draw, flows

(* The same of all the budgets.                                            *)
LEMMA BoundedOn ==
  ASSUME GuardTypeOK, NEW w \in [Commandable -> Int],
         NEW before, Bounded(before, w), NEW after, Rested(after),
         Tightens(after, before), SameFloors(after, before)
  PROVE  Bounded(after, w)
<1>1. Rested(before)
  BY DEF Bounded
<1>2. Commandable \in SUBSET Devices
  BY HouseIs
<1>3. Total(Feeds(after), Commandable) = Total(Feeds(before), Commandable)
  BY <1>1, <1>2, SameFloorsFeed
<1>4. SteuveFits(after, Flows(w), w)
  <2> DEFINE flows == Flows(w)
  <2>1. flows.other \in Nat /\ flows.generation \in Nat /\ flows.uncommandable \in Nat
    BY FlowsAre
  <2>2. SteuveFits(before, flows, w)
    BY DEF Bounded
  <2> HIDE DEF flows
  <2>3. SteuveFits(after, flows, w)
    BY <1>1, <2>1, <2>2, SteuveFitsOn
  <2> QED BY <2>3 DEF flows
<1>5. ASSUME NEW S \in SUBSET Devices, NEW budget \in Nat, Total(Ceilings(before), S) <= budget
      PROVE  Total(Ceilings(after), S) <= budget
  <2>1. /\ Total(Ceilings(after), S) <= Total(Ceilings(before), S)
        /\ Total(Ceilings(after), S) \in Nat /\ Total(Ceilings(before), S) \in Nat
    BY <1>1, TightensTotal
  <2> QED BY <1>5, <2>1
<1>6. ASSUME NEW i \in DOMAIN Circuits PROVE Fits(after, i)
  <2>1. Behind(i) \in SUBSET Devices /\ Carries(i) \in Nat /\ Fits(before, i)
    BY <1>2, BudgetsAre DEF Behind, Bounded
  <2>2. Total(Ceilings(before), Behind(i)) <= Carries(i)
          => Total(Ceilings(after), Behind(i)) <= Carries(i)
    BY <1>5, <2>1
  <2> QED BY <2>1, <2>2 DEF Fits
<1>7. Total(Ceilings(after), Commandable)
        <= PhysicalHeadroom(ImportCeiling, Flows(w).other - Flows(w).generation)
  <2>1. PhysicalHeadroom(ImportCeiling, Flows(w).other - Flows(w).generation) \in Nat
    BY BudgetsAre
  <2>2. Total(Ceilings(before), Commandable)
          <= PhysicalHeadroom(ImportCeiling, Flows(w).other - Flows(w).generation)
    BY DEF Bounded
  <2> QED BY <1>2, <1>5, <2>1, <2>2
<1> QED BY <1>3, <1>4, <1>6, <1>7 DEF Bounded

(* Guard::verdict: after the last bound, every budget is kept to.          *)
LEMMA VerdictFits ==
  ASSUME GuardTypeOK, NEW w \in [Commandable -> Int]
  PROVE  Bounded(Verdict(w), w)
<1> DEFINE flows   == Flows(w)
           own     == [d \in Devices |-> NarrowAsset(d)]
           feedIn  == BoundFeedIn(own, flows, w)
           steuve  == BoundSteuve(feedIn, flows, w)
           through == BoundConnection(steuve, flows, w)
           last    == BoundCircuits(through, w)
<1>1. Verdict(w) = last
  <2>1. Table([d \in Devices |-> NarrowAsset(d)]) = own
    BY TableIs
  <2> QED BY <2>1 DEF Verdict
<1>2. /\ flows.other \in Nat /\ flows.generation \in Nat /\ flows.uncommandable \in Nat
      /\ flows.uncontrollable \in Nat /\ flows.metered \in Nat
  BY FlowsAre
<1>3. Rested(own) /\ Commandable \in SUBSET Devices
  BY OwnRests, HouseIs
<1> HIDE DEF flows, own
<1>4. /\ Rested(feedIn)
      /\ Total(Feeds(feedIn), Commandable)
           <= PhysicalHeadroom(FeedInCap, flows.uncontrollable - flows.metered)
  BY <1>2, <1>3, BoundFeedInFits
<1> HIDE DEF feedIn
<1>5. /\ Rested(steuve) /\ SameFloors(steuve, feedIn) /\ SteuveFits(steuve, flows, w)
  BY <1>2, <1>4, BoundSteuveFits
<1> HIDE DEF steuve
<1>6. /\ Rested(through) /\ Tightens(through, steuve) /\ SameFloors(through, steuve)
      /\ Total(Ceilings(through), Commandable)
           <= PhysicalHeadroom(ImportCeiling, flows.other - flows.generation)
  BY <1>2, <1>5, BoundConnectionFits
<1> HIDE DEF through
<1>7. /\ Rested(last) /\ Tightens(last, through) /\ SameFloors(last, through)
      /\ \A i \in DOMAIN Circuits : Fits(last, i)
  BY <1>6, BoundCircuitsFit
<1> HIDE DEF last
<1>8. Tightens(last, steuve)
  BY <1>5, <1>6, <1>7, TightensOn
<1>9. SameFloors(last, steuve) /\ SameFloors(last, feedIn)
  BY <1>5, <1>6, <1>7 DEF SameFloors
<1>10. SteuveFits(last, flows, w)
  BY <1>2, <1>5, <1>7, <1>8, <1>9, SteuveFitsOn
<1>11. Total(Feeds(last), Commandable) = Total(Feeds(feedIn), Commandable)
  BY <1>3, <1>4, <1>7, <1>9, SameFloorsFeed
<1>12. Total(Ceilings(last), Commandable)
         <= PhysicalHeadroom(ImportCeiling, flows.other - flows.generation)
  <2>1. /\ Total(Ceilings(last), Commandable) <= Total(Ceilings(through), Commandable)
        /\ Total(Ceilings(last), Commandable) \in Nat
        /\ Total(Ceilings(through), Commandable) \in Nat
    BY <1>3, <1>6, <1>7, TightensTotal
  <2>2. PhysicalHeadroom(ImportCeiling, flows.other - flows.generation) \in Nat
    BY BudgetsAre DEF flows
  <2> QED BY <1>6, <2>1, <2>2
<1> QED BY <1>1, <1>4, <1>7, <1>10, <1>11, <1>12 DEF Bounded, flows

-----------------------------------------------------------------------------
(* The conductors *)

LEMMA SeenIsWhole == ASSUME GuardTypeOK, NEW d \in Devices PROVE Seen[d] \in Int
BY DeviceIs DEF Seen

(* What else sits on a conductor.                                          *)
OthersOn(d, modes, c) == {e \in Unsymmetric(modes) \ {d} : Conductor[e] = c}

(* The unbalance ceiling is within the limit, measured against either      *)
(* other conductor.                                                        *)
LEMMA UnbalanceIs ==
  ASSUME GuardTypeOK, NEW modes, NEW d \in Unsymmetric(modes)
  PROVE  /\ UnbalanceCeiling(d, modes) \in Nat
         /\ UnbalanceCeiling(d, modes) <= UnbalanceLimit
         /\ \A c \in 1 .. 3 : Total(Seen, OthersOn(d, modes, c)) \in Int
         /\ \A c \in (1 .. 3) \ {Conductor[d]} :
              UnbalanceCeiling(d, modes)
                <= AtLeastZero(Total(Seen, OthersOn(d, modes, c)) + UnbalanceLimit
                                 - Total(Seen, OthersOn(d, modes, Conductor[d])))
<1> DEFINE on(c) == Total(Seen, OthersOn(d, modes, c))
           lows == {on(c) : c \in (1 .. 3) \ {Conductor[d]}}
           lowest == Min(lows)
           reach == AtLeastZero(lowest + UnbalanceLimit - on(Conductor[d]))
<1>1. Conductor[d] \in 1 .. 3 /\ UnbalanceLimit \in Nat
  BY GuardAssumption, HouseIs DEF Unsymmetric
<1>2. UnbalanceCeiling(d, modes) = Min({reach, UnbalanceLimit})
  BY DEF UnbalanceCeiling, OthersOn
<1>3. ASSUME NEW c \in 1 .. 3 PROVE on(c) \in Int
  <2>1. OthersOn(d, modes, c) \in SUBSET Devices
    BY HouseIs DEF OthersOn, Unsymmetric
  <2>2. IsFiniteSet(OthersOn(d, modes, c)) /\ \A e \in OthersOn(d, modes, c) : Seen[e] \in Int
    BY <2>1, PartIsFinite, SeenIsWhole
  <2> QED BY <2>2, TotalInt
<1> HIDE DEF on, reach
<1>4. lowest \in Int /\ \A c \in (1 .. 3) \ {Conductor[d]} : lowest <= on(c)
  <2>1. ASSUME NEW a \in 1 .. 3, NEW b \in 1 .. 3, (1 .. 3) \ {Conductor[d]} = {a, b}
        PROVE  lowest \in Int /\ \A c \in (1 .. 3) \ {Conductor[d]} : lowest <= on(c)
    <3>1. lows = {on(a), on(b)}
      BY <2>1
    <3>2. on(a) \in Int /\ on(b) \in Int
      BY <1>3
    <3>3. lowest = IF on(a) <= on(b) THEN on(a) ELSE on(b)
      BY <3>1, <3>2, MinIs
    <3> HIDE DEF lows, lowest
    <3> QED BY <2>1, <3>2, <3>3
  <2>2. CASE Conductor[d] = 1
    <3>1. (1 .. 3) \ {Conductor[d]} = {2, 3}
      BY <2>2
    <3> QED BY <2>1, <3>1
  <2>3. CASE Conductor[d] = 2
    <3>1. (1 .. 3) \ {Conductor[d]} = {1, 3}
      BY <2>3
    <3> QED BY <2>1, <3>1
  <2>4. CASE Conductor[d] = 3
    <3>1. (1 .. 3) \ {Conductor[d]} = {1, 2}
      BY <2>4
    <3> QED BY <2>1, <3>1
  <2> QED BY <1>1, <2>2, <2>3, <2>4
<1> HIDE DEF lowest, lows
<1>5. on(Conductor[d]) \in Int
  BY <1>1, <1>3
<1>6. /\ reach \in Nat
      /\ reach = IF lowest + UnbalanceLimit - on(Conductor[d]) >= 0
                 THEN lowest + UnbalanceLimit - on(Conductor[d]) ELSE 0
  <2> DEFINE p == lowest + UnbalanceLimit - on(Conductor[d])
  <2>1. p \in Int
    BY <1>1, <1>4, <1>5
  <2> HIDE DEF p
  <2>2. AtLeastZero(p) \in Nat /\ AtLeastZero(p) = IF p >= 0 THEN p ELSE 0
    BY <2>1, AtLeastZeroIs
  <2> QED BY <2>2 DEF p, reach
<1>7. Min({reach, UnbalanceLimit}) = IF reach <= UnbalanceLimit THEN reach ELSE UnbalanceLimit
  BY <1>1, <1>6, MinIs
<1>8. ASSUME NEW c \in (1 .. 3) \ {Conductor[d]}
      PROVE  reach <= AtLeastZero(on(c) + UnbalanceLimit - on(Conductor[d]))
  <2> DEFINE p == on(c) + UnbalanceLimit - on(Conductor[d])
  <2>1. on(c) \in Int /\ lowest <= on(c)
    BY <1>3, <1>4
  <2>2. p \in Int /\ lowest + UnbalanceLimit - on(Conductor[d]) <= p
    BY <1>1, <1>4, <1>5, <2>1
  <2> HIDE DEF p
  <2>3. AtLeastZero(p) \in Nat /\ AtLeastZero(p) = IF p >= 0 THEN p ELSE 0
    BY <2>2, AtLeastZeroIs
  <2>4. reach <= AtLeastZero(p)
    BY <1>1, <1>4, <1>5, <1>6, <2>2, <2>3
  <2> QED BY <2>4 DEF p
<1>9. ASSUME NEW c \in (1 .. 3) \ {Conductor[d]}
      PROVE  UnbalanceCeiling(d, modes)
               <= AtLeastZero(on(c) + UnbalanceLimit - on(Conductor[d]))
  <2> DEFINE p == on(c) + UnbalanceLimit - on(Conductor[d])
  <2>1. p \in Int
    BY <1>1, <1>3, <1>5
  <2> HIDE DEF p
  <2>2. AtLeastZero(p) \in Nat
    BY <2>1, AtLeastZeroIs
  <2>3. reach <= AtLeastZero(p)
    BY <1>8 DEF p
  <2>4. UnbalanceCeiling(d, modes) <= AtLeastZero(p)
    BY <1>1, <1>2, <1>6, <1>7, <2>2, <2>3
  <2> QED BY <2>4 DEF p
<1>10. UnbalanceCeiling(d, modes) \in Nat /\ UnbalanceCeiling(d, modes) <= UnbalanceLimit
  BY <1>1, <1>2, <1>6, <1>7
<1> QED BY <1>3, <1>9, <1>10 DEF on

(* Guard::apply_modes tightens, and bounds what a charge point is about to *)
(* be.                                                                     *)
LEMMA ApplyModesFit ==
  ASSUME GuardTypeOK, NEW env, Rested(env), NEW modes
  PROVE  LET after == ApplyModes(env, modes)
         IN  /\ Rested(after) /\ Tightens(after, env) /\ SameFloors(after, env)
             /\ \A d \in Switchable : after[d].ceiling <= MaxPower(d, modes[d])
             /\ \A d \in Commandable \cap Unsymmetric(modes) :
                  after[d].ceiling <= UnbalanceCeiling(d, modes)
<1> DEFINE byMode(d) == NarrowByMode(d, env[d], modes)
           even(d)   == NarrowUnbalance(d, byMode(d), modes)
           after     == ApplyModes(env, modes)
<1>1. after = [d \in Devices |-> Resolve(even(d))]
  BY TableIs DEF ApplyModes
<1> HIDE DEF after
<1>2. ASSUME NEW d \in Devices
      PROVE  /\ MayRest(d, after[d]) /\ after[d].floor = env[d].floor
             /\ after[d].ceiling <= env[d].ceiling /\ env[d].floor <= after[d].floor
             /\ d \in Switchable => after[d].ceiling <= MaxPower(d, modes[d])
             /\ d \in Commandable \cap Unsymmetric(modes)
                  => after[d].ceiling <= UnbalanceCeiling(d, modes)
  <2>1. MayRest(d, env[d]) /\ env[d].ceiling \in Nat /\ env[d].floor \in Int /\ env[d] \in Envelope
    BY RestedIs DEF Rested
  <2>2. MaxPower(d, modes[d]) \in Nat
    <3>1. \/ MaxPower(d, modes[d]) = MaxPower(d, "Single")
          \/ MaxPower(d, modes[d]) = MaxPower(d, "Three")
      BY DEF MaxPower, Wires
    <3> QED BY <3>1, MaxPowerIs
  <2>3. /\ MayRest(d, byMode(d)) /\ byMode(d).floor = env[d].floor
        /\ byMode(d).ceiling \in Int /\ byMode(d).ceiling <= env[d].ceiling
        /\ d \in Switchable => byMode(d).ceiling <= MaxPower(d, modes[d])
    <3> DEFINE p == MaxPower(d, modes[d])
    <3>1. byMode(d) = IF d \in Switchable THEN AtMost(env[d], p) ELSE env[d]
      BY DEF NarrowByMode
    <3>2. p \in Nat
      BY <2>2
    <3> HIDE DEF p, byMode
    <3>3. MayRest(d, AtMost(env[d], p))
      BY <2>1, <3>2, AtMostRests
    <3>4. /\ AtMost(env[d], p).floor = env[d].floor
          /\ AtMost(env[d], p).ceiling = IF env[d].ceiling <= p THEN env[d].ceiling ELSE p
      BY <2>1, <3>2, AtMostIs
    <3> QED BY <2>1, <3>1, <3>2, <3>3, <3>4 DEF p
  <2> HIDE DEF byMode
  <2>4. /\ MayRest(d, even(d)) /\ even(d).floor = env[d].floor
        /\ even(d).ceiling \in Int /\ even(d).ceiling <= byMode(d).ceiling
        /\ d \in Commandable \cap Unsymmetric(modes)
             => even(d).ceiling <= UnbalanceCeiling(d, modes)
    <3> DEFINE p == UnbalanceCeiling(d, modes)
    <3>1. even(d) = IF d \in Commandable \cap Unsymmetric(modes)
                    THEN AtMost(byMode(d), p) ELSE byMode(d)
      BY DEF NarrowUnbalance
    <3>2. byMode(d) \in Envelope
      BY <2>3 DEF MayRest
    <3>3. CASE d \in Commandable \cap Unsymmetric(modes)
      <4>1. p \in Nat
        BY <3>3, UnbalanceIs
      <4> HIDE DEF p, even
      <4>2. MayRest(d, AtMost(byMode(d), p))
        BY <2>3, <4>1, AtMostRests
      <4>3. /\ AtMost(byMode(d), p).floor = byMode(d).floor
            /\ AtMost(byMode(d), p).ceiling = IF byMode(d).ceiling <= p THEN byMode(d).ceiling ELSE p
        BY <3>2, <4>1, AtMostIs
      <4> QED BY <2>3, <3>1, <3>3, <4>1, <4>2, <4>3 DEF p
    <3>4. CASE d \notin Commandable \cap Unsymmetric(modes)
      <4> HIDE DEF even
      <4> QED BY <2>3, <3>1, <3>4
    <3> QED BY <3>3, <3>4
  <2> HIDE DEF even
  <2>5. after[d] = Resolve(even(d))
    BY <1>1
  <2>6. Resolve(even(d)) = even(d)
    <3>1. even(d).floor <= 0 /\ 0 <= even(d).ceiling /\ even(d).floor \in Int
      BY <2>1, <2>4 DEF MayRest
    <3> QED BY <2>4, <3>1 DEF Resolve
  <2>7. d \in Commandable \cap Unsymmetric(modes) => UnbalanceCeiling(d, modes) \in Int
    BY UnbalanceIs
  <2> QED BY <2>1, <2>2, <2>3, <2>4, <2>5, <2>6, <2>7
<1>3. Rested(after)
  <2>1. \A d \in Devices : after[d] \in Envelope
    BY <1>2 DEF MayRest
  <2> QED BY <1>1, <1>2, <2>1 DEF Rested
<1>4. Tightens(after, env) /\ SameFloors(after, env)
  BY <1>2 DEF Tightens, SameFloors
<1> QED BY <1>2, <1>3, <1>4, HouseIs DEF after

-----------------------------------------------------------------------------
(* What a device does with what it is told *)

LEMMA MinOfThree ==
  ASSUME NEW p \in Int, NEW q \in Int, NEW r \in Int
  PROVE  /\ Min({p, q, r}) \in {p, q, r}
         /\ Min({p, q, r}) <= p /\ Min({p, q, r}) <= q /\ Min({p, q, r}) <= r
<1>1. PICK m \in {p, q, r} : \A n \in {p, q, r} : m <= n
  <2>1. \/ (p <= q /\ p <= r) \/ (q <= p /\ q <= r) \/ (r <= p /\ r <= q)
    OBVIOUS
  <2> QED BY <2>1
<1> QED BY <1>1 DEF Min

(* A value is clamped between the bounds.                                  *)
LEMMA ClampIs ==
  ASSUME NEW e \in Envelope, e.floor <= 0, 0 <= e.ceiling, NEW p \in Int
  PROVE  /\ Clamp(e, p) \in Int /\ e.floor <= Clamp(e, p) /\ Clamp(e, p) <= e.ceiling
         /\ p <= 0 => Clamp(e, p) = IF p >= e.floor THEN p ELSE e.floor
<1>1. e.floor \in Int /\ e.ceiling \in Int
  BY DEF Envelope
<1> DEFINE up == Max({p, e.floor})
<1>2. up = IF p >= e.floor THEN p ELSE e.floor
  BY <1>1, MaxIs
<1>3. Clamp(e, p) = Min({up, e.ceiling})
  BY DEF Clamp
<1> HIDE DEF up
<1>4. up \in Int
  BY <1>1, <1>2
<1>5. Min({up, e.ceiling}) = IF up <= e.ceiling THEN up ELSE e.ceiling
  BY <1>1, <1>4, MinIs
<1> QED BY <1>1, <1>2, <1>3, <1>5

(* realisable: what a device is told lies within its bounds, a discharge   *)
(* never becomes more of one, and a charge point is off or above its       *)
(* least.                                                                  *)
LEMMA RealisableIs ==
  ASSUME NEW d \in Devices, NEW e, MayRest(d, e), NEW p \in Int, NEW m \in {"Single", "Three"}
  PROVE  LET told == Realisable(d, p, m, e)
         IN  /\ told \in Int /\ e.floor <= told /\ told <= e.ceiling
             /\ p <= 0 => told <= 0
             /\ d \notin Evses /\ p <= 0 => told <= (IF p >= e.floor THEN p ELSE e.floor)
             /\ d \in Evses => told = 0 \/ told >= MinPower(d, m)
<1>1. e \in Envelope /\ e.floor \in Int /\ e.ceiling \in Int /\ e.floor <= 0 /\ 0 <= e.ceiling
  BY DEF MayRest, Envelope
<1>2. /\ Clamp(e, p) \in Int /\ e.floor <= Clamp(e, p) /\ Clamp(e, p) <= e.ceiling
      /\ p <= 0 => Clamp(e, p) = IF p >= e.floor THEN p ELSE e.floor
  BY <1>1, ClampIs
<1>3. CASE d \notin Evses \cup Tanks
  <2>1. Realisable(d, p, m, e) = Clamp(e, p)
    BY <1>3 DEF Realisable
  <2> QED BY <1>1, <1>2, <1>3, <2>1
<1>4. CASE d \in Evses
  <2> DEFINE candidate == Min({Clamp(e, p), MaxPower(d, m), e.ceiling})
             least == MinPower(d, m)
  <2>1. Realisable(d, p, m, e) = IF candidate < least THEN 0 ELSE candidate
    BY <1>4, HouseIs DEF Realisable
  <2>2. MaxPower(d, m) \in Nat /\ least \in Nat \ {0}
    BY MaxPowerIs, MinPowerIs
  <2>3. /\ candidate \in {Clamp(e, p), MaxPower(d, m), e.ceiling}
        /\ candidate <= Clamp(e, p) /\ candidate <= e.ceiling
    <3> DEFINE q == MaxPower(d, m)
               c == Clamp(e, p)
    <3>1. q \in Int /\ c \in Int
      BY <1>2, <2>2
    <3> HIDE DEF q, c
    <3>2. /\ Min({c, q, e.ceiling}) \in {c, q, e.ceiling}
          /\ Min({c, q, e.ceiling}) <= c /\ Min({c, q, e.ceiling}) <= e.ceiling
      BY <1>1, <3>1, MinOfThree
    <3> QED BY <3>2 DEF q, c
  <2> HIDE DEF candidate, least
  <2>5. candidate \in Int
    BY <1>1, <1>2, <2>2, <2>3
  <2>6. p <= 0 => candidate <= 0
    <3>1. p <= 0 => Clamp(e, p) <= 0
      BY <1>1, <1>2
    <3> QED BY <1>2, <2>3, <2>5, <3>1
  <2>7. CASE candidate < least
    <3>1. Realisable(d, p, m, e) = 0
      BY <2>1, <2>7
    <3> QED BY <1>1, <1>4, <3>1
  <2>8. CASE ~ (candidate < least)
    <3>1. Realisable(d, p, m, e) = candidate /\ candidate > 0 /\ candidate >= least
      BY <2>1, <2>2, <2>5, <2>8
    <3> QED BY <1>1, <1>4, <2>3, <2>5, <2>6, <3>1 DEF least
  <2> QED BY <2>7, <2>8
<1>5. CASE d \in Tanks
  <2>1. d \notin Evses /\ Takes[d] \in Nat
    BY <1>5, HouseIs, GuardAssumption
  <2>2. e.floor = 0
    <3>1. Ratings(d).floor = 0
      BY <1>5, RatingsAre, HouseIs
    <3> QED BY <1>1, <3>1 DEF MayRest
  <2> DEFINE asked == Clamp(e, p)
             full  == Takes[d]
  <2>3. Realisable(d, p, m, e) =
          IF full > 0 /\ e.ceiling >= full /\ 2 * asked >= full THEN full ELSE 0
    BY <1>5, <2>1 DEF Realisable
  <2>4. asked \in Int /\ full \in Nat /\ (p <= 0 => asked = 0)
    BY <1>1, <1>2, <2>1, <2>2
  <2> HIDE DEF asked, full
  <2>5. p <= 0 => Realisable(d, p, m, e) = 0
    BY <2>3, <2>4
  <2> QED BY <1>1, <2>1, <2>2, <2>3, <2>4, <2>5
<1> QED BY <1>3, <1>4, <1>5

(* And so does what it takes.                                              *)
LEMMA TakenIs ==
  ASSUME GuardTypeOK, NEW d \in Devices, NEW e, MayRest(d, e), NEW told \in Int,
         e.floor <= told, told <= e.ceiling
  PROVE  /\ Taken(d, told) \in Int /\ e.floor <= Taken(d, told) /\ Taken(d, told) <= e.ceiling
         /\ d \in Roofs => Taken(d, told) <= 0
         /\ d \notin Roofs \cup Pumps => Taken(d, told) = told
<1>1. e.floor \in Int /\ e.ceiling \in Int /\ e.floor <= 0 /\ 0 <= e.ceiling
  BY DEF MayRest, Envelope
<1>2. sun \in Nat
  BY DEF GuardTypeOK
<1>3. CASE d \in Roofs
  <2>1. Taken(d, told) = Max({told, -sun})
    <3>1. d \notin Pumps
      BY <1>3, HouseIs
    <3> QED BY <1>3, <3>1 DEF Taken
  <2>2. Max({told, -sun}) = IF told >= -sun THEN told ELSE -sun
    <3> DEFINE q == -sun
    <3>1. q \in Int
      BY <1>2
    <3> HIDE DEF q
    <3>2. Max({told, q}) = IF told >= q THEN told ELSE q
      BY <3>1, MaxIs
    <3> QED BY <3>2 DEF q
  <2>3. e.ceiling = 0
    <3>1. Ratings(d).ceiling = 0
      BY <1>3, RatingsAre
    <3> QED BY <1>1, <3>1 DEF MayRest
  <2> QED BY <1>1, <1>2, <1>3, <2>1, <2>2, <2>3
<1>4. CASE d \notin Roofs
  <2>1. Taken(d, told) = IF d \in Pumps /\ power[d] = 0 THEN 0 ELSE told
    BY <1>4 DEF Taken
  <2> QED BY <1>1, <1>4, <2>1
<1> QED BY <1>3, <1>4

-----------------------------------------------------------------------------
(* The tick *)

(* Roofs only produce, cars only draw (realisable has no discharge for      *)
(* them, whatever their ratings), what nobody can command stays within its *)
(* nameplate, and every bound leaves its device the choice of rest.        *)
HouseInv ==
  /\ GuardTypeOK
  /\ \A d \in Roofs : power[d] <= 0
  /\ \A d \in Evses : power[d] >= 0
  /\ \A d \in Devices \ (Roofs \cup Commandable) : power[d] \in 0 .. Nameplate[d]
  /\ \A d \in Devices : envelope[d].floor <= 0 /\ 0 <= envelope[d].ceiling

(* What the arbiter tells a device.                                        *)
ToldBy(d, w) == Realisable(d, w[d], ModeOf(d, mode'), envelope'[d])

(* What a device that was told so does.                                    *)
Obeys(d, w) ==
  /\ power'[d] \in Int
  /\ envelope'[d].floor <= power'[d] /\ power'[d] <= envelope'[d].ceiling
  /\ d \in Roofs => power'[d] <= 0
  /\ d \notin Roofs \cup Pumps => power'[d] = ToldBy(d, w)
  /\ d \in Evses => power'[d] >= 0
  /\ d \notin Roofs \cup Pumps \cup Evses /\ w[d] <= 0
       => power'[d] <= (IF w[d] >= envelope'[d].floor THEN w[d] ELSE envelope'[d].floor)

(* What a tick is, the conductors known.                                   *)
LEMMA TickIs ==
  ASSUME HouseInv, NEW w \in Wants, Tick(w)
  PROVE  /\ w \in [Commandable -> Int]
         /\ mode' \in [Evses -> {"Single", "Three"}] /\ \A e \in Evses : mode'[e] \in ModesOf(e)
         /\ \A e \in Evses : PolicyMay(e, mode'[e], Verdict(w)[e].ceiling,
                                       IF e \in Commandable THEN w[e] ELSE 0)
         /\ envelope' = ApplyModes(Verdict(w), mode')
         /\ power' = [d \in Devices |->
                        IF d \in Commandable THEN Taken(d, ToldBy(d, w)) ELSE power[d]]
         /\ changes' = 0
         /\ UNCHANGED <<rest, sun, heard, metered, store, limits>>
<1>1. w \in [Commandable -> Int]
  BY GuardAssumption
<1>2. PICK modes \in [Evses -> {"Single", "Three"}] :
            /\ \A e \in Evses :
                 /\ modes[e] \in ModesOf(e)
                 /\ PolicyMay(e, modes[e], Verdict(w)[e].ceiling,
                              IF e \in Commandable THEN w[e] ELSE 0)
            /\ mode' = modes
            /\ envelope' = ApplyModes(Verdict(w), modes)
            /\ power' = [d \in Devices |->
                 IF d \in Commandable
                 THEN Taken(d, Realisable(d, w[d], ModeOf(d, modes), envelope'[d]))
                 ELSE power[d]]
            /\ changes' = 0
            /\ UNCHANGED <<rest, sun, heard, metered, store, limits>>
  BY DEF Tick
<1> QED BY <1>1, <1>2 DEF ToldBy

(* After a tick the bounds keep to every budget of that tick.              *)
LEMMA TickBounds ==
  ASSUME HouseInv, NEW w \in Wants, Tick(w)
  PROVE  /\ Rested(Verdict(w)) /\ Rested(envelope') /\ Tightens(envelope', Verdict(w))
         /\ Bounded(envelope', w)
         /\ \A d \in Commandable \cap Unsymmetric(mode') :
              envelope'[d].ceiling <= UnbalanceCeiling(d, mode')
<1>1. GuardTypeOK /\ w \in [Commandable -> Int] /\ envelope' = ApplyModes(Verdict(w), mode')
  BY TickIs DEF HouseInv
<1> DEFINE free  == Verdict(w)
           modes == mode'
           after == ApplyModes(free, modes)
<1>2. Bounded(free, w)
  BY <1>1, VerdictFits
<1>3. Rested(free)
  BY <1>2 DEF Bounded
<1> HIDE DEF free, modes
<1>4. /\ Rested(after) /\ Tightens(after, free) /\ SameFloors(after, free)
      /\ \A d \in Commandable \cap Unsymmetric(modes) :
                  after[d].ceiling <= UnbalanceCeiling(d, modes)
  BY <1>1, <1>3, ApplyModesFit
<1>5. after = envelope'
  BY <1>1 DEF free, modes
<1> HIDE DEF after
<1>6. Bounded(after, w)
  BY <1>1, <1>2, <1>4, BoundedOn
<1> QED BY <1>3, <1>4, <1>5, <1>6 DEF free, modes

(* Every device that can be commanded is within its bounds.                *)
LEMMA TickObeys ==
  ASSUME HouseInv, NEW w \in Wants, Tick(w), NEW d \in Commandable
  PROVE  Obeys(d, w)
<1>1. /\ w \in [Commandable -> Int] /\ mode' \in [Evses -> {"Single", "Three"}]
      /\ power'[d] = Taken(d, ToldBy(d, w)) /\ d \in Devices /\ w[d] \in Int
  BY TickIs, HouseIs
<1> DEFINE e == envelope'[d]
           m == ModeOf(d, mode')
           told == Realisable(d, w[d], m, e)
<1>2. m \in {"Single", "Three"}
  BY <1>1 DEF ModeOf
<1>3. MayRest(d, e)
  BY <1>1, TickBounds DEF Rested
<1>4. ToldBy(d, w) = told
  BY DEF ToldBy
<1> HIDE DEF e, m
<1>5. /\ told \in Int /\ e.floor <= told /\ told <= e.ceiling
      /\ d \notin Evses /\ w[d] <= 0 => told <= (IF w[d] >= e.floor THEN w[d] ELSE e.floor)
      /\ d \in Evses => told >= 0
  <2> DEFINE p == w[d]
  <2>1. p \in Int
    BY <1>1
  <2> HIDE DEF p
  <2>2. LET t == Realisable(d, p, m, e)
        IN  /\ t \in Int /\ e.floor <= t /\ t <= e.ceiling
            /\ d \notin Evses /\ p <= 0 => t <= (IF p >= e.floor THEN p ELSE e.floor)
            /\ d \in Evses => t = 0 \/ t >= MinPower(d, m)
    BY <1>1, <1>2, <1>3, <2>1, RealisableIs
  <2>3. MinPower(d, m) \in Nat
    BY <1>2, MinPowerIs
  <2> QED BY <2>2, <2>3 DEF p
<1> HIDE DEF told
<1>6. /\ Taken(d, told) \in Int /\ e.floor <= Taken(d, told) /\ Taken(d, told) <= e.ceiling
      /\ d \in Roofs => Taken(d, told) <= 0
      /\ d \notin Roofs \cup Pumps => Taken(d, told) = told
  BY <1>1, <1>3, <1>5, TakenIs DEF HouseInv
<1>7. d \in Evses => d \notin Roofs \cup Pumps
  BY HouseIs
<1> QED BY <1>1, <1>4, <1>5, <1>6, <1>7 DEF Obeys, e

(* Arbiter::tick keeps the invariant.                                      *)
LEMMA TickKeeps == ASSUME HouseInv, NEW w \in Wants, Tick(w) PROVE HouseInv'
<1>1. /\ w \in [Commandable -> Int] /\ mode' \in [Evses -> {"Single", "Three"}]
      /\ \A e \in Evses : mode'[e] \in ModesOf(e)
      /\ power' = [d \in Devices |->
                        IF d \in Commandable THEN Taken(d, ToldBy(d, w)) ELSE power[d]]
      /\ changes' = 0
      /\ UNCHANGED <<rest, sun, heard, metered, store, limits>>
  BY TickIs
<1>2. Rested(envelope')
  BY TickBounds
<1>3. \A d \in Commandable : /\ power'[d] \in Int /\ (d \in Roofs => power'[d] <= 0)
                              /\ (d \in Evses => power'[d] >= 0)
  BY TickObeys DEF Obeys
<1>4. \A d \in Devices \ Commandable : power'[d] = power[d] /\ power[d] \in Int
  BY <1>1, DeviceIs DEF HouseInv
<1>5. power' \in [Devices -> Int]
  <2>1. \A d \in Devices : power'[d] \in Int
    BY <1>3, <1>4
  <2> QED BY <1>1, <2>1
<1>6. \A d \in Devices :
        /\ envelope'[d] \in Envelope
        /\ Ratings(d).floor <= envelope'[d].floor /\ envelope'[d].floor <= 0
        /\ 0 <= envelope'[d].ceiling /\ envelope'[d].ceiling <= Ratings(d).ceiling
        /\ envelope'[d].floor <= envelope'[d].ceiling
  <2>1. ASSUME NEW d \in Devices
        PROVE  envelope'[d].floor \in Int /\ envelope'[d].ceiling \in Int
    BY <1>2, RestedIs
  <2> QED BY <1>2, <2>1 DEF Rested, MayRest
<1>7. envelope' \in [Devices -> Envelope]
  BY <1>2 DEF Rested
<1>8. changes' \in 0 .. MaxChanges
  BY <1>1, GuardAssumption
<1>9. GuardTypeOK'
  BY <1>1, <1>5, <1>6, <1>7, <1>8 DEF HouseInv, GuardTypeOK
<1>10. \A d \in Roofs : power'[d] <= 0
  BY <1>3, <1>4, HouseIs DEF HouseInv
<1>11. \A d \in Devices \ (Roofs \cup Commandable) : power'[d] \in 0 .. Nameplate[d]
  BY <1>4 DEF HouseInv
<1>12. \A d \in Evses : power'[d] >= 0
  BY <1>3, <1>4, HouseIs DEF HouseInv
<1> QED BY <1>6, <1>9, <1>10, <1>11, <1>12 DEF HouseInv

-----------------------------------------------------------------------------
(* What happens between two ticks *)

LEMMA InitHouseInv == GuardInit => HouseInv
<1>1. SUFFICES ASSUME GuardInit PROVE HouseInv
  OBVIOUS
<1>2. power = [d \in Devices |-> 0] /\ rest \in Nat /\ sun = 0 /\ heard = Devices /\ metered = TRUE
      /\ store = [b \in Batteries |-> "part"] /\ limits = [steuve |-> None, feedIn |-> None]
      /\ mode \in [Evses -> {"Single", "Three"}] /\ (\A e \in Evses : mode[e] \in ModesOf(e))
      /\ envelope = [d \in Devices |-> Ratings(d)] /\ changes = 0
  BY <1>1, GuardAssumption DEF GuardInit
<1>3. \A d \in Devices : /\ Ratings(d) \in Envelope /\ Ratings(d).floor \in Int
                         /\ Ratings(d).ceiling \in Int
                         /\ Ratings(d).floor <= 0 /\ 0 <= Ratings(d).ceiling
  BY RatingsAre DEF Envelope
<1>4. envelope \in [Devices -> Envelope]
  BY <1>2, <1>3
<1>5. \A d \in Devices : /\ Ratings(d).floor <= envelope[d].floor
                         /\ envelope[d].floor <= envelope[d].ceiling
                         /\ envelope[d].ceiling <= Ratings(d).ceiling
                         /\ envelope[d].floor <= 0 /\ 0 <= envelope[d].ceiling
  <2>1. \A d \in Devices : envelope[d] = Ratings(d)
    BY <1>2
  <2> QED BY <1>3, <2>1
<1>6. changes \in 0 .. MaxChanges
  BY <1>2, GuardAssumption
<1>7. \A d \in Devices : power[d] = 0 /\ 0 \in 0 .. Nameplate[d]
  BY <1>2, GuardAssumption
<1>8. power \in [Devices -> Int] /\ sun \in Nat /\ metered \in BOOLEAN /\ heard \subseteq Devices
      /\ limits.steuve = None /\ limits.feedIn = None
      /\ store \in [Batteries -> {"empty", "part", "full"}]
  BY <1>2
<1>9. GuardTypeOK
  BY <1>2, <1>4, <1>5, <1>6, <1>8 DEF GuardTypeOK
<1> QED BY <1>5, <1>7, <1>9, HouseIs DEF HouseInv

(* What leaves the guard's word and the powers alone, or moves the power of *)
(* one kind of device only. *)
LEMMA ChangeKeeps ==
  ASSUME HouseInv, Change, power' \in [Devices -> Int], rest' \in Nat, sun' \in Nat,
         heard' \subseteq Devices, metered' \in BOOLEAN,
         store' \in [Batteries -> {"empty", "part", "full"}],
         limits'.steuve \in Nat \cup {None}, limits'.feedIn \in Nat \cup {None},
         \A d \in Roofs : power'[d] <= 0, \A d \in Evses : power'[d] >= 0,
         \A d \in Devices \ (Roofs \cup Commandable) : power'[d] \in 0 .. Nameplate[d]
  PROVE  HouseInv'
<1>1. changes' \in 0 .. MaxChanges /\ UNCHANGED <<mode, envelope>>
  <2>1. changes \in 0 .. MaxChanges /\ MaxChanges \in Nat
    BY GuardAssumption DEF HouseInv, GuardTypeOK
  <2>2. changes < MaxChanges /\ changes' = changes + 1 /\ UNCHANGED <<mode, envelope>>
    BY DEF Change, word
  <2> QED BY <2>1, <2>2
<1>2. /\ envelope' \in [Devices -> Envelope]
      /\ \A d \in Devices : /\ Ratings(d).floor <= envelope'[d].floor
                            /\ envelope'[d].floor <= envelope'[d].ceiling
                            /\ envelope'[d].ceiling <= Ratings(d).ceiling
                            /\ envelope'[d].floor <= 0 /\ 0 <= envelope'[d].ceiling
  BY <1>1 DEF HouseInv, GuardTypeOK
<1>3. mode' \in [Evses -> {"Single", "Three"}] /\ \A e \in Evses : mode'[e] \in ModesOf(e)
  BY <1>1 DEF HouseInv, GuardTypeOK
<1>4. GuardTypeOK'
  BY <1>1, <1>2, <1>3 DEF GuardTypeOK
<1> QED BY <1>2, <1>4 DEF HouseInv

(* What is so before a change.                                             *)
LEMMA StillIs ==
  ASSUME HouseInv
  PROVE  /\ power \in [Devices -> Int] /\ rest \in Nat /\ sun \in Nat
         /\ heard \subseteq Devices /\ metered \in BOOLEAN
         /\ store \in [Batteries -> {"empty", "part", "full"}]
         /\ limits.steuve \in Nat \cup {None} /\ limits.feedIn \in Nat \cup {None}
         /\ \A d \in Roofs : power[d] <= 0
         /\ \A d \in Evses : power[d] >= 0
         /\ \A d \in Devices \ (Roofs \cup Commandable) : power[d] \in 0 .. Nameplate[d]
         /\ \A d \in Devices : /\ envelope[d].floor \in Int /\ envelope[d].ceiling \in Int
                               /\ envelope[d].floor <= 0 /\ 0 <= envelope[d].ceiling
                               /\ Nameplate[d] \in Nat
BY GuardAssumption DEF HouseInv, GuardTypeOK, Envelope

(* The sun moves.                                                          *)
LEMMA SunKeeps == ASSUME HouseInv, NEW s \in Sunlight, SunMoves(s) PROVE HouseInv'
<1>1. /\ Change /\ sun' = s /\ UNCHANGED <<rest, store, heard, metered, limits>>
      /\ power' = [d \in Devices |->
           IF d \notin Roofs THEN power[d]
           ELSE IF d \in Commandable THEN Max({envelope[d].floor, -s})
           ELSE -Min({s, Nameplate[d]})]
  BY DEF SunMoves, view
<1>2. s \in Nat
  BY GuardAssumption
<1>3. ASSUME NEW d \in Roofs PROVE power'[d] \in Int /\ power'[d] <= 0
  <2>1. d \in Devices /\ envelope[d].floor \in Int /\ envelope[d].floor <= 0 /\ Nameplate[d] \in Nat
    BY HouseIs, StillIs
  <2>2. CASE d \in Commandable
    <3> DEFINE q == -s
    <3>1. power'[d] = Max({envelope[d].floor, q}) /\ q \in Int /\ q <= 0
      BY <1>1, <1>2, <2>1, <2>2
    <3> HIDE DEF q
    <3>2. Max({envelope[d].floor, q}) = IF envelope[d].floor >= q THEN envelope[d].floor ELSE q
      BY <2>1, <3>1, MaxIs
    <3> QED BY <2>1, <3>1, <3>2
  <2>3. CASE d \notin Commandable
    <3>1. power'[d] = -Min({s, Nameplate[d]})
      BY <1>1, <2>1, <2>3
    <3>2. Min({s, Nameplate[d]}) = IF s <= Nameplate[d] THEN s ELSE Nameplate[d]
      BY <1>2, <2>1, MinIs
    <3> QED BY <1>2, <2>1, <3>1, <3>2
  <2> QED BY <2>2, <2>3
<1>4. \A d \in Devices \ Roofs : power'[d] = power[d]
  BY <1>1
<1>5. power' \in [Devices -> Int]
  <2>1. \A d \in Devices : power'[d] \in Int
    BY <1>3, <1>4, StillIs
  <2> QED BY <1>1, <2>1
<1>6. \A d \in Devices \ (Roofs \cup Commandable) : power'[d] \in 0 .. Nameplate[d]
  BY <1>4, StillIs
<1>7. /\ rest' \in Nat /\ sun' \in Nat /\ heard' \subseteq Devices /\ metered' \in BOOLEAN
      /\ store' \in [Batteries -> {"empty", "part", "full"}]
      /\ limits'.steuve \in Nat \cup {None} /\ limits'.feedIn \in Nat \cup {None}
  BY <1>1, <1>2, StillIs
<1>8. \A d \in Evses : power'[d] >= 0
  BY <1>4, StillIs, HouseIs
<1> QED BY <1>1, <1>3, <1>5, <1>6, <1>7, <1>8, ChangeKeeps

(* One device moves.                                                       *)
LEMMA OneMoves ==
  ASSUME HouseInv, Change, UNCHANGED <<rest, sun, heard, metered, limits>>,
         store' \in [Batteries -> {"empty", "part", "full"}],
         NEW d \in Devices \ Roofs, NEW p \in Int, d \notin Commandable => p \in 0 .. Nameplate[d],
         d \in Evses => p >= 0,
         power' = [power EXCEPT ![d] = p]
  PROVE  HouseInv'
<1>1. power \in [Devices -> Int] /\ d \in Devices /\ d \notin Roofs
  BY StillIs
<1>2. power' \in [Devices -> Int] /\ power'[d] = p /\ \A e \in Devices \ {d} : power'[e] = power[e]
  BY <1>1
<1>3. \A e \in Roofs : power'[e] <= 0
  BY <1>1, <1>2, StillIs, HouseIs
<1>4. \A e \in Devices \ (Roofs \cup Commandable) : power'[e] \in 0 .. Nameplate[e]
  BY <1>1, <1>2, StillIs
<1>5. /\ rest' \in Nat /\ sun' \in Nat /\ heard' \subseteq Devices /\ metered' \in BOOLEAN
      /\ limits'.steuve \in Nat \cup {None} /\ limits'.feedIn \in Nat \cup {None}
  BY StillIs
<1>6. \A e \in Evses : power'[e] >= 0
  BY <1>2, StillIs, HouseIs
<1> QED BY <1>2, <1>3, <1>4, <1>5, <1>6, ChangeKeeps

(* A thermostat or an appliance switches.                                  *)
LEMMA SwitchKeeps ==
  ASSUME HouseInv, NEW d \in Pumps \cup Of("load") \cup (Tanks \ Commandable), Switches(d)
  PROVE  HouseInv'
<1> DEFINE p == IF power[d] # 0 THEN 0
                ELSE IF d \in Commandable THEN envelope[d].ceiling ELSE Nameplate[d]
<1>1. Change /\ UNCHANGED <<rest, sun, heard, metered, limits>> /\ store' = store
      /\ power' = [power EXCEPT ![d] = p]
  BY DEF Switches, view
<1>2. d \in Devices \ Roofs /\ d \notin Evses
  BY HouseIs DEF Of, Roofs, Evses
<1>3. p \in Int /\ (d \notin Commandable => p \in 0 .. Nameplate[d])
  BY <1>2, StillIs
<1> HIDE DEF p
<1>4. store' \in [Batteries -> {"empty", "part", "full"}]
  BY <1>1, StillIs
<1> QED BY <1>1, <1>2, <1>3, <1>4, OneMoves

(* A car or a tank stops.                                                  *)
LEMMA StopKeeps ==
  ASSUME HouseInv, NEW d \in Evses \cup (Tanks \cap Commandable), Stops(d)
  PROVE  HouseInv'
<1> DEFINE p == 0
<1>1. Change /\ UNCHANGED <<rest, sun, heard, metered, limits>> /\ store' = store
      /\ power' = [power EXCEPT ![d] = p]
  BY DEF Stops, view
<1>2. d \in Devices \ Roofs
  BY HouseIs
<1>3. p \in Int /\ p \in 0 .. Nameplate[d] /\ p >= 0
  BY <1>2, StillIs
<1>4. store' \in [Batteries -> {"empty", "part", "full"}]
  BY <1>1, StillIs
<1> HIDE DEF p
<1> QED BY <1>1, <1>2, <1>3, <1>4, OneMoves

(* A store is full, or empty, or neither.                                  *)
LEMMA StoreKeeps ==
  ASSUME HouseInv, NEW b \in Batteries, NEW l \in {"empty", "part", "full"}, StoreReaches(b, l)
  PROVE  HouseInv'
<1> DEFINE p == CASE l = "full"  -> Min({power[b], 0})
                  [] l = "empty" -> Max({power[b], 0})
                  [] OTHER       -> power[b]
<1>1. Change /\ UNCHANGED <<rest, sun, heard, metered, limits>>
      /\ store' = [store EXCEPT ![b] = l] /\ power' = [power EXCEPT ![b] = p]
  BY DEF StoreReaches, view
<1>2. b \in Devices \ Roofs /\ b \notin Evses /\ power[b] \in Int /\ Nameplate[b] \in Nat
  <2>1. b \in Devices \ Roofs /\ b \notin Evses
    BY HouseIs
  <2> QED BY <2>1, StillIs
<1>3. p \in {power[b], 0}
  <2>1. Min({power[b], 0}) \in {power[b], 0} /\ Max({power[b], 0}) \in {power[b], 0}
    BY <1>2, MinIs, MaxIs
  <2> QED BY <2>1
<1> HIDE DEF p
<1>4. p \in Int /\ (b \notin Commandable => p \in 0 .. Nameplate[b])
  BY <1>2, <1>3, StillIs
<1>5. store' \in [Batteries -> {"empty", "part", "full"}]
  BY <1>1, StillIs
<1> QED BY <1>1, <1>2, <1>4, <1>5, OneMoves

(* Every step keeps the invariant: one step of the proof per action.       *)
LEMMA HouseStep == ASSUME HouseInv, [GuardNext]_guardVars PROVE HouseInv'
<1>1. ASSUME NEW w \in Wants, Tick(w) PROVE HouseInv'
  BY <1>1, TickKeeps
<1>2. ASSUME NEW s \in Sunlight, SunMoves(s) PROVE HouseInv'
  BY <1>2, SunKeeps
<1>3. ASSUME NEW p \in Rests, HouseholdChanges(p) PROVE HouseInv'
  <2>1. Change /\ rest' = p /\ UNCHANGED <<power, sun, store, heard, metered, limits>>
    BY <1>3 DEF HouseholdChanges, view
  <2>2. rest' \in Nat
    BY <2>1, GuardAssumption
  <2> QED BY <2>1, <2>2, StillIs, ChangeKeeps
<1>4. ASSUME NEW d \in Pumps \cup Of("load") \cup (Tanks \ Commandable), Switches(d)
      PROVE  HouseInv'
  BY <1>4, SwitchKeeps
<1>5. ASSUME NEW d \in Evses \cup (Tanks \cap Commandable), Stops(d) PROVE HouseInv'
  BY <1>5, StopKeeps
<1>6. ASSUME NEW b \in Batteries, NEW l \in {"empty", "part", "full"}, StoreReaches(b, l)
      PROVE  HouseInv'
  BY <1>6, StoreKeeps
<1>7. ASSUME NEW d \in Devices, GoesSilent(d) \/ IsHeardAgain(d) PROVE HouseInv'
  <2>1. Change /\ heard' \subseteq Devices /\ UNCHANGED <<power, rest, sun, store, metered, limits>>
    BY <1>7, StillIs DEF GoesSilent, IsHeardAgain, house
  <2> QED BY <2>1, StillIs, ChangeKeeps
<1>8. ASSUME MeterComesAndGoes PROVE HouseInv'
  <2>1. Change /\ metered' \in BOOLEAN /\ UNCHANGED <<power, rest, sun, store, heard, limits>>
    BY <1>8, StillIs DEF MeterComesAndGoes, house
  <2> QED BY <2>1, StillIs, ChangeKeeps
<1>9. ASSUME NEW l \in Limits, OperatorSays(l) PROVE HouseInv'
  <2>1. Change /\ limits' = l /\ UNCHANGED <<power, rest, sun, store, heard, metered>>
    BY <1>9 DEF OperatorSays, house, view
  <2>2. limits'.steuve \in Nat \cup {None} /\ limits'.feedIn \in Nat \cup {None}
    BY <2>1, GuardAssumption
  <2> QED BY <2>1, <2>2, StillIs, ChangeKeeps
<1>10. ASSUME UNCHANGED guardVars PROVE HouseInv'
  <2>1. /\ power' = power /\ rest' = rest /\ sun' = sun /\ heard' = heard /\ metered' = metered
        /\ store' = store /\ limits' = limits /\ mode' = mode /\ envelope' = envelope
        /\ changes' = changes
    BY <1>10 DEF guardVars
  <2> QED BY <2>1 DEF HouseInv, GuardTypeOK
<1> QED BY <1>1, <1>2, <1>3, <1>4, <1>5, <1>6, <1>7, <1>8, <1>9, <1>10 DEF GuardNext

(* The inductive invariant of the guard and the devices, whatever house it *)
(* is.                                                                     *)
THEOREM HouseStays == GuardSpec => []HouseInv
<1>1. GuardInit => HouseInv
  BY InitHouseInv
<1>2. HouseInv /\ [GuardNext]_guardVars => HouseInv'
  BY HouseStep
<1> QED BY <1>1, <1>2, PTL DEF GuardSpec

(* For every house: after any tick every device has a bound that is not    *)
(* empty and lies within its ratings, whatever the operator asks, whoever  *)
(* is silent and whatever the store says.                                  *)
THEOREM GuardTypeCorrect == GuardSpec => []GuardTypeOK
<1>1. HouseInv => GuardTypeOK
  BY DEF HouseInv
<1> QED BY <1>1, HouseStays, PTL

(* What leaves nothing changed since the tick is a tick.                   *)
LEMMA OnlyTicks ==
  ASSUME HouseInv, GuardNext, Ticked
  PROVE  \E w \in Wants : Tick(w)
<1>1. changes \in Nat
  BY DEF HouseInv, GuardTypeOK
<1>2. ~ Change
  BY <1>1 DEF Change, Ticked
<1> QED
  BY <1>2 DEF GuardNext, SunMoves, HouseholdChanges, Switches, Stops, StoreReaches, GoesSilent,
       IsHeardAgain, MeterComesAndGoes, OperatorSays

-----------------------------------------------------------------------------
(* What the guard takes the house to consume is never more than it does. *)

LEMMA NotLent ==
  ASSUME GuardTypeOK, NEW w \in [Commandable -> Int]
  PROVE  /\ Total(Ending(w), (heard \cap Commandable) \ Thermostats) \in Nat
         /\ Uncallable \in Nat
<1>1. Total(Ending(w), (heard \cap Commandable) \ Thermostats) \in Nat
  <2> DEFINE S == (heard \cap Commandable) \ Thermostats
  <2>1. IsFiniteSet(S)
    BY HouseIs, FS_Subset
  <2>2. ASSUME NEW d \in S PROVE Ending(w)[d] \in Nat
    <3>1. d \in Commandable /\ d \in Devices /\ power[d] \in Int /\ w[d] \in Int
      BY HouseIs, DeviceIs
    <3>2. Inflow(w[d]) \in Nat
      BY <3>1, FlowIs
    <3>3. AtLeastZero(power[d] - Inflow(w[d])) \in Nat
      BY <3>1, <3>2, AtLeastZeroIs
    <3> QED BY <3>1, <3>3 DEF Ending
  <2> HIDE DEF S
  <2>3. Total(Ending(w), S) \in Nat
    BY <2>1, <2>2, TotalNat
  <2> QED BY <2>3 DEF S
<1>2. Uncallable \in Nat
  <2>1. LendWindow \in Nat /\ TickPeriod \in Nat \ {0}
    BY GuardAssumption
  <2>2. AtLeastZero(TickPeriod - LendWindow) \in Nat
    BY <2>1, AtLeastZeroIs
  <2> DEFINE product == Total(Draw, heard \cap Thermostats) * AtLeastZero(TickPeriod - LendWindow)
  <2>3. Total(Draw, heard \cap Thermostats) \in Nat
    <3>1. heard \cap Thermostats \in SUBSET Devices
      BY HouseIs
    <3> QED BY <3>1, Sums
  <2>4. product \in Nat
    BY <2>2, <2>3, Product
  <2>5. Uncallable = product \div TickPeriod
    BY DEF Uncallable
  <2> HIDE DEF product
  <2> QED BY <2>1, <2>4, <2>5, RoundedDown
<1> QED BY <1>1, <1>2

(* What is drawn, split by who is under par. 14a and by who is heard.      *)
LEMMA HeardDraws ==
  ASSUME GuardTypeOK
  PROVE  /\ Total(Draw, Devices) = Total(Draw, Steuve) + Total(Draw, Devices \ Steuve)
         /\ Total(Draw, Devices) = Total(Draw, Assumed) + Total(Drawn, heard)
         /\ Total(Drawn, heard) <= Total(Drawn, Devices)
<1>1. /\ Devices \in SUBSET Devices /\ Steuve \in SUBSET Devices /\ heard \in SUBSET Devices
      /\ Assumed \in SUBSET (Devices \ heard) /\ Devices \ heard \in SUBSET Devices
      /\ (Devices \ heard) \ Assumed \in SUBSET Devices /\ Assumed \in SUBSET Devices
  BY HouseIs DEF Assumed, GuardTypeOK
<1>2. IsFiniteSet(Devices) /\ IsFiniteSet(Devices \ heard) /\ IsFiniteSet((Devices \ heard) \ Assumed)
  BY <1>1, PartIsFinite
<1>3. \A d \in Devices : Draw[d] \in Int /\ Drawn[d] \in Nat
  BY SeenIs, DeviceIs
<1>4. Total(Draw, Devices) = Total(Draw, Steuve) + Total(Draw, Devices \ Steuve)
  BY <1>1, <1>2, <1>3, TotalSplit
<1>5. Total(Draw, Devices) = Total(Draw, heard) + Total(Draw, Devices \ heard)
  BY <1>1, <1>2, <1>3, TotalSplit
<1>6. Total(Draw, Devices \ heard) = Total(Draw, Assumed) + Total(Draw, (Devices \ heard) \ Assumed)
  <2>1. \A d \in Devices \ heard : Draw[d] \in Int
    BY <1>3
  <2> QED BY <1>1, <1>2, <2>1, TotalSplit
<1>7. Total(Draw, (Devices \ heard) \ Assumed) = 0
  <2> DEFINE zero == [d \in Devices |-> 0]
             S == (Devices \ heard) \ Assumed
  <2>1. \A d \in S : Draw[d] = 0
    BY SeenIs
  <2>2. Total(Draw, S) \in Nat
    BY <1>1, Sums
  <2>3. \A d \in S : Draw[d] \in Int /\ Draw[d] * 1 <= Draw[d] * 0
    BY <2>1
  <2> HIDE DEF S
  <2>4. Total(Draw, S) * 1 <= Total(Draw, S) * 0
    <3>1. IsFiniteSet(S) /\ 0 \in Int /\ 1 \in Int
      BY <1>2 DEF S
    <3> QED BY <2>3, <3>1, TotalScaled
  <2>5. Total(Draw, S) = 0
    BY <2>2, <2>4
  <2> QED BY <2>5 DEF S
<1>8. /\ Total(Draw, heard) = Total(Drawn, heard) /\ Total(Draw, heard) \in Nat
      /\ Total(Draw, Assumed) \in Nat
  BY <1>1, Sums
<1>9. Total(Drawn, heard) <= Total(Drawn, Devices)
  BY <1>1, <1>2, <1>3, TotalNat
<1> QED BY <1>4, <1>5, <1>6, <1>7, <1>8, <1>9

LEMMA MeteredIs ==
  ASSUME GuardTypeOK, NEW w \in [Commandable -> Int]
  PROVE  Consumption \in Nat /\ Flows(w).metered \in Nat /\ Flows(w).metered <= Consumption
<1> DEFINE flows == Flows(w)
           other == flows.other
           reported == Total(Draw, Devices \ Steuve)
           steuve   == Total(Draw, Steuve)
           assumed  == Total(Draw, Assumed)
           ending   == Total(Ending(w), (heard \cap Commandable) \ Thermostats)
           derived  == Grid - steuve + Total(Feed, Devices \ Steuve) + Total(Feed, Steuve)
           net      == other + steuve - assumed - ending - Uncallable
<1>1. /\ other \in Nat /\ Grid \in Int /\ Grid = Total(power, Devices) + rest
      /\ other \in {reported, 0} \/ (metered /\ other = derived)
      /\ flows.metered = AtLeastZero(net) /\ flows.metered \in Nat
  BY FlowsAre
<1>2. /\ Devices \in SUBSET Devices /\ Steuve \in SUBSET Devices /\ heard \in SUBSET Devices
      /\ Devices \ Steuve \in SUBSET Devices /\ Assumed \in SUBSET Devices
  BY HouseIs DEF Assumed, GuardTypeOK
<1>3. /\ reported \in Nat /\ steuve \in Nat /\ assumed \in Nat
      /\ Total(Drawn, Devices) \in Nat /\ Total(Drawn, heard) \in Nat
      /\ Total(Fed, Devices) \in Nat /\ Total(Feed, Devices) <= Total(Fed, Devices)
      /\ Total(Feed, Devices) \in Nat
      /\ Total(Feed, Devices \ Steuve) \in Nat /\ Total(Feed, Steuve) \in Nat
      /\ Total(power, Devices) = Total(Drawn, Devices) - Total(Fed, Devices)
  BY <1>2, Sums
<1>4. Total(Feed, Devices) = Total(Feed, Steuve) + Total(Feed, Devices \ Steuve)
  <2>1. IsFiniteSet(Devices) /\ \A d \in Devices : Feed[d] \in Int
    BY <1>2, PartIsFinite, SeenIs
  <2> QED BY <1>2, <2>1, TotalSplit
<1>5. ending \in Nat /\ Uncallable \in Nat
  BY NotLent
<1>6. rest \in Nat /\ Consumption = rest + Total(Drawn, Devices)
  BY DEF GuardTypeOK, Consumption
<1>7. /\ Total(Draw, Devices) = steuve + reported
      /\ Total(Draw, Devices) = assumed + Total(Drawn, heard)
      /\ Total(Drawn, heard) <= Total(Drawn, Devices)
  BY HeardDraws
<1> HIDE DEF flows, other, reported, steuve, assumed, ending
<1>8. net \in Int /\ net <= Consumption
  <2>1. CASE other \in {reported, 0}
    BY <1>1, <1>3, <1>5, <1>6, <1>7, <2>1
  <2>2. CASE metered /\ other = derived
    BY <1>1, <1>3, <1>4, <1>5, <1>6, <2>2
  <2> QED BY <1>1, <2>1, <2>2
<1>9. Consumption \in Nat
  BY <1>3, <1>6
<1> HIDE DEF net
<1>10. AtLeastZero(net) = IF net >= 0 THEN net ELSE 0
  BY <1>8, AtLeastZeroIs
<1> QED BY <1>1, <1>8, <1>9, <1>10 DEF flows

(* What feeds in and cannot be commanded is counted in full, where it is   *)
(* heard.                                                                  *)
LEMMA FeedersAre ==
  ASSUME GuardTypeOK, FeedersAreHeard
  PROVE  /\ Total(Feed, Devices \ (Steuve \cup Commandable)) = Total(Fed, Devices \ Commandable)
         /\ Total(Fed, Devices \ Commandable) \in Nat
<1> DEFINE S == Devices \ Commandable
           T == Devices \ (Steuve \cup Commandable)
           rest1 == S \ T
           seen == [d \in S |-> IF d \in T THEN Feed[d] ELSE 0]
<1>1. /\ S \in SUBSET Devices /\ T \in SUBSET S /\ T \in SUBSET Devices /\ IsFiniteSet(S)
      /\ rest1 \in SUBSET Devices /\ IsFiniteSet(T) /\ IsFiniteSet(rest1)
  BY PartIsFinite
<1>2. ASSUME NEW d \in S PROVE Fed[d] \in Nat /\ (d \notin heard \ Steuve => Fed[d] = 0)
  <2>1. power[d] < 0 => d \in heard \ Steuve
    BY DEF FeedersAreHeard
  <2> QED BY <2>1, DeviceIs
<1>3. Total(Fed, S) = Total(Fed, T) + Total(Fed, rest1)
  <2>1. \A d \in S : Fed[d] \in Int
    BY <1>2
  <2> HIDE DEF S, T
  <2> QED BY <1>1, <2>1, TotalSplit
<1>4. Total(Fed, rest1) = 0
  <2>1. \A d \in rest1 : Fed[d] = 0
    BY <1>2
  <2>2. Total(Fed, rest1) \in Nat
    BY <1>1, Sums
  <2>3. \A d \in rest1 : Fed[d] \in Int /\ Fed[d] * 1 <= Fed[d] * 0
    BY <2>1
  <2> HIDE DEF rest1
  <2>4. Total(Fed, rest1) * 1 <= Total(Fed, rest1) * 0
    <3>1. 0 \in Int /\ 1 \in Int
      OBVIOUS
    <3> QED BY <1>1, <2>3, <3>1, TotalScaled
  <2> QED BY <2>2, <2>4
<1>5. Total(Fed, T) = Total(Feed, T)
  <2>1. ASSUME NEW d \in T PROVE Fed[d] \in Int /\ Feed[d] = Fed[d]
    <3>1. d \in Devices /\ d \in S
      OBVIOUS
    <3>2. Fed[d] \in Nat /\ (d \notin heard => Fed[d] = 0)
      BY <1>2, <3>1
    <3> HIDE DEF T
    <3> QED BY <3>1, <3>2, SeenIs
  <2> HIDE DEF T
  <2> QED BY <1>1, <2>1, TotalSame
<1>6. Total(Fed, S) \in Nat /\ Total(Fed, T) \in Nat
  BY <1>1, Sums
<1> QED BY <1>3, <1>4, <1>5, <1>6

-----------------------------------------------------------------------------
(* The feed-in cap *)

LEMMA RestedTotals ==
  ASSUME NEW env, Rested(env), NEW S \in SUBSET Devices
  PROVE  Total(Ceilings(env), S) \in Nat /\ Total(Feeds(env), S) \in Nat
<1>1. Tightens(env, env)
  BY RestedIs DEF Tightens
<1> QED BY <1>1, TightensTotal

(* After a tick the house may feed in no more than the cap allows beyond   *)
(* what it was measured to consume.                                        *)
LEMMA TickFeedsIn ==
  ASSUME HouseInv, NEW w \in Wants, Tick(w), FeedersAreHeard
  PROVE  Total(MayFeed', Commandable)
           <= AtLeastZero(FeedInCap + Consumption - Total(Fed, Devices \ Commandable))
<1>1. GuardTypeOK /\ w \in [Commandable -> Int] /\ Rested(envelope') /\ Bounded(envelope', w)
  BY TickIs, TickBounds DEF HouseInv
<1> DEFINE net == Flows(w).uncontrollable - Flows(w).metered
           room == FeedInCap + Consumption - Total(Fed, Devices \ Commandable)
<1>2. Total(Feeds(envelope'), Commandable) <= PhysicalHeadroom(FeedInCap, net)
  BY <1>1 DEF Bounded
<1>3. Consumption \in Nat /\ Flows(w).metered \in Nat /\ Flows(w).metered <= Consumption
  BY <1>1, MeteredIs
<1>4. /\ Flows(w).uncontrollable = Total(Fed, Devices \ Commandable)
      /\ Total(Fed, Devices \ Commandable) \in Nat
  BY <1>1, FlowsAre, FeedersAre
<1>5. FeedInCap \in Nat
  BY <1>1, FeedInCapIs
<1>6. net \in Int /\ room \in Int /\ FeedInCap - net <= room
  BY <1>3, <1>4, <1>5
<1> HIDE DEF net, room
<1>7. PhysicalHeadroom(FeedInCap, net) = IF FeedInCap >= net THEN FeedInCap - net ELSE 0
  <2>1. FeedInCap \in Int
    BY <1>5
  <2> QED BY <1>6, <2>1, HeadroomIs
<1>8. AtLeastZero(room) = IF room >= 0 THEN room ELSE 0
  BY <1>6, AtLeastZeroIs
<1>9. Total(MayFeed', Commandable) = Total(Feeds(envelope'), Commandable)
  <2> DEFINE f == Feeds(envelope')
             g == MayFeed'
  <2>1. IsFiniteSet(Commandable) /\ Commandable \subseteq Devices
    BY HouseIs
  <2>2. \A d \in Commandable : f[d] \in Int /\ g[d] = f[d]
    <3>1. \A d \in Commandable : /\ f[d] = Outflow(envelope'[d].floor) /\ f[d] \in Nat
      BY <1>1, <2>1, RestedIs
    <3>2. \A d \in Commandable : g[d] = Outflow(envelope'[d].floor)
      BY DEF MayFeed
    <3> QED BY <3>1, <3>2
  <2> HIDE DEF f, g
  <2>3. Total(f, Commandable) = Total(g, Commandable)
    BY <2>1, <2>2, TotalSame
  <2> QED BY <2>3 DEF f, g
<1>10. Total(Feeds(envelope'), Commandable) \in Nat
  <2>1. Commandable \in SUBSET Devices
    BY HouseIs
  <2> QED BY <1>1, <2>1, RestedTotals
<1> QED BY <1>2, <1>5, <1>6, <1>7, <1>8, <1>9, <1>10 DEF room

(* bound_feed_in, for every house, whoever is silent and whatever is lent: *)
(* what may be curtailed feeds in no more than the cap in force leaves of  *)
(* what the house was measured to consume, where whatever else feeds in is *)
(* heard.                                                                  *)
THEOREM TheFeedInHolds == GuardSpec => FeedInHolds
<1> DEFINE Held == Ticked /\ FeedersAreHeard =>
              Total(MayFeed', Commandable)
                <= AtLeastZero(FeedInCap + Consumption - Total(Fed, Devices \ Commandable))
<1>1. HouseInv /\ [GuardNext]_guardVars => [Held]_guardVars
  BY OnlyTicks, TickFeedsIn
<1>2. GuardSpec => [][Held]_guardVars
  BY <1>1, HouseStays, PTL DEF GuardSpec
<1> QED BY <1>2 DEF FeedInHolds

-----------------------------------------------------------------------------
(* What the house may do after a tick *)

LEMMA FixedDraw ==
  ASSUME HouseInv, NEW S \in SUBSET (Devices \ Commandable)
  PROVE  /\ Total(Drawn, S) <= Total(Draw, S) /\ Total(Feed, S) <= Total(Fed, S)
         /\ Total(Drawn, S) \in Nat /\ Total(Draw, S) \in Nat
         /\ Total(Feed, S) \in Nat /\ Total(Fed, S) \in Nat
<1>1. GuardTypeOK /\ S \in SUBSET Devices
  BY DEF HouseInv
<1>2. ASSUME NEW d \in S PROVE Drawn[d] \in Int /\ Draw[d] \in Int /\ Drawn[d] <= Draw[d]
  <2>1. d \in Devices /\ d \notin Commandable
    OBVIOUS
  <2>2. /\ power[d] \in Int /\ Nameplate[d] \in Nat /\ Drawn[d] \in Nat
        /\ Drawn[d] = (IF power[d] >= 0 THEN power[d] ELSE 0)
    BY <1>1, <2>1, DeviceIs
  <2>3. /\ Draw[d] \in Nat /\ (d \in heard => Draw[d] = Drawn[d])
        /\ (d \in Assumed => Draw[d] = Nameplate[d])
    BY <1>1, <2>1, SeenIs
  <2>4. CASE d \in heard
    BY <2>2, <2>3, <2>4
  <2>5. CASE d \notin heard /\ d \in Roofs
    BY <2>2, <2>3, <2>5 DEF HouseInv
  <2>6. CASE d \notin heard /\ d \notin Roofs
    <3>1. d \in Assumed
      BY <2>1, <2>6 DEF Assumed
    <3>2. power[d] \in 0 .. Nameplate[d]
      BY <2>1, <2>6 DEF HouseInv
    <3> QED BY <2>2, <2>3, <3>1, <3>2
  <2> QED BY <2>4, <2>5, <2>6
<1>3. IsFiniteSet(S)
  BY <1>1, PartIsFinite
<1>4. Total(Drawn, S) <= Total(Draw, S)
  BY <1>2, <1>3, TotalAtMost
<1> QED BY <1>1, <1>4, Sums

(* What a device may draw after a tick, and what it feeds in.              *)
LEMMA AfterTick ==
  ASSUME HouseInv, NEW w \in Wants, Tick(w), NEW d \in Devices
  PROVE  /\ power'[d] \in Int /\ MayDraw'[d] \in Nat /\ Fed'[d] \in Nat
         /\ Fed'[d] = (IF power'[d] <= 0 THEN -power'[d] ELSE 0)
         /\ d \in Commandable => MayDraw'[d] <= Ceilings(envelope')[d]
         /\ d \in Commandable /\ power'[d] < 0 => MayDraw'[d] = 0
         /\ d \notin Commandable => /\ power'[d] = power[d] /\ MayDraw'[d] = Drawn[d]
                                    /\ Fed'[d] = Fed[d]
         /\ Ceilings(envelope')[d] \in Nat
         /\ Ceilings(envelope')[d] = envelope'[d].ceiling
<1>1. HouseInv' /\ Rested(envelope') /\ GuardTypeOK
  BY TickKeeps, TickBounds DEF HouseInv
<1>2. power'[d] \in Int
  BY <1>1 DEF HouseInv, GuardTypeOK
<1>3. /\ Ceilings(envelope')[d] = envelope'[d].ceiling /\ envelope'[d].ceiling \in Nat
      /\ Inflow(envelope'[d].ceiling) = envelope'[d].ceiling
  BY <1>1, RestedIs
<1>4. MayDraw'[d] = IF d \notin Commandable \/ power'[d] < 0 THEN Inflow(power'[d])
                    ELSE Inflow(envelope'[d].ceiling)
  BY DEF MayDraw
<1>5. Fed'[d] = Outflow(power'[d])
  BY DEF Fed
<1>6. /\ Inflow(power'[d]) \in Nat /\ Outflow(power'[d]) \in Nat
      /\ Inflow(power'[d]) = IF power'[d] >= 0 THEN power'[d] ELSE 0
      /\ Outflow(power'[d]) = IF power'[d] <= 0 THEN -power'[d] ELSE 0
  <2> DEFINE p == power'[d]
  <2>1. p \in Int
    BY <1>2
  <2> HIDE DEF p
  <2>2. /\ Inflow(p) \in Nat /\ Outflow(p) \in Nat
        /\ Inflow(p) = (IF p >= 0 THEN p ELSE 0) /\ Outflow(p) = (IF p <= 0 THEN -p ELSE 0)
    BY <2>1, FlowIs
  <2> QED BY <2>2 DEF p
<1>7. d \notin Commandable => power'[d] = power[d]
  BY TickIs
<1>8. Drawn[d] = Inflow(power[d]) /\ Fed[d] = Outflow(power[d])
  BY DEF Drawn, Fed
<1> QED BY <1>2, <1>3, <1>4, <1>5, <1>6, <1>7, <1>8

(* The same of any part of the house.                                      *)
LEMMA TickSums ==
  ASSUME HouseInv, NEW w \in Wants, Tick(w), NEW S \in SUBSET Devices
  PROVE  /\ Total(MayDraw', S) \in Nat
         /\ Total(MayDraw', S) <= Total(Ceilings(envelope'), S \cap Commandable)
                                    + Total(Drawn, S \ Commandable)
         /\ Total(Fed', S) = Total(Fed', S \cap Commandable) + Total(Fed, S \ Commandable)
         /\ Total(Ceilings(envelope'), S \cap Commandable) \in Nat
         /\ Total(Fed', S) \in Nat /\ Total(Fed', S \cap Commandable) \in Nat
         /\ Total(Drawn, S \ Commandable) \in Nat /\ Total(Fed, S \ Commandable) \in Nat
         /\ Total(Ceilings(envelope'), S \cap Commandable) = 0 => KeptToZero(S)'
<1> DEFINE may == MayDraw'
           fed == Fed'
           top == Ceilings(envelope')
           C == S \cap Commandable
           U == S \ Commandable
<1>1. /\ IsFiniteSet(S) /\ IsFiniteSet(C) /\ IsFiniteSet(U) /\ C \in SUBSET S /\ S \ C = U
      /\ U \in SUBSET Devices
  BY PartIsFinite
<1>2. \A d \in S : /\ may[d] \in Nat /\ fed[d] \in Nat /\ top[d] \in Nat
                   /\ top[d] = envelope'[d].ceiling
                   /\ d \in C => may[d] <= top[d]
                   /\ d \in U => may[d] = Drawn[d] /\ fed[d] = Fed[d]
  BY AfterTick
<1> HIDE DEF may, fed, top
<1>3. Total(may, S) \in Nat /\ Total(fed, S) \in Nat /\ Total(fed, C) \in Nat
      /\ Total(may, C) \in Nat
  BY <1>1, <1>2, TotalNat
<1>4. Total(top, C) \in Nat /\ \A d \in C : top[d] <= Total(top, C)
  <2>1. \A d \in C : top[d] \in Nat
    BY <1>2
  <2> QED BY <1>1, <2>1, TotalNat
<1>5. Total(may, S) = Total(may, C) + Total(may, U) /\ Total(fed, S) = Total(fed, C) + Total(fed, U)
  <2>1. (\A d \in S : may[d] \in Int) /\ (\A d \in S : fed[d] \in Int)
    BY <1>2
  <2> HIDE DEF C, U
  <2>2. Total(may, S) = Total(may, C) + Total(may, S \ C)
    BY <1>1, <2>1, TotalSplit
  <2>3. Total(fed, S) = Total(fed, C) + Total(fed, S \ C)
    BY <1>1, <2>1, TotalSplit
  <2> QED BY <1>1, <2>2, <2>3
<1>6. Total(may, C) <= Total(top, C)
  <2>1. \A d \in C : may[d] \in Int /\ top[d] \in Int /\ may[d] <= top[d]
    BY <1>2
  <2> QED BY <1>1, <2>1, TotalAtMost
<1>7. Total(may, U) = Total(Drawn, U) /\ Total(fed, U) = Total(Fed, U)
  <2>1. (\A d \in U : may[d] \in Int /\ Drawn[d] = may[d]) /\ (\A d \in U : fed[d] \in Int /\ Fed[d] = fed[d])
    BY <1>2
  <2> QED BY <1>1, <2>1, TotalSame
<1>8. Total(Drawn, U) \in Nat /\ Total(Fed, U) \in Nat
  BY <1>1, Sums DEF HouseInv
<1>9. ASSUME Total(top, C) = 0 PROVE KeptToZero(S)'
  <2>1. \A d \in C : envelope'[d].ceiling <= 0
    BY <1>2, <1>4, <1>9
  <2> QED BY <2>1 DEF KeptToZero
<1> QED BY <1>3, <1>4, <1>5, <1>6, <1>7, <1>8, <1>9 DEF may, fed, top

-----------------------------------------------------------------------------
(* The fuses *)

LEMMA TickKeepsCircuits ==
  ASSUME HouseInv, NEW w \in Wants, Tick(w), NEW i \in DOMAIN Circuits
  PROVE  \/ CarriesTheSite(Circuits[i])
         \/ KeptToZero(Circuits[i].below)'
         \/ NetIntake(Circuits[i].below)' <= Circuits[i].limit
<1> DEFINE S == Circuits[i].below
           limit == Circuits[i].limit
           net == Total(Draw, Fixed(i)) - Total(Feed, Fixed(i))
           top == Total(Ceilings(envelope'), S \cap Commandable)
<1>1. S \in SUBSET Devices /\ limit \in Nat
  BY CircuitIs
<1>2. S \cap Commandable = Behind(i) /\ S \ Commandable = Fixed(i)
      /\ Fixed(i) \in SUBSET (Devices \ Commandable)
  BY <1>1 DEF Behind, Fixed
<1>10. SUFFICES ASSUME ~ CarriesTheSite(Circuits[i])
                PROVE  KeptToZero(S)' \/ NetIntake(S)' <= limit
  OBVIOUS
<1>3. top <= Carries(i) /\ GuardTypeOK
  BY <1>2, <1>10, TickBounds DEF Bounded, Fits, HouseInv
<1>4. /\ Total(Drawn, Fixed(i)) <= Total(Draw, Fixed(i)) /\ Total(Feed, Fixed(i)) <= Total(Fed, Fixed(i))
      /\ Total(Drawn, Fixed(i)) \in Nat /\ Total(Draw, Fixed(i)) \in Nat
      /\ Total(Feed, Fixed(i)) \in Nat /\ Total(Fed, Fixed(i)) \in Nat
  BY <1>2, FixedDraw
<1>5. Carries(i) = IF limit >= net THEN limit - net ELSE 0
  <2>1. Carries(i) = PhysicalHeadroom(limit, net) /\ limit \in Int /\ net \in Int
    BY <1>1, <1>4 DEF Carries
  <2> HIDE DEF limit, net
  <2> QED BY <2>1, HeadroomIs
<1>6. /\ Total(MayDraw', S) \in Nat
      /\ Total(MayDraw', S) <= top + Total(Drawn, Fixed(i))
      /\ Total(Fed', S) = Total(Fed', S \cap Commandable) + Total(Fed, Fixed(i))
      /\ top \in Nat
      /\ Total(Fed', S) \in Nat /\ Total(Fed', S \cap Commandable) \in Nat
      /\ top = 0 => KeptToZero(S)'
  <2> HIDE DEF S
  <2> QED BY <1>1, <1>2, TickSums
<1>7. NetIntake(S)' = Total(MayDraw', S) - Total(Fed', S)
  BY DEF NetIntake
<1> HIDE DEF S, limit, top
<1>8. CASE limit >= net
  <2>1. NetIntake(S)' <= limit
    BY <1>1, <1>3, <1>4, <1>5, <1>6, <1>7, <1>8
  <2> QED BY <2>1 DEF S, limit
<1>9. CASE ~ (limit >= net)
  <2>1. top = 0
    BY <1>3, <1>5, <1>6, <1>9
  <2> QED BY <1>6, <2>1 DEF S
<1> QED BY <1>8, <1>9

(* What the guard makes of everything that is not under par. 14a covers what *)
(* it draws, as long as no roof falls behind. *)
LEMMA OtherCovers ==
  ASSUME HouseInv, NEW w \in Wants, Tick(w), RestIsSeen, RoofsKeepUp, Steuve \subseteq heard
  PROVE  LET U == Devices \ (Steuve \cup Commandable)
         IN  Total(Drawn, U) - Total(Fed, U) + rest - Total(Fed', Commandable)
               <= Flows(w).other - Flows(w).generation
<1> DEFINE U == Devices \ (Steuve \cup Commandable)
           O == Devices \ Steuve
           V == Commandable \ Steuve
           flows == Flows(w)
           fed == Fed'
           seen == [d \in Devices |-> Draw[d] - Feed[d]]
           back == [d \in Devices |-> -fed[d]]
           derived == Grid - Total(Draw, Steuve) + Total(Feed, Devices \ Steuve)
                          + Total(Feed, Steuve)
<1>1. /\ U \in SUBSET Devices /\ O \in SUBSET Devices /\ V \in SUBSET Devices
      /\ U \in SUBSET O /\ O \ U = V /\ V \in SUBSET Commandable /\ Commandable \in SUBSET Devices
      /\ Steuve \in SUBSET Devices /\ Devices \in SUBSET Devices
      /\ U \in SUBSET (Devices \ Commandable) /\ O = Devices \ Steuve
  BY HouseIs
<1>2. /\ IsFiniteSet(U) /\ IsFiniteSet(O) /\ IsFiniteSet(V) /\ IsFiniteSet(Commandable)
      /\ IsFiniteSet(Devices)
  BY <1>1, PartIsFinite
<1>3. GuardTypeOK /\ w \in [Commandable -> Int] /\ rest \in Nat
  BY TickIs DEF HouseInv, GuardTypeOK
<1>4. \A d \in Devices : /\ power'[d] \in Int /\ fed[d] \in Nat
                         /\ fed[d] = (IF power'[d] <= 0 THEN -power'[d] ELSE 0)
  BY AfterTick
<1>5. \A d \in O : power'[d] <= power[d] \/ power[d] >= 0
  BY DEF RoofsKeepUp
<1> HIDE DEF fed
<1>6. Total(back, V) + Total(fed, V) = 0 /\ Total(fed, V) \in Nat /\ Total(back, V) \in Int
      /\ Total(fed, V) <= Total(fed, Commandable) /\ Total(fed, Commandable) \in Nat
  <2>1. \A d \in V : back[d] \in Int /\ fed[d] \in Int /\ back[d] * 1 <= fed[d] * (-1)
                       /\ fed[d] * (-1) <= back[d] * 1
    BY <1>1, <1>4
  <2>2. Total(fed, V) \in Nat /\ Total(fed, V) <= Total(fed, Commandable)
        /\ Total(fed, Commandable) \in Nat
    <3>1. \A d \in Commandable : fed[d] \in Nat
      BY <1>1, <1>4
    <3> QED BY <1>1, <1>2, <3>1, TotalNat
  <2> HIDE DEF back, V
  <2>3. Total(back, V) \in Int
    BY <1>2, <2>1, TotalInt
  <2>4. Total(back, V) * 1 <= Total(fed, V) * (-1)
    <3>1. 1 \in Int /\ -1 \in Int
      OBVIOUS
    <3> DEFINE minus == -1
    <3>2. \A d \in V : back[d] \in Int /\ fed[d] \in Int /\ back[d] * 1 <= fed[d] * minus
      BY <2>1
    <3>3. minus \in Int
      OBVIOUS
    <3> HIDE DEF minus
    <3>4. Total(back, V) * 1 <= Total(fed, V) * minus
      BY <1>2, <3>1, <3>2, <3>3, TotalScaled
    <3> QED BY <3>4 DEF minus
  <2>5. Total(fed, V) * (-1) <= Total(back, V) * 1
    <3> DEFINE minus == -1
    <3>1. 1 \in Int /\ minus \in Int
      OBVIOUS
    <3>2. \A d \in V : fed[d] \in Int /\ back[d] \in Int /\ fed[d] * minus <= back[d] * 1
      BY <2>1
    <3> HIDE DEF minus
    <3>3. Total(fed, V) * minus <= Total(back, V) * 1
      BY <1>2, <3>1, <3>2, TotalScaled
    <3> QED BY <3>3 DEF minus
  <2> QED BY <2>2, <2>3, <2>4, <2>5
<1>7. ASSUME NEW d \in V
      PROVE  /\ back[d] \in Int /\ power[d] \in Int /\ back[d] <= power[d]
             /\ seen[d] \in Int /\ back[d] <= seen[d]
  <2>1. /\ power[d] \in Int /\ power'[d] \in Int /\ fed[d] \in Nat
        /\ fed[d] = (IF power'[d] <= 0 THEN -power'[d] ELSE 0)
        /\ (power'[d] <= power[d] \/ power[d] >= 0) /\ d \in Devices /\ d \in Commandable
        /\ d \notin Steuve
    BY <1>1, <1>3, <1>4, <1>5, DeviceIs
  <2>2. /\ Draw[d] \in Nat /\ Feed[d] \in Nat
        /\ (d \in heard => Draw[d] = Drawn[d] /\ Feed[d] = Fed[d])
        /\ (d \notin heard => Feed[d] = 0) /\ power[d] = Drawn[d] - Fed[d]
        /\ Drawn[d] \in Nat /\ Fed[d] \in Nat
    BY <1>3, <2>1, SeenIs, DeviceIs
  <2>3. back[d] = -fed[d] /\ seen[d] = Draw[d] - Feed[d]
    BY <2>1
  <2> HIDE DEF back, seen
  <2> QED BY <2>1, <2>2, <2>3
<1>8. Total(back, V) <= Total(power, V) /\ Total(back, V) <= Total(seen, V)
  <2>1. \A d \in V : back[d] \in Int /\ power[d] \in Int /\ back[d] <= power[d]
    BY <1>7
  <2>2. \A d \in V : back[d] \in Int /\ seen[d] \in Int /\ back[d] <= seen[d]
    BY <1>7
  <2> HIDE DEF back, seen, V
  <2> QED BY <1>2, <2>1, <2>2, TotalAtMost
<1>9. /\ flows.other \in Nat /\ flows.other >= Total(Draw, O)
      /\ metered => flows.other >= derived
      /\ flows.generation = Total(Feed, O) /\ Grid = Total(power, Devices) + rest
  BY <1>3, FlowsAre
<1>10. /\ Total(Drawn, U) <= Total(Draw, U) /\ Total(Feed, U) <= Total(Fed, U)
       /\ Total(Drawn, U) \in Nat /\ Total(Draw, U) \in Nat
       /\ Total(Feed, U) \in Nat /\ Total(Fed, U) \in Nat
  <2> HIDE DEF U
  <2> QED BY <1>1, FixedDraw
<1> HIDE DEF U, V, flows, seen, back
<1>11. Total(power, U) = Total(Drawn, U) - Total(Fed, U)
       /\ Total(Feed, O) \in Nat /\ Total(Draw, O) \in Nat
       /\ Total(power, Devices) \in Int /\ Total(power, U) \in Int /\ Total(power, V) \in Int
  BY <1>1, <1>3, Sums
<1>12. CASE metered
  <2>1. /\ Total(Draw, Steuve) = Total(Drawn, Steuve) /\ Total(Feed, Steuve) = Total(Fed, Steuve)
        /\ Total(power, Steuve) = Total(Drawn, Steuve) - Total(Fed, Steuve)
        /\ Total(Drawn, Steuve) \in Nat /\ Total(Fed, Steuve) \in Nat
    BY <1>1, <1>3, Sums
  <2>2. Total(power, Devices) = Total(power, Steuve) + Total(power, O)
    <3>1. \A d \in Devices : power[d] \in Int
      BY <1>3, DeviceIs
    <3> QED BY <1>1, <1>2, <3>1, TotalSplit
  <2>3. Total(power, O) = Total(power, U) + Total(power, V)
    <3>1. \A d \in O : power[d] \in Int
      BY <1>3, DeviceIs
    <3> HIDE DEF O
    <3>2. Total(power, O) = Total(power, U) + Total(power, O \ U)
      BY <1>1, <1>2, <3>1, TotalSplit
    <3> QED BY <1>1, <3>2
  <2>4. flows.other - flows.generation >= Total(power, O) + rest
    <3>1. Total(power, O) \in Int
      BY <1>11, <2>3
    <3>2. flows.other >= Grid - Total(Draw, Steuve) + Total(Feed, O) + Total(Feed, Steuve)
      BY <1>9, <1>12
    <3> HIDE DEF O
    <3> QED BY <1>3, <1>9, <1>11, <2>1, <2>2, <3>1, <3>2
  <2>5. Total(Drawn, U) - Total(Fed, U) + rest - Total(fed, Commandable)
          <= Total(power, O) + rest
    BY <1>3, <1>6, <1>8, <1>10, <1>11, <2>3
  <2>6. Total(power, O) \in Int
    BY <1>11, <2>3
  <2> QED BY <1>3, <1>6, <1>9, <1>10, <1>11, <2>4, <2>5, <2>6 DEF fed, U, flows
<1>13. CASE ~ metered
  <2>1. rest = 0
    BY <1>13 DEF RestIsSeen
  <2>2. Total(Draw, O) = Total(Draw, U) + Total(Draw, V)
        /\ Total(Feed, O) = Total(Feed, U) + Total(Feed, V)
    <3>1. (\A d \in O : Draw[d] \in Int) /\ (\A d \in O : Feed[d] \in Int)
      BY <1>3, SeenIs
    <3> HIDE DEF O
    <3>2. Total(Draw, O) = Total(Draw, U) + Total(Draw, O \ U)
      BY <1>1, <1>2, <3>1, TotalSplit
    <3>3. Total(Feed, O) = Total(Feed, U) + Total(Feed, O \ U)
      BY <1>1, <1>2, <3>1, TotalSplit
    <3> QED BY <1>1, <3>2, <3>3
  <2>3. Total(Draw, V) = Total(seen, V) + Total(Feed, V) /\ Total(seen, V) \in Int
        /\ Total(Draw, V) \in Nat /\ Total(Feed, V) \in Nat
    <3>1. \A d \in V : seen[d] \in Int /\ Feed[d] \in Int /\ Draw[d] = seen[d] + Feed[d]
      BY <1>1, <1>3, SeenIs DEF seen
    <3>2. Total(Draw, V) = Total(seen, V) + Total(Feed, V)
      BY <1>2, <3>1, TotalPlus
    <3>3. Total(seen, V) \in Int
      BY <1>2, <3>1, TotalInt
    <3> QED BY <1>1, <1>3, <3>2, <3>3, Sums
  <2>4. Total(Drawn, U) - Total(Fed, U) + rest - Total(fed, Commandable)
          <= flows.other - flows.generation
    BY <1>6, <1>8, <1>9, <1>10, <1>11, <2>1, <2>2, <2>3
  <2> QED BY <2>4 DEF fed, U, flows
<1> QED BY <1>3, <1>12, <1>13 DEF GuardTypeOK

(* And the connection carries what the house may draw.                     *)
LEMMA TickKeepsConnection ==
  ASSUME HouseInv, NEW w \in Wants, Tick(w), RestIsSeen, RoofsKeepUp, Steuve \subseteq heard
  PROVE  \/ KeptToZero(Devices)'
         \/ (NetIntake(Devices \ (Steuve \ Commandable)) + rest)' <= ImportCeiling
<1> DEFINE S == Devices \ (Steuve \ Commandable)
           U == Devices \ (Steuve \cup Commandable)
           top == Total(Ceilings(envelope'), Commandable)
           net == Flows(w).other - Flows(w).generation
<1>1. /\ S \in SUBSET Devices /\ S \cap Commandable = Commandable /\ S \ Commandable = U
      /\ Devices \in SUBSET Devices /\ Devices \cap Commandable = Commandable
  BY HouseIs
<1>2. GuardTypeOK /\ w \in [Commandable -> Int] /\ rest' = rest /\ rest \in Nat
      /\ ImportCeiling \in Nat
  BY TickIs, GuardAssumption DEF HouseInv, GuardTypeOK
<1>3. Total(Drawn, U) - Total(Fed, U) + rest - Total(Fed', Commandable) <= net
  BY OtherCovers
<1>4. /\ Total(MayDraw', S) \in Nat
      /\ Total(MayDraw', S) <= top + Total(Drawn, U)
      /\ Total(Fed', S) = Total(Fed', Commandable) + Total(Fed, U)
      /\ top \in Nat
      /\ Total(Fed', S) \in Nat /\ Total(Fed', Commandable) \in Nat
      /\ Total(Drawn, U) \in Nat /\ Total(Fed, U) \in Nat
  <2> HIDE DEF S, U
  <2>1. /\ Total(MayDraw', S) \in Nat
        /\ Total(MayDraw', S) <= Total(Ceilings(envelope'), S \cap Commandable)
                                    + Total(Drawn, S \ Commandable)
        /\ Total(Fed', S) = Total(Fed', S \cap Commandable) + Total(Fed, S \ Commandable)
        /\ Total(Ceilings(envelope'), S \cap Commandable) \in Nat
        /\ Total(Fed', S) \in Nat /\ Total(Fed', S \cap Commandable) \in Nat
        /\ Total(Drawn, S \ Commandable) \in Nat /\ Total(Fed, S \ Commandable) \in Nat
    BY <1>1, TickSums
  <2> QED BY <1>1, <2>1
<1>5. top = 0 => KeptToZero(Devices)'
  <2>1. Total(Ceilings(envelope'), Devices \cap Commandable) = 0 => KeptToZero(Devices)'
    BY <1>1, TickSums
  <2> QED BY <1>1, <2>1
<1>6. net \in Int
  BY <1>2, FlowsAre
<1>7. top <= PhysicalHeadroom(ImportCeiling, net)
  BY TickBounds DEF Bounded
<1> HIDE DEF net
<1>8. PhysicalHeadroom(ImportCeiling, net) = IF ImportCeiling >= net THEN ImportCeiling - net ELSE 0
  <2>1. ImportCeiling \in Int
    BY <1>2
  <2> QED BY <1>6, <2>1, HeadroomIs
<1>9. (NetIntake(S) + rest)' = Total(MayDraw', S) - Total(Fed', S) + rest
  BY <1>2 DEF NetIntake
<1> HIDE DEF S, U, top
<1>10. CASE ImportCeiling >= net
  <2>1. (NetIntake(S) + rest)' <= ImportCeiling
    BY <1>2, <1>3, <1>4, <1>6, <1>7, <1>8, <1>9, <1>10
  <2> QED BY <2>1 DEF S
<1>11. CASE ~ (ImportCeiling >= net)
  <2>1. top = 0
    BY <1>4, <1>7, <1>8, <1>11
  <2> QED BY <1>5, <2>1
<1> QED BY <1>10, <1>11

(* split_below and the connection's bound, for every house and every tree  *)
(* of fuses: what the devices behind a fuse may draw until the next tick,  *)
(* less what they feed in, fits it, or all of them are told to draw        *)
(* nothing - of every fuse but one that carries the whole site and as much *)
(* as the connection, which the code leaves to the connection's bound; and *)
(* that bound holds, while the rest of the house is seen, for everything   *)
(* but the par. 14a devices nobody can command, so that what those draw    *)
(* through such a fuse is bounded by nothing here.                         *)
THEOREM FusesAlwaysHold == GuardSpec => FusesHold
<1> DEFINE Held == Ticked =>
        /\ \A i \in DOMAIN Circuits :
             LET below == Circuits[i].below IN
             \/ CarriesTheSite(Circuits[i])
             \/ KeptToZero(below)'
             \/ NetIntake(below)' <= Circuits[i].limit
        /\ RestIsSeen /\ RoofsKeepUp /\ Steuve \subseteq heard
             => \/ KeptToZero(Devices)'
                \/ (NetIntake(Devices \ (Steuve \ Commandable)) + rest)'
                      <= ImportCeiling
<1>1. HouseInv /\ [GuardNext]_guardVars => [Held]_guardVars
  <2>1. ASSUME HouseInv, GuardNext, Ticked PROVE Held
    <3>1. PICK w \in Wants : Tick(w)
      BY <2>1, OnlyTicks
    <3>2. ASSUME NEW i \in DOMAIN Circuits
          PROVE  \/ CarriesTheSite(Circuits[i])
                 \/ KeptToZero(Circuits[i].below)'
                 \/ NetIntake(Circuits[i].below)' <= Circuits[i].limit
      BY <2>1, <3>1, TickKeepsCircuits
    <3>3. ASSUME RestIsSeen, RoofsKeepUp, Steuve \subseteq heard
          PROVE  \/ KeptToZero(Devices)'
                 \/ (NetIntake(Devices \ (Steuve \ Commandable)) + rest)' <= ImportCeiling
      BY <2>1, <3>1, <3>3, TickKeepsConnection
    <3> QED BY <3>2, <3>3
  <2>2. Ticked \/ Held
    OBVIOUS
  <2> HIDE DEF Held
  <2> QED BY <2>1, <2>2
<1>2. GuardSpec => [][Held]_guardVars
  BY <1>1, HouseStays, PTL DEF GuardSpec
<1> QED BY <1>2 DEF FusesHold

-----------------------------------------------------------------------------
(* The operator's limit *)

(* What a store lends, it gives. *)
LEMMA LentIsFed ==
  ASSUME HouseInv, NEW w \in Wants, Tick(w), NoneIsLentTwice,
         NEW lent, Lends(lent, w, envelope')
  PROVE  /\ Total(lent, DOMAIN lent) \in Nat
         /\ Total(lent, DOMAIN lent) <= Total(Fed', Steuve)
<1> DEFINE L == DOMAIN lent
           fed == Fed'
<1>1. /\ lent \in [L -> Nat] /\ L = (Commandable \ Roofs) \cap heard
      /\ L \in SUBSET Commandable /\ L \in SUBSET Devices
      /\ \A d \in L : /\ lent[d] <= Outflow(power[d]) /\ lent[d] <= Outflow(w[d])
                      /\ lent[d] <= Outflow(envelope'[d].floor)
  BY HouseIs DEF Lends
<1>2. /\ IsFiniteSet(L) /\ L \cap Steuve \in SUBSET L /\ L \cap Steuve \in SUBSET Steuve
      /\ L \ (L \cap Steuve) \in SUBSET L /\ IsFiniteSet(Steuve) /\ IsFiniteSet(L \cap Steuve)
      /\ IsFiniteSet(L \ (L \cap Steuve)) /\ Steuve \in SUBSET Devices
  BY <1>1, HouseIs, PartIsFinite
<1>3. GuardTypeOK /\ Rested(envelope') /\ w \in [Commandable -> Int]
  BY TickIs, TickBounds DEF HouseInv
<1>4. ASSUME NEW d \in L \ (L \cap Steuve) PROVE lent[d] = 0
  <2>1. d \in Devices /\ lent[d] \in Nat /\ power[d] >= 0 /\ lent[d] <= Outflow(power[d])
    BY <1>1, <1>2 DEF NoneIsLentTwice
  <2>2. power[d] \in Int
    BY <1>3, <2>1, DeviceIs
  <2>3. Outflow(power[d]) = IF power[d] <= 0 THEN -power[d] ELSE 0
    BY <2>2, FlowIs
  <2> QED BY <2>1, <2>2, <2>3
<1>5. \A d \in Steuve : fed[d] \in Nat
  BY <1>2, AfterTick
<1>6. ASSUME NEW d \in L \cap Steuve PROVE lent[d] <= fed[d]
  <2> DEFINE floor == envelope'[d].floor
             p == w[d]
  <2>1. /\ d \in Devices /\ d \in Commandable /\ d \notin Roofs /\ lent[d] \in Nat
        /\ lent[d] <= Outflow(p) /\ lent[d] <= Outflow(floor)
    BY <1>1
  <2>2. /\ power'[d] \in Int /\ fed[d] \in Nat
        /\ fed[d] = (IF power'[d] <= 0 THEN -power'[d] ELSE 0)
    BY <2>1, AfterTick
  <2>3. floor \in Int /\ p \in Int /\ MayRest(d, envelope'[d])
    BY <1>3, <2>1, RestedIs DEF Rested
  <2>4. Obeys(d, w)
    BY <2>1, TickObeys
  <2>5. d \in Pumps => floor = 0
    <3>1. d \in Pumps => Ratings(d).floor = 0
      BY <2>1, RatingsAre, HouseIs
    <3> QED BY <2>3, <3>1 DEF MayRest
  <2>6. d \notin Pumps \cup Evses /\ p <= 0 => power'[d] <= (IF p >= floor THEN p ELSE floor)
    BY <2>1, <2>4 DEF Obeys
  <2>10. d \in Evses => lent[d] = 0
    <3>1. ASSUME d \in Evses PROVE lent[d] = 0
      <4>1. power[d] \in Int /\ power[d] >= 0 /\ lent[d] <= Outflow(power[d])
        BY <1>1, <2>1, <3>1, StillIs
      <4>2. Outflow(power[d]) = IF power[d] <= 0 THEN -power[d] ELSE 0
        BY <4>1, FlowIs
      <4> QED BY <2>1, <4>1, <4>2
    <3> QED BY <3>1
  <2> HIDE DEF floor, p, fed
  <2>7. /\ Outflow(p) = (IF p <= 0 THEN -p ELSE 0)
        /\ Outflow(floor) = (IF floor <= 0 THEN -floor ELSE 0)
    BY <2>3, FlowIs
  <2>8. CASE lent[d] = 0
    BY <2>2, <2>8
  <2>9. CASE lent[d] > 0
    <3>1. d \notin Pumps \cup Evses /\ p <= 0 /\ p <= -lent[d] /\ floor <= -lent[d]
      BY <2>1, <2>3, <2>5, <2>7, <2>9, <2>10
    <3>2. power'[d] <= -lent[d]
      BY <2>1, <2>2, <2>3, <2>6, <3>1
    <3> QED BY <2>1, <2>2, <3>2
  <2> QED BY <2>1, <2>8, <2>9
<1> HIDE DEF fed, L
<1>7. Total(lent, L) = Total(lent, L \cap Steuve) + Total(lent, L \ (L \cap Steuve))
  <2>1. \A d \in L : lent[d] \in Int
    BY <1>1
  <2> QED BY <1>2, <2>1, TotalSplit
<1>8. Total(lent, L) \in Nat /\ Total(lent, L \cap Steuve) \in Nat
      /\ Total(lent, L \ (L \cap Steuve)) \in Nat
  <2>1. \A d \in L : lent[d] \in Nat
    BY <1>1
  <2> QED BY <1>2, <2>1, TotalNat
<1>9. Total(lent, L \ (L \cap Steuve)) = 0
  <2> DEFINE M == L \ (L \cap Steuve)
  <2>1. \A d \in M : lent[d] \in Int /\ lent[d] * 1 <= lent[d] * 0
    BY <1>4
  <2>2. IsFiniteSet(M) /\ 0 \in Int /\ 1 \in Int
    BY <1>2
  <2> HIDE DEF M
  <2>3. Total(lent, M) * 1 <= Total(lent, M) * 0
    BY <2>1, <2>2, TotalScaled
  <2> QED BY <1>8, <2>3 DEF M
<1>10. Total(lent, L \cap Steuve) <= Total(fed, L \cap Steuve)
  <2>1. \A d \in L \cap Steuve : lent[d] \in Int /\ fed[d] \in Int /\ lent[d] <= fed[d]
    BY <1>1, <1>5, <1>6
  <2> QED BY <1>2, <2>1, TotalAtMost
<1>11. /\ Total(fed, L \cap Steuve) <= Total(fed, Steuve)
       /\ Total(fed, L \cap Steuve) \in Nat /\ Total(fed, Steuve) \in Nat
  BY <1>2, <1>5, TotalNat
<1>12. Total(lent, L) <= Total(fed, Steuve)
  BY <1>7, <1>8, <1>9, <1>10, <1>11
<1> QED BY <1>8, <1>12 DEF L, fed

(* What the guard makes of everything that is not under par. 14a is no less *)
(* than what it draws, but for what it takes silent par. 14a devices to.    *)
LEMMA OtherIsTrue ==
  ASSUME HouseInv, NEW w \in Wants, Tick(w), RestIsSeen, CommandedAreHeard
  PROVE  LET slack == Total(Draw, Steuve \ Commandable) - Total(Drawn, Steuve \ Commandable)
         IN  /\ slack \in Nat /\ Total(power, Devices \ Steuve) \in Int
             /\ Total(power, Devices \ Steuve) + rest + Flows(w).generation
                  <= Flows(w).other + slack
<1> DEFINE O == Devices \ Steuve
           F == Steuve \ Commandable
           A == Steuve \cap Commandable
           flows == Flows(w)
           slack == Total(Draw, F) - Total(Drawn, F)
           derived == Grid - Total(Draw, Steuve) + Total(Feed, Devices \ Steuve)
                          + Total(Feed, Steuve)
           seen == [d \in Devices |-> Draw[d] - Feed[d]]
<1>1. /\ O \in SUBSET Devices /\ F \in SUBSET Devices /\ A \in SUBSET Devices
      /\ F \in SUBSET (Devices \ Commandable) /\ Steuve \in SUBSET Devices
      /\ A \in SUBSET Steuve /\ Steuve \ A = F /\ Devices \in SUBSET Devices
      /\ A \subseteq heard /\ O = Devices \ Steuve
  BY HouseIs DEF CommandedAreHeard
<1>2. IsFiniteSet(O) /\ IsFiniteSet(F) /\ IsFiniteSet(A) /\ IsFiniteSet(Devices) /\ IsFiniteSet(Steuve)
  BY <1>1, PartIsFinite
<1>3. GuardTypeOK /\ w \in [Commandable -> Int] /\ rest \in Nat /\ metered \in BOOLEAN
  BY TickIs DEF HouseInv, GuardTypeOK
<1>4. /\ flows.other \in Nat /\ flows.other >= Total(Draw, O)
      /\ metered => flows.other >= derived
      /\ flows.generation = Total(Feed, O) /\ Grid = Total(power, Devices) + rest
  BY <1>3, FlowsAre
<1>5. slack \in Nat /\ Total(Drawn, F) \in Nat /\ Total(Draw, F) \in Nat
  <2> HIDE DEF F
  <2>1. /\ Total(Drawn, F) <= Total(Draw, F) /\ Total(Drawn, F) \in Nat /\ Total(Draw, F) \in Nat
    BY <1>1, FixedDraw
  <2> QED BY <2>1
<1> HIDE DEF flows, F, A, seen
<1>6. /\ Total(power, O) \in Int /\ Total(power, Devices) \in Int /\ Total(power, Steuve) \in Int
      /\ Total(Draw, O) \in Nat /\ Total(Feed, O) \in Nat
      /\ Total(Draw, A) = Total(Drawn, A) /\ Total(Feed, A) = Total(Fed, A)
      /\ Total(Drawn, A) \in Nat /\ Total(Fed, A) \in Nat
      /\ Total(power, A) = Total(Drawn, A) - Total(Fed, A)
      /\ Total(power, F) = Total(Drawn, F) - Total(Fed, F)
      /\ Total(Fed, F) \in Nat /\ Total(Feed, F) \in Nat
  BY <1>1, <1>3, Sums
<1>7. CASE metered
  <2>1. Total(power, Devices) = Total(power, Steuve) + Total(power, O)
    <3>1. \A d \in Devices : power[d] \in Int
      BY <1>3, DeviceIs
    <3> QED BY <1>1, <1>2, <3>1, TotalSplit
  <2>2. /\ Total(power, Steuve) = Total(power, A) + Total(power, F)
        /\ Total(Draw, Steuve) = Total(Draw, A) + Total(Draw, F)
        /\ Total(Feed, Steuve) = Total(Feed, A) + Total(Feed, F)
    <3>1. \A d \in Steuve : power[d] \in Int
      BY <1>1, <1>3, DeviceIs
    <3>2. (\A d \in Steuve : Draw[d] \in Int) /\ (\A d \in Steuve : Feed[d] \in Int)
      BY <1>1, <1>3, SeenIs
    <3>3. Total(power, Steuve) = Total(power, A) + Total(power, Steuve \ A)
      BY <1>1, <1>2, <3>1, TotalSplit
    <3>4. Total(Draw, Steuve) = Total(Draw, A) + Total(Draw, Steuve \ A)
      BY <1>1, <1>2, <3>2, TotalSplit
    <3>5. Total(Feed, Steuve) = Total(Feed, A) + Total(Feed, Steuve \ A)
      BY <1>1, <1>2, <3>2, TotalSplit
    <3> QED BY <1>1, <3>3, <3>4, <3>5
  <2>3. Total(Fed, F) <= Total(Feed, F)
    <3>1. ASSUME NEW d \in F PROVE Fed[d] \in Int /\ Feed[d] \in Int /\ Fed[d] <= Feed[d]
      <4>1. d \in Devices /\ d \notin Commandable /\ d \notin Roofs
        BY <1>1, HouseIs DEF F
      <4>2. power[d] \in 0 .. Nameplate[d]
        BY <4>1 DEF HouseInv
      <4>3. Fed[d] = (IF power[d] <= 0 THEN -power[d] ELSE 0) /\ Feed[d] \in Nat
        BY <1>3, <4>1, DeviceIs, SeenIs
      <4> QED BY <4>2, <4>3
    <3> QED BY <1>2, <3>1, TotalAtMost
  <2>4. flows.other >= Grid - Total(Draw, Steuve) + Total(Feed, O) + Total(Feed, Steuve)
    BY <1>4, <1>7
  <2> HIDE DEF O
  <2>5. Total(power, O) + rest + flows.generation <= flows.other + slack
    BY <1>3, <1>4, <1>5, <1>6, <2>1, <2>2, <2>3, <2>4
  <2> QED BY <1>5, <1>6, <2>5 DEF flows, F, O
<1>8. CASE ~ metered
  <2>1. rest = 0
    BY <1>8 DEF RestIsSeen
  <2>2. ASSUME NEW d \in O
        PROVE  power[d] \in Int /\ seen[d] \in Int /\ power[d] <= seen[d]
    <3>1. d \in Devices /\ d \notin Steuve
      OBVIOUS
    <3>2. /\ power[d] \in Int /\ Nameplate[d] \in Nat /\ Drawn[d] \in Nat /\ Fed[d] \in Nat
          /\ power[d] = Drawn[d] - Fed[d]
      BY <1>3, <3>1, DeviceIs
    <3>3. /\ Draw[d] \in Nat /\ Feed[d] \in Nat
          /\ (d \in heard => Draw[d] = Drawn[d] /\ Feed[d] = Fed[d])
          /\ (d \notin heard => Feed[d] = 0)
          /\ (d \in Assumed => Draw[d] = Nameplate[d])
      BY <1>3, <3>1, SeenIs
    <3>4. seen[d] = Draw[d] - Feed[d]
      BY <3>1 DEF seen
    <3>5. CASE d \in heard
      BY <3>2, <3>3, <3>4, <3>5
    <3>6. CASE d \notin heard /\ d \in Roofs
      <4>1. power[d] <= 0
        BY <3>6 DEF HouseInv
      <4> QED BY <3>2, <3>3, <3>4, <3>6, <4>1
    <3>7. CASE d \notin heard /\ d \notin Roofs
      <4>1. d \notin Commandable
        BY <3>1, <3>7 DEF CommandedAreHeard
      <4>2. d \in Assumed
        BY <3>1, <3>7, <4>1 DEF Assumed
      <4>3. power[d] \in 0 .. Nameplate[d]
        BY <3>1, <3>7, <4>1 DEF HouseInv
      <4> QED BY <3>2, <3>3, <3>4, <3>7, <4>2, <4>3
    <3> QED BY <3>5, <3>6, <3>7
  <2>3. Total(power, O) <= Total(seen, O) /\ Total(seen, O) \in Int
    <3>1. \A d \in O : seen[d] \in Int
      BY <2>2
    <3> HIDE DEF O
    <3> QED BY <1>2, <2>2, <3>1, TotalAtMost, TotalInt
  <2>4. Total(Draw, O) = Total(seen, O) + Total(Feed, O)
    <3>1. \A d \in O : seen[d] \in Int /\ Feed[d] \in Int /\ Draw[d] = seen[d] + Feed[d]
      BY <1>1, <1>3, SeenIs DEF seen
    <3> HIDE DEF O
    <3> QED BY <1>2, <3>1, TotalPlus
  <2> HIDE DEF O
  <2>5. Total(power, O) + rest + flows.generation <= flows.other + slack
    BY <1>4, <1>5, <1>6, <2>1, <2>3, <2>4
  <2> QED BY <1>5, <1>6, <2>5 DEF flows, F, O
<1> QED BY <1>3, <1>7, <1>8

(* After a tick those under par. 14a draw no more from the grid than the   *)
(* operator allows.                                                        *)
LEMMA TickKeepsTheLimit ==
  ASSUME HouseInv, NEW w \in Wants, Tick(w),
         RestIsSeen, OthersKeepUp, CommandedAreHeard, NoneIsLentTwice
  PROVE  SteuveWithinLimit'
<1>1. GuardTypeOK /\ w \in [Commandable -> Int] /\ rest' = rest /\ rest \in Nat
      /\ limits' = limits
  BY TickIs DEF HouseInv, GuardTypeOK
<1>2. SUFFICES ASSUME limits.steuve # None PROVE SteuveWithinLimit'
  BY <1>1 DEF SteuveWithinLimit
<1> DEFINE flows == Flows(w)
           O == Devices \ Steuve
           F == Steuve \ Commandable
           top == Total(Ceilings(envelope'), Steuve \cap Commandable)
           slack == Total(Draw, F) - Total(Drawn, F)
           fed == Fed'
           drawn == Drawn'
           now == power'
           true == Production' - TrueOther'
<1>3. PICK lent : /\ Lends(lent, w, envelope') /\ top <= SteuveBudget(flows, lent)
  BY <1>2, TickBounds DEF Bounded, SteuveFits
<1> DEFINE lends == Total(lent, DOMAIN lent)
           surplus == flows.generation + lends - flows.other
           budget == limits.steuve + AtLeastZero(surplus) - flows.uncommandable
<1>4. flows.other \in Nat /\ flows.generation \in Nat /\ flows.uncommandable \in Nat
      /\ flows.uncommandable = Total(Draw, F)
  BY <1>1, FlowsAre
<1>5. lends \in Nat /\ limits.steuve \in Nat /\ SteuveBudget(flows, lent) = AtLeastZero(budget)
  <2> HIDE DEF flows
  <2> QED BY <1>1, <1>2, <1>3, <1>4, BudgetIs
<1>6. lends <= Total(fed, Steuve)
  BY <1>3, LentIsFed
<1>7. slack \in Nat /\ Total(power, O) \in Int
      /\ Total(power, O) + rest + flows.generation <= flows.other + slack
  BY OtherIsTrue
<1>8. /\ Total(MayDraw', Steuve) \in Nat /\ top \in Nat
      /\ Total(MayDraw', Steuve) <= top + Total(Drawn, F)
      /\ Total(Drawn, F) \in Nat
      /\ top = 0 => KeptToZero(Steuve)'
  BY HouseIs, TickSums
<1> HIDE DEF lends, flows
<1>9. Total(now, O) <= Total(power, O)
      /\ Total(now, O) = Total(drawn, O) - Total(fed, O)
      /\ Total(drawn, O) \in Nat /\ Total(fed, O) \in Nat /\ Total(fed, Steuve) \in Nat
      /\ Total(fed, Devices) = Total(fed, Steuve) + Total(fed, O)
  <2>1. O \in SUBSET Devices /\ Steuve \in SUBSET Devices /\ IsFiniteSet(O) /\ IsFiniteSet(Devices)
        /\ IsFiniteSet(Steuve) /\ O = Devices \ Steuve
    BY HouseIs, PartIsFinite
  <2>2. ASSUME NEW d \in Devices
        PROVE  /\ now[d] \in Int /\ drawn[d] \in Nat /\ fed[d] \in Nat
               /\ drawn[d] = now[d] + fed[d] /\ power[d] \in Int
    <3>1. now[d] \in Int /\ fed[d] = Outflow(now[d]) /\ drawn[d] = Inflow(now[d])
      BY AfterTick DEF Fed, Drawn
    <3>2. power[d] \in Int
      BY <1>1, DeviceIs
    <3> HIDE DEF now, fed, drawn
    <3>3. /\ Inflow(now[d]) \in Nat /\ Inflow(now[d]) = (IF now[d] >= 0 THEN now[d] ELSE 0)
          /\ Outflow(now[d]) \in Nat /\ Outflow(now[d]) = (IF now[d] <= 0 THEN -now[d] ELSE 0)
      BY <3>1, FlowIs
    <3> QED BY <3>1, <3>2, <3>3
  <2>3. \A d \in O : now[d] <= power[d]
    BY DEF OthersKeepUp
  <2> HIDE DEF O, now, fed, drawn
  <2>4. \A d \in O : now[d] \in Int /\ power[d] \in Int /\ now[d] <= power[d]
    BY <2>1, <2>2, <2>3
  <2>5. Total(now, O) <= Total(power, O)
    BY <2>1, <2>4, TotalAtMost
  <2>6. \A d \in O : now[d] \in Int /\ fed[d] \in Int /\ drawn[d] = now[d] + fed[d]
    BY <2>1, <2>2
  <2>7. Total(drawn, O) = Total(now, O) + Total(fed, O) /\ Total(now, O) \in Int
    BY <2>1, <2>6, TotalPlus, TotalInt
  <2>8. Total(drawn, O) \in Nat /\ Total(fed, O) \in Nat /\ Total(fed, Steuve) \in Nat
    <3>1. (\A d \in O : drawn[d] \in Nat) /\ (\A d \in O : fed[d] \in Nat)
          /\ (\A d \in Steuve : fed[d] \in Nat)
      BY <2>1, <2>2
    <3> QED BY <2>1, <3>1, TotalNat
  <2>9. Total(fed, Devices) = Total(fed, Steuve) + Total(fed, O)
    <3>1. \A d \in Devices : fed[d] \in Int
      BY <2>2
    <3> QED BY <2>1, <3>1, TotalSplit
  <2> QED BY <2>5, <2>7, <2>8, <2>9
<1>10. true = Total(fed, Devices) - rest - Total(drawn, O)
  <2>1. Production' = Total(fed, Devices) /\ TrueOther' = rest + Total(drawn, O)
    BY <1>1 DEF Production, TrueOther
  <2> HIDE DEF O, fed, drawn
  <2> QED BY <1>1, <1>9, <2>1
<1> HIDE DEF O, fed, drawn, now, true
<1>11. surplus \in Int /\ true \in Int /\ surplus <= true + slack
  BY <1>1, <1>4, <1>5, <1>6, <1>7, <1>9, <1>10
<1> HIDE DEF surplus, top
<1>12. /\ AtLeastZero(surplus) \in Nat /\ AtLeastZero(surplus) = (IF surplus >= 0 THEN surplus ELSE 0)
       /\ AtLeastZero(true) \in Nat /\ AtLeastZero(true) = (IF true >= 0 THEN true ELSE 0)
  BY <1>11, AtLeastZeroIs
<1> DEFINE limit == limits.steuve
           silent == flows.uncommandable
           drawing == Total(Drawn, F)
           after == Total(MayDraw', Steuve)
           given == AtLeastZero(surplus)
           spare == AtLeastZero(true)
<1>13. /\ limit \in Nat /\ silent \in Nat /\ drawing \in Nat /\ after \in Nat /\ top \in Nat
       /\ given \in Nat /\ spare \in Nat
       /\ after <= top + drawing /\ top <= AtLeastZero(limit + given - silent)
  BY <1>3, <1>4, <1>5, <1>8, <1>12
<1>14. silent - drawing \in Nat /\ given - (silent - drawing) <= spare
  <2>1. slack = silent - drawing
    BY <1>4
  <2> HIDE DEF silent, drawing, slack
  <2>2. given - slack <= spare
    BY <1>7, <1>11, <1>12
  <2> QED BY <1>7, <2>1, <2>2
<1> HIDE DEF limit, silent, drawing, after, given, spare, slack, budget
<1>15. limit + given - silent \in Int
  BY <1>13
<1>16. AtLeastZero(limit + given - silent)
         = IF limit + given - silent >= 0 THEN limit + given - silent ELSE 0
  BY <1>15, AtLeastZeroIs
<1>17. CASE limit + given - silent <= 0
  <2>1. top = 0
    BY <1>13, <1>15, <1>16, <1>17
  <2> QED BY <1>8, <2>1 DEF SteuveWithinLimit
<1>18. CASE limit + given - silent > 0
  <2>1. after <= limit + spare
    BY <1>13, <1>14, <1>15, <1>16, <1>18
  <2>2. Total(MayDraw', Steuve) <= limits'.steuve + AtLeastZero(Production' - TrueOther')
    BY <1>1, <2>1 DEF true, after, limit, spare
  <2>3. Total(MayDraw, Steuve)' = Total(MayDraw', Steuve)
    OBVIOUS
  <2> QED BY <2>2, <2>3 DEF SteuveWithinLimit
<1> QED BY <1>15, <1>17, <1>18

(* bound_steuve, for every house: what the devices under par. 14a may draw *)
(* is no more than the operator allows and the surplus of the house        *)
(* covers, or all of them that can be turned down are told to draw         *)
(* nothing.                                                                *)
THEOREM TheOperatorsLimitHolds == GuardSpec => OperatorsLimitHolds
<1> DEFINE Held == Ticked /\ RestIsSeen /\ OthersKeepUp /\ CommandedAreHeard /\ NoneIsLentTwice
                     => SteuveWithinLimit'
<1>1. HouseInv /\ [GuardNext]_guardVars => [Held]_guardVars
  BY OnlyTicks, TickKeepsTheLimit
<1>2. GuardSpec => [][Held]_guardVars
  BY <1>1, HouseStays, PTL DEF GuardSpec
<1> QED BY <1>2 DEF OperatorsLimitHolds

-----------------------------------------------------------------------------
(* The conductors after a tick *)

LEMMA TickKeepsTheBalance ==
  ASSUME HouseInv, NEW w \in Wants, Tick(w), NEW d \in Commandable,
         d \in Unsymmetric(mode)', power'[d] > Inflow(power[d]),
         \A e \in Unsymmetric(mode)' \ {d} : e \in heard /\ power'[e] = power[e]
  PROVE  Spread(Conductor[d])' <= UnbalanceLimit
<1> DEFINE modes == mode'
           c == Conductor[d]
           now == power'
           single == Unsymmetric(modes)
           on(b) == Total(now, {e \in single : Conductor[e] = b})
           others(b) == OthersOn(d, modes, b)
           seen(b) == Total(Seen, others(b))
           reach == UnbalanceCeiling(d, modes)
           all == {on(c) - on(b) : b \in 1 .. 3}
<1>1. GuardTypeOK /\ d \in Devices /\ power[d] \in Int /\ UnbalanceLimit \in Nat
  <2>1. GuardTypeOK /\ d \in Devices
    BY HouseIs DEF HouseInv
  <2> QED BY <2>1, DeviceIs, GuardAssumption
<1>2. Unsymmetric(mode)' = single /\ d \in single /\ single \subseteq Devices
  <2>1. Unsymmetric(mode)' = Unsymmetric(modes)
    BY DEF Unsymmetric, ModeOf
  <2> QED BY <2>1, HouseIs DEF Unsymmetric
<1>3. c \in 1 .. 3
  BY <1>1, <1>2, GuardAssumption DEF Unsymmetric
<1>4. Spread(Conductor[d])' = Max(all)
  <2>1. \A b : OnConductor(b)' = on(b)
    BY <1>2 DEF OnConductor
  <2> QED BY <2>1 DEF Spread
<1>5. \A e \in Devices : now[e] \in Int
  BY AfterTick
<1>6. now[d] > 0 /\ now[d] <= reach
  <2>1. Inflow(power[d]) \in Nat
    BY <1>1, FlowIs
  <2>2. now[d] <= envelope'[d].ceiling /\ envelope'[d].ceiling \in Int
    <3>1. envelope'[d].ceiling \in Int
      BY <1>1, TickBounds, RestedIs
    <3> QED BY <3>1, TickObeys DEF Obeys
  <2>3. envelope'[d].ceiling <= reach
    <3>1. d \in Commandable \cap Unsymmetric(mode')
      BY <1>2
    <3> QED BY <3>1, TickBounds
  <2>4. reach \in Nat
    <3> HIDE DEF modes
    <3> QED BY <1>1, <1>2, UnbalanceIs
  <2> HIDE DEF reach, now
  <2>5. now[d] \in Int /\ now[d] > Inflow(power[d])
    BY <1>1, <1>5 DEF now
  <2> QED BY <2>1, <2>2, <2>3, <2>4, <2>5
<1>7. \A e \in single \ {d} : e \in heard /\ now[e] = power[e]
  BY <1>2
<1> HIDE DEF now, modes
<1>8. /\ reach \in Nat
      /\ \A b \in 1 .. 3 : seen(b) \in Int
      /\ \A b \in (1 .. 3) \ {c} : reach <= AtLeastZero(seen(b) + UnbalanceLimit - seen(c))
  BY <1>1, <1>2, UnbalanceIs
<1> HIDE DEF reach
<1>9. ASSUME NEW b \in 1 .. 3
      PROVE  Total(now, others(b)) = seen(b) /\ seen(b) \in Int
  <2>1. others(b) \in SUBSET Devices /\ others(b) \subseteq single \ {d}
    BY <1>2 DEF OthersOn
  <2>2. IsFiniteSet(others(b))
    BY <2>1, PartIsFinite
  <2>3. \A e \in others(b) : now[e] \in Int /\ Seen[e] = now[e]
    <3>1. \A e \in others(b) : e \in Devices /\ e \in heard /\ now[e] = power[e] /\ now[e] \in Int
      BY <1>5, <1>7, <2>1
    <3>2. \A e \in Devices : e \in heard => Seen[e] = power[e]
      BY DEF Seen
    <3> HIDE DEF others
    <3> QED BY <3>1, <3>2
  <2> HIDE DEF others
  <2>4. Total(now, others(b)) = Total(Seen, others(b))
    BY <2>2, <2>3, TotalSame
  <2> QED BY <1>8, <2>4
<1>10. on(c) = now[d] + seen(c)
  <2> DEFINE S == {e \in single : Conductor[e] = c}
  <2>1. S \in SUBSET Devices /\ d \in S /\ S \ {d} = others(c)
    BY <1>2 DEF OthersOn
  <2>2. IsFiniteSet(S) /\ \A e \in S : now[e] \in Int
    BY <1>5, <2>1, PartIsFinite
  <2> HIDE DEF S, others, seen
  <2>3. Total(now, S) = now[d] + Total(now, S \ {d})
    BY <2>1, <2>2, TotalRemove
  <2>4. Total(now, S \ {d}) = seen(c)
    BY <1>3, <1>9, <2>1
  <2> QED BY <2>3, <2>4 DEF S
<1>11. ASSUME NEW b \in (1 .. 3) \ {c} PROVE on(b) = seen(b)
  <2>1. {e \in single : Conductor[e] = b} = others(b)
    BY <1>2 DEF OthersOn
  <2> HIDE DEF others, seen
  <2> QED BY <1>9, <2>1
<1> HIDE DEF on, seen, others
<1>12. ASSUME NEW b \in 1 .. 3 PROVE on(c) - on(b) \in Int /\ on(c) - on(b) <= UnbalanceLimit
  <2>1. seen(b) \in Int /\ seen(c) \in Int /\ now[d] \in Int /\ reach \in Int
    BY <1>1, <1>3, <1>5, <1>8
  <2>2. CASE b = c
    BY <1>1, <1>10, <2>1, <2>2
  <2>3. CASE b # c
    <3> DEFINE p == seen(b) + UnbalanceLimit - seen(c)
    <3>1. p \in Int
      BY <1>1, <2>1
    <3>2. reach <= AtLeastZero(p)
      BY <1>8, <2>3
    <3>3. on(b) = seen(b)
      BY <1>11, <2>3
    <3> HIDE DEF p
    <3>4. AtLeastZero(p) = IF p >= 0 THEN p ELSE 0
      BY <3>1, AtLeastZeroIs
    <3>5. now[d] <= p
      BY <1>6, <2>1, <3>1, <3>2, <3>4
    <3> QED BY <1>1, <1>10, <2>1, <3>3, <3>5 DEF p
  <2> QED BY <2>2, <2>3
<1>13. all = {on(c) - on(1), on(c) - on(2), on(c) - on(3)}
  <2>1. 1 .. 3 = {1, 2, 3}
    OBVIOUS
  <2> QED BY <2>1
<1>14. Max(all) \in all
  <2> DEFINE p == on(c) - on(1)
             q == on(c) - on(2)
             r == on(c) - on(3)
  <2>1. p \in Int /\ q \in Int /\ r \in Int /\ all = {p, q, r}
    BY <1>12, <1>13
  <2> HIDE DEF p, q, r, all
  <2>2. Max({p, q, r}) \in {p, q, r}
    BY <2>1, MaxOfThree
  <2> QED BY <2>1, <2>2
<1>15. \A n \in all : n <= UnbalanceLimit
  BY <1>12
<1> HIDE DEF all
<1> QED BY <1>4, <1>14, <1>15

(* A charge point that goes to three conductors is told what three can     *)
(* carry.                                                                  *)
LEMMA TickGivesThree ==
  ASSUME HouseInv, NEW w \in Wants, Tick(w), NEW d \in Evses,
         mode[d] = "Single", mode'[d] = "Three"
  PROVE  power'[d] >= MinPower(d, "Three")
<1> DEFINE free == Verdict(w)
           least == MinPower(d, "Three")
           asked == IF d \in Commandable THEN w[d] ELSE 0
           e == envelope'[d]
           most == MaxPower(d, "Three")
<1>1. /\ GuardTypeOK /\ w \in [Commandable -> Int] /\ mode[d] \in ModesOf(d)
      /\ mode'[d] \in ModesOf(d) /\ d \in Devices /\ d \notin Roofs \cup Pumps
      /\ PolicyMay(d, "Three", free[d].ceiling, asked)
      /\ envelope' = ApplyModes(free, mode')
  BY TickIs, HouseIs DEF HouseInv, GuardTypeOK
<1>2. d \in Switchable /\ ModeOf(d, mode') = "Three"
  <2>1. ModesOf(d) = {"Single", "Three"}
    <3>1. ModesOf(d) \in {{"Single"}, {"Three"}, {"Single", "Three"}}
      BY ModesAre
    <3> QED BY <1>1, <3>1
  <2> QED BY <2>1, ModesAre DEF ModeOf
<1>3. least \in Nat \ {0} /\ most \in Nat
  BY <1>1, MinPowerIs, MaxPowerIs
<1>4. /\ Rested(free) /\ Rested(envelope')
      /\ MayRest(d, free[d]) /\ MayRest(d, e)
      /\ free[d].ceiling \in Nat /\ e.ceiling \in Nat /\ free[d] \in Envelope
  <2>1. Rested(free) /\ Rested(envelope')
    BY TickBounds
  <2> QED BY <1>1, <2>1, RestedIs DEF Rested
<1>5. asked \in Int
  BY <1>1
<1>6. Inflow(asked) >= least /\ free[d].ceiling >= least
  <2> DEFINE p == Inflow(asked)
             q == Inflow(free[d].ceiling)
  <2>1. p \in Nat /\ q \in Nat /\ q = free[d].ceiling
    <3> HIDE DEF asked
    <3>1. Inflow(asked) \in Nat
      BY <1>5, FlowIs
    <3>2. Inflow(free[d].ceiling) = free[d].ceiling
      <4> HIDE DEF free
      <4> QED BY <1>1, <1>4, RestedIs
    <3> QED BY <1>4, <3>1, <3>2
  <2>2. Min({p, q}) >= least
    BY <1>1 DEF PolicyMay
  <2> HIDE DEF p, q
  <2>3. Min({p, q}) = IF p <= q THEN p ELSE q
    BY <2>1, MinIs
  <2>4. p >= least /\ q >= least
    BY <1>3, <2>1, <2>2, <2>3
  <2> QED BY <2>1, <2>4 DEF p
<1>7. d \in Commandable /\ w[d] \in Int /\ w[d] >= least
  <2>1. Inflow(asked) = IF asked >= 0 THEN asked ELSE 0
    <3> HIDE DEF asked
    <3> QED BY <1>5, FlowIs
  <2>2. asked >= least
    <3> HIDE DEF asked
    <3> QED BY <1>3, <1>5, <1>6, <2>1
  <2>3. d \in Commandable
    BY <1>3, <2>2
  <2> QED BY <1>1, <2>2, <2>3
<1>8. free[d].ceiling <= most
  <2>1. free[d].ceiling <= Best(d) /\ Best(d) \in Int /\ Best(d) <= most
    <3>1. Ratings(d).ceiling = Best(d)
      BY <1>1, RatingsAre
    <3>2. Best(d) \in Nat /\ Best(d) <= most
      BY BestIs
    <3> QED BY <1>4, <3>1, <3>2 DEF MayRest
  <2> QED BY <1>3, <1>4, <2>1
<1>9. e = free[d]
  <2>1. e = Resolve(NarrowUnbalance(d, NarrowByMode(d, free[d], mode'), mode'))
    BY <1>1, TableIs DEF ApplyModes
  <2>2. NarrowByMode(d, free[d], mode') = AtMost(free[d], most)
    BY <1>2 DEF NarrowByMode, ModeOf
  <2> HIDE DEF free, most
  <2>3. AtMost(free[d], most) = free[d]
    <3>1. Min({free[d].ceiling, most}) = free[d].ceiling
      <4>1. Min({free[d].ceiling, most}) = IF free[d].ceiling <= most THEN free[d].ceiling ELSE most
        BY <1>3, <1>4, MinIs
      <4> QED BY <1>8, <4>1
    <3>2. AtMost(free[d], most) = [free[d] EXCEPT !.ceiling = free[d].ceiling]
      BY <3>1 DEF AtMost
    <3> QED BY <1>4, <3>2 DEF Envelope
  <2>4. d \notin Unsymmetric(mode')
    BY <1>2 DEF Unsymmetric
  <2>5. NarrowUnbalance(d, free[d], mode') = free[d]
    BY <2>4 DEF NarrowUnbalance
  <2>6. Resolve(free[d]) = free[d]
    <3>1. free[d].floor \in Int /\ free[d].floor <= 0 /\ 0 <= free[d].ceiling
      BY <1>4 DEF MayRest, Envelope
    <3> QED BY <1>4, <3>1 DEF Resolve
  <2> QED BY <2>1, <2>2, <2>3, <2>5, <2>6
<1>10. power'[d] = Realisable(d, w[d], "Three", e)
  BY <1>1, <1>2, <1>7, TickObeys DEF Obeys, ToldBy
<1>11. e \in Envelope /\ e.floor \in Int /\ e.floor <= 0 /\ 0 <= e.ceiling /\ e.ceiling >= least
       /\ e.ceiling \in Int /\ most >= least
  <2>1. e.ceiling >= least /\ e.ceiling <= most
    BY <1>6, <1>8, <1>9
  <2> HIDE DEF e, least, most
  <2> QED BY <1>3, <1>4, <2>1 DEF MayRest, Envelope
<1>12. Clamp(e, w[d]) \in Int /\ Clamp(e, w[d]) >= least
  <2> DEFINE p == w[d]
             up == Max({p, e.floor})
  <2>1. p \in Int /\ p >= least
    BY <1>7
  <2> HIDE DEF p, e, least
  <2>2. up = IF p >= e.floor THEN p ELSE e.floor
    BY <1>11, <2>1, MaxIs
  <2>3. Clamp(e, p) = Min({up, e.ceiling})
    BY DEF Clamp
  <2> HIDE DEF up
  <2>4. up \in Int /\ up >= least
    BY <1>3, <1>11, <2>1, <2>2
  <2>5. Min({up, e.ceiling}) = IF up <= e.ceiling THEN up ELSE e.ceiling
    BY <1>11, <2>4, MinIs
  <2> QED BY <1>11, <2>3, <2>4, <2>5 DEF p
<1> DEFINE candidate == Min({Clamp(e, w[d]), most, e.ceiling})
<1>13. Realisable(d, w[d], "Three", e) = IF candidate < least THEN 0 ELSE candidate
  BY <1>1, HouseIs DEF Realisable
<1>14. candidate \in {Clamp(e, w[d]), most, e.ceiling}
  <2> DEFINE p == Clamp(e, w[d])
  <2>1. p \in Int /\ most \in Int /\ e.ceiling \in Int
    BY <1>3, <1>11, <1>12
  <2> HIDE DEF p, e, most
  <2>2. Min({p, most, e.ceiling}) \in {p, most, e.ceiling}
    BY <2>1, MinOfThree
  <2> QED BY <2>2 DEF p
<1> HIDE DEF candidate, e, most, least
<1> QED BY <1>3, <1>10, <1>11, <1>12, <1>13, <1>14 DEF least

(* apply_modes after the phase policy, for every wiring: a device on one   *)
(* conductor that alone draws more than before leaves the others within    *)
(* the unbalance limit, and a charge point that goes to three conductors   *)
(* is told what three can carry.                                           *)
THEOREM ConductorsAlwaysHold == GuardSpec => ConductorsHold
<1> DEFINE Held == Ticked =>
        /\ \A d \in Commandable :
             /\ d \in Unsymmetric(mode)' /\ power'[d] > Inflow(power[d])
             /\ \A e \in Unsymmetric(mode)' \ {d} : e \in heard /\ power'[e] = power[e]
             => Spread(Conductor[d])' <= UnbalanceLimit
        /\ \A e \in Evses : mode[e] = "Single" /\ mode'[e] = "Three"
             => power'[e] >= MinPower(e, "Three")
<1>1. HouseInv /\ [GuardNext]_guardVars => [Held]_guardVars
  <2>1. ASSUME HouseInv, GuardNext, Ticked PROVE Held
    <3>1. PICK w \in Wants : Tick(w)
      BY <2>1, OnlyTicks
    <3>2. ASSUME NEW d \in Commandable,
                 d \in Unsymmetric(mode)', power'[d] > Inflow(power[d]),
                 \A e \in Unsymmetric(mode)' \ {d} : e \in heard /\ power'[e] = power[e]
          PROVE  Spread(Conductor[d])' <= UnbalanceLimit
      BY <2>1, <3>1, <3>2, TickKeepsTheBalance
    <3>3. ASSUME NEW e \in Evses, mode[e] = "Single", mode'[e] = "Three"
          PROVE  power'[e] >= MinPower(e, "Three")
      BY <2>1, <3>1, <3>3, TickGivesThree
    <3> QED BY <3>2, <3>3
  <2>2. Ticked \/ Held
    OBVIOUS
  <2> HIDE DEF Held
  <2> QED BY <2>1, <2>2
<1>2. GuardSpec => [][Held]_guardVars
  BY <1>1, HouseStays, PTL DEF GuardSpec
<1> QED BY <1>2 DEF ConductorsHold
=============================================================================
