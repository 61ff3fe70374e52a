------------------------------ MODULE Evidence ------------------------------
(***************************************************************************)
(* The record of a reduction, as the control loop builds it tick by tick:  *)
(*                                                                         *)
(*   hems-grid evidence.rs      EvidenceRecorder::observe                  *)
(*   hemsd runtime/control.rs   record, at the end of a tick               *)
(*   hemsd store.rs             put_control_event and prune                *)
(*                                                                         *)
(* A tick sees the ceiling in force, what the controllable devices draw,   *)
(* and whether the arbiter decided any setpoint.  Whether a driver took    *)
(* the setpoint is known to deliver alone, and is nothing to the record.   *)
(***************************************************************************)
EXTENDS Integers, FiniteSets, SequencesExt

CONSTANTS Level,        \* ceilings, and what can be drawn
          NoEvent,      \* the recorder has nothing open
          NoEffect,     \* a reduction nothing has been done about yet
          LastTime,     \* bound: the last instant of the run
          Stride,       \* the longest a tick may come after the one before
          SampleEvery,  \* the recorder's sample_every
          Keep,         \* RETENTION
          MaxSteps      \* bound: how often the box's clock is set back

Times == 0 .. LastTime
Never == -1

ASSUME EvidenceAssumption ==
  /\ Level \subseteq Nat /\ LastTime \in Nat
  /\ Stride \in Nat \ {0} /\ SampleEvery \in Nat \ {0} /\ Keep \in Nat \ {0}
  /\ MaxSteps \in Nat

Effect == [at : Times, acted : {"commanded", "already_below"}]
ControlEvent == [received_at : Times, released_at : Times \cup {Never},
                 effect : Effect \cup {NoEffect},
                 ceilings : Seq(Level), samples : Seq(Times)]

ASSUME NoValueAssumption == NoEvent \notin ControlEvent /\ NoEffect \notin Effect

VARIABLES
  clock,       \* the instant of the last tick
  open,        \* the recorder's open event
  lastSample,  \* the recorder's last_sample
  events,      \* EVENTS: two rows alike in everything count as one
  past,        \* history: the ticks of the reduction in force, as they were
  steps        \* how often the clock was set back

vars == <<clock, open, lastSample, events, past, steps>>

Init == /\ clock = 0
        /\ open = NoEvent
        /\ lastSample = Never
        /\ events = {}
        /\ past = << >>
        /\ steps = 0
-----------------------------------------------------------------------------
(* Mutant: opened at the tick before. *)
ReceivedBefore(ceiling, now) ==
  [received_at |-> clock, released_at |-> Never, effect |-> NoEffect,
   ceilings |-> <<ceiling>>, samples |-> << >>]

(* ControlEvent::received *)
Received(ceiling, now) ==
  [received_at |-> now, released_at |-> Never, effect |-> NoEffect,
   ceilings |-> <<ceiling>>, samples |-> << >>]

(* Mutant: a house exactly at the ceiling is not inside it. *)
EffectOfStrictly(netzwirksam, ceiling, applied, now) ==
  IF applied THEN [at |-> now, acted |-> "commanded"]
  ELSE IF netzwirksam < ceiling THEN [at |-> now, acted |-> "already_below"]
  ELSE NoEffect

(* Commanded where any setpoint was decided, else already below. *)
EffectOf(netzwirksam, ceiling, applied, now) ==
  IF applied THEN [at |-> now, acted |-> "commanded"]
  ELSE IF netzwirksam <= ceiling THEN [at |-> now, acted |-> "already_below"]
  ELSE NoEffect

(* A record that is only being opened has no sample yet. *)
LastSampled == IF open = NoEvent THEN Never ELSE lastSample

(* Mutant: a record without a sample is not due one. *)
SampleDueAgain(last, now) == last # Never /\ now - last >= SampleEvery

SampleDue(last, now) == last = Never \/ now - last >= SampleEvery

(* A ceiling other than the last is told. *)
Told(ceilings, ceiling) ==
  IF Last(ceilings) = ceiling THEN ceilings ELSE Append(ceilings, ceiling)

(* The clock moves on by at most Stride, or is set back. *)
Strikes(now) == \/ now \in clock + 1 .. clock + Stride /\ steps' = steps
                \/ now <= clock /\ steps < MaxSteps /\ steps' = steps + 1

(* A tick under a ceiling: the record is opened if none is, the effect is  *)
(* stamped once, a ceiling that changed is told, and a sample is kept if   *)
(* one is due.  A sample's instant stands for it.                          *)
Watch(now, ceiling, netzwirksam, applied) ==
  LET event == IF open = NoEvent THEN Received(ceiling, now) ELSE open
      due   == SampleDue(LastSampled, now)
  IN
  /\ Strikes(now)
  /\ clock' = now
  /\ open' = [received_at |-> event.received_at, released_at |-> Never,
               effect   |-> IF event.effect # NoEffect THEN event.effect
                            ELSE EffectOf(netzwirksam, ceiling, applied, now),
               ceilings |-> Told(event.ceilings, ceiling),
               samples  |-> IF due THEN Append(event.samples, now) ELSE event.samples]
  /\ lastSample' = IF due THEN now ELSE LastSampled
  /\ past' = Append(past, [at |-> now, ceiling |-> ceiling,
                           effective |-> applied \/ netzwirksam <= ceiling])
  /\ UNCHANGED events

(* put_control_event: a row of its own. *)
PutControlEvent(event) == events \cup {event}

Expired(event, now) == event.released_at + Keep <= now

(* A tick without a ceiling, with a record open: it is closed, taken from  *)
(* the recorder and written, and what the retention releases goes.  A row  *)
(* the store refuses is not offered again.                                 *)
Close(now, stored) ==
  LET closed == [open EXCEPT !.released_at = now]
      held   == IF stored THEN PutControlEvent(closed) ELSE events
  IN
  /\ open # NoEvent
  /\ Strikes(now)
  /\ clock' = now
  /\ open' = NoEvent
  /\ events' = {event \in held : ~Expired(event, now)}
  /\ past' = << >>
  /\ UNCHANGED lastSample

(* A tick without a ceiling, and nothing to close. *)
Quiet(now) == /\ open = NoEvent
              /\ Strikes(now)
              /\ clock' = now
              /\ UNCHANGED <<open, lastSample, events, past>>

(* The power is cut: what the recorder held is gone. *)
PowerCut == /\ open' = NoEvent
            /\ lastSample' = Never
            /\ past' = << >>
            /\ UNCHANGED <<clock, events, steps>>
-----------------------------------------------------------------------------
Next == \/ \E now \in Times, ceiling, netzwirksam \in Level, applied \in BOOLEAN :
             Watch(now, ceiling, netzwirksam, applied)
        \/ \E now \in Times, stored \in BOOLEAN : Close(now, stored)
        \/ \E now \in Times : Quiet(now)
        \/ PowerCut

Spec == Init /\ [][Next]_vars
-----------------------------------------------------------------------------
TickSeen == [at : Times, ceiling : Level, effective : BOOLEAN]

TypeOK == /\ clock \in Times
          /\ open \in ControlEvent \cup {NoEvent}
          /\ lastSample \in Times \cup {Never}
          /\ events \subseteq ControlEvent
          /\ past \in Seq(TickSeen)
          /\ steps \in 0 .. MaxSteps

(* How often the ceiling has changed up to the n-th tick, the first time   *)
(* being when it came into force.                                          *)
Changes(ticks, n) ==
  Cardinality({m \in 1 .. n : m = 1 \/ ticks[m].ceiling # ticks[m - 1].ceiling})

(* Every ceiling that was in force is told once, in the order they came.   *)
CeilingsAreTold ==
  open # NoEvent =>
    /\ Len(open.ceilings) = Changes(past, Len(past))
    /\ \A n \in DOMAIN past : open.ceilings[Changes(past, n)] = past[n].ceiling

(* The record says the reduction took effect at the first tick on which a  *)
(* setpoint was decided or the house was inside the ceiling, and that it   *)
(* did not where there was no such tick.                                   *)
EffectIsTheFirst ==
  open # NoEvent =>
    IF \E n \in DOMAIN past : past[n].effective
    THEN \E n \in DOMAIN past :
           /\ past[n].effective /\ \A m \in 1 .. n - 1 : ~past[m].effective
           /\ open.effect # NoEffect /\ open.effect.at = past[n].at
    ELSE open.effect = NoEffect

(* The record of a reduction says what happened, however long it lasts and *)
(* whatever the ceiling does in between.                                   *)
RecordIsTrue == CeilingsAreTold /\ EffectIsTheFirst

(* The trace of a record has no gap in it: it begins with the reduction,   *)
(* its samples are as far apart as the sampling interval and the ticks     *)
(* make them, and it goes on to the end.                                   *)
Gapless(event, end) ==
  LET samples == event.samples
  IN  /\ samples # << >> /\ samples[1] = event.received_at
      /\ \A n \in 1 .. Len(samples) - 1 :
           samples[n + 1] - samples[n] \in SampleEvery .. SampleEvery + Stride - 1
      /\ end - Last(samples) < SampleEvery + Stride

(* In every record that was written and in the one still open, while the   *)
(* clock only runs on.                                                     *)
TraceIsGapless ==
  steps = 0 =>
    /\ \A event \in events : Gapless(event, event.released_at)
    /\ open # NoEvent => Gapless(open, clock)

(* No two records claim the same instant, while the clock only runs on:    *)
(* a reduction that ends and one that begins at the next tick are two.     *)
RecordsDoNotOverlap ==
  steps = 0 =>
    /\ \A e, f \in events : e # f =>
         e.released_at < f.received_at \/ f.released_at < e.received_at
    /\ open # NoEvent => \A e \in events : e.released_at < open.received_at
=============================================================================
