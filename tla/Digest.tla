------------------------------- MODULE Digest -------------------------------
(***************************************************************************)
(* The daily digest: runDigest and sendDigest of                           *)
(* internal/notifier/admin.go.                                             *)
(*                                                                         *)
(* The loop reads the wall clock, works out the next time the local clock  *)
(* shows the digest hour, and sleeps on a timer that runs on the monotonic *)
(* clock.  The two clocks part when the wall clock is set, or when the     *)
(* machine is suspended; and the local clock jumps when the zone changes   *)
(* its offset from UTC, so that an hour is missing or comes twice.         *)
(*                                                                         *)
(* Time is counted in hours, and a day has HoursPerDay of them.  What the  *)
(* loop does takes far less than one (a digest is given a minute), so time *)
(* stands still meanwhile.  The sends to the chats are those of module     *)
(* Broadcast; here a digest is tried, whatever became of it.               *)
(***************************************************************************)
EXTENDS Integers, Sequences

CONSTANTS
  HoursPerDay,  \* 24
  Hours,        \* the digest hours configured: -1 for none, or an hour of the day
  Zones,        \* the time zones configured: [base, shift, change]
  LastHour,     \* bound: the UTC hour the model ends at
  MaxJumps,     \* bound: times the wall clock jumps
  MaxStops      \* bound: times the process ends

ASSUME DigestAssumption ==
  /\ HoursPerDay \in Nat \ {0}
  /\ Hours \subseteq -1..(HoursPerDay - 1)
  /\ \A z \in Zones : {z.base, z.shift} \subseteq Int /\ z.change \in Nat
  /\ LastHour \in Nat /\ LastHour >= HoursPerDay
  /\ MaxJumps \in Nat /\ MaxStops \in Nat

\* The zones the properties are about: less than a day from Greenwich, with changes of an
\* hour at most, none of which leaves a configured hour out.
Ordinary(z) ==
  /\ z.base < HoursPerDay /\ z.base + z.shift < HoursPerDay
  /\ z.shift \in {-1, 0, 1}
  /\ z.shift = 1 => (z.change + z.base) % HoursPerDay \notin Hours

OrdinaryZones == \A z \in Zones : Ordinary(z)

VARIABLES
  zone,     \* base: offset from UTC, shift: what it grows by at the UTC hour change
  hour,     \* digestHour
  clock,    \* the wall clock, UTC
  mono,     \* the monotonic clock
  phase,    \* the loop: "down", "off", "arm", "wait", "send"
  due,      \* the monotonic time the timer fires at
  drift,    \* observer: how far the wall clock has jumped since the timer was armed
  back,     \* observer: it was set back since the last digest
  tried,    \* observer: the digests, as [day, hour, drift, back]
  excused,  \* observer: days the process was down, or its timer late, at the hour
  jumps,
  stops

vars == <<zone, hour, clock, mono, phase, due, drift, back, tried, excused, jumps, stops>>
-----------------------------------------------------------------------------
(* Local time: Go's time package.  A local time is the number of hours that *)
(* the clock on the wall has shown, as if it had always shown UTC.          *)

After(t) == t >= zone.change

Offset(t) == IF After(t) THEN zone.base + zone.shift ELSE zone.base

Local(t) == t + Offset(t)

Day(t) == Local(t) \div HoursPerDay

HourOfDay(t) == Local(t) % HoursPerDay

\* time.Date: the offset in force at w, read as UTC, unless that leads to a time at
\* which the other one is.  A local time that does not exist is mapped to the hour
\* before or after, one that comes twice to either.
Date(w) ==
  LET t == w - Offset(w) IN IF After(t) = After(w) THEN t ELSE w - Offset(t)

\* next.AddDate(0, 0, 1): the local time of t, a day later.
TomorrowByHours(t) == t + HoursPerDay
Tomorrow(t) == Date(Local(t) + HoursPerDay)

TodayAt(t) == Date(Day(t) * HoursPerDay + hour)

\* Mutation: a time that has come counts as ahead.
NextDigestNow ==
  IF TodayAt(clock) < clock THEN Tomorrow(TodayAt(clock)) ELSE TodayAt(clock)

NextDigest ==
  IF TodayAt(clock) > clock THEN TodayAt(clock) ELSE Tomorrow(TodayAt(clock))
-----------------------------------------------------------------------------
Init ==
  /\ zone \in Zones
  /\ hour \in Hours
  /\ clock = HoursPerDay
  /\ mono = 0
  /\ phase = "down"
  /\ due = 0
  /\ drift = 0
  /\ back = FALSE
  /\ tried = <<>>
  /\ excused = {}
  /\ jumps = 0
  /\ stops = 0

\* Mutation: the hour is not looked at.
StartAlways ==
  /\ phase = "down"
  /\ phase' = "arm"
  /\ UNCHANGED <<zone, hour, clock, mono, due, drift, back, tried, excused, jumps, stops>>

\* runDigest, called when the process starts; without an hour it returns at once.
Start ==
  /\ phase = "down"
  /\ phase' = IF hour < 0 \/ hour > HoursPerDay - 1 THEN "off" ELSE "arm"
  /\ UNCHANGED <<zone, hour, clock, mono, due, drift, back, tried, excused, jumps, stops>>

\* time.NewTimer(time.Until(next)); a time that has gone by fires at once.
Arm ==
  /\ phase = "arm"
  /\ due' = mono + NextDigest - clock
  /\ drift' = 0
  /\ phase' = "wait"
  /\ UNCHANGED <<zone, hour, clock, mono, back, tried, excused, jumps, stops>>

Fire ==
  /\ phase = "wait"
  /\ mono >= due
  /\ phase' = "send"
  /\ UNCHANGED <<zone, hour, clock, mono, due, drift, back, tried, excused, jumps, stops>>

Tried == Append(tried, [day |-> Day(clock), hour |-> HourOfDay(clock), drift |-> drift, back |-> back])

\* Mutation: a digest that fails ends the loop.
SendDigestOrQuit(works) ==
  /\ phase = "send"
  /\ tried' = Tried
  /\ back' = FALSE
  /\ phase' = IF works THEN "arm" ELSE "off"
  /\ UNCHANGED <<zone, hour, clock, mono, due, drift, excused, jumps, stops>>

\* sendDigest: the overview, or the list of chats, may fail, which is logged and makes
\* no difference to the loop.
SendDigest(works) ==
  /\ phase = "send"
  /\ tried' = Tried
  /\ back' = FALSE
  /\ phase' = "arm"
  /\ UNCHANGED <<zone, hour, clock, mono, due, drift, excused, jumps, stops>>

\* The days whose digest is due at one of the times ts.
DueAt(ts) == {d \in 0..(LastHour \div HoursPerDay + 1) : Date(d * HoursPerDay + hour) \in ts}

Late == phase = "down" \/ drift > 0

\* An hour goes by, unless the loop has something to do.
Tick ==
  /\ clock < LastHour
  /\ phase \in {"down", "off"} \/ (phase = "wait" /\ mono < due)
  /\ clock' = clock + 1
  /\ mono' = mono + 1
  /\ excused' = excused \cup (IF Late THEN DueAt({clock'}) ELSE {})
  /\ UNCHANGED <<zone, hour, phase, due, drift, back, tried, jumps, stops>>

\* The wall clock is set forward, or the machine was suspended, for n hours.
JumpForward(n) ==
  /\ jumps < MaxJumps
  /\ clock + n <= LastHour
  /\ jumps' = jumps + 1
  /\ clock' = clock + n
  /\ drift' = drift + n
  /\ excused' = excused \cup DueAt(clock..clock')
  /\ UNCHANGED <<zone, hour, mono, phase, due, back, tried, stops>>

\* The wall clock is set back.
JumpBack(n) ==
  /\ jumps < MaxJumps
  /\ clock - n >= HoursPerDay
  /\ jumps' = jumps + 1
  /\ clock' = clock - n
  /\ drift' = drift - n
  /\ back' = TRUE
  /\ UNCHANGED <<zone, hour, mono, phase, due, tried, excused, stops>>

\* The process ends, by a signal or otherwise, and with it the timer.
Stop ==
  /\ phase # "down"
  /\ stops < MaxStops
  /\ stops' = stops + 1
  /\ phase' = "down"
  /\ excused' = excused \cup DueAt({clock})
  /\ UNCHANGED <<zone, hour, clock, mono, due, drift, back, tried, jumps>>

Next ==
  \/ Start
  \/ Arm
  \/ Fire
  \/ \E works \in BOOLEAN : SendDigest(works)
  \/ Tick
  \/ \E n \in 1..HoursPerDay : JumpForward(n) \/ JumpBack(n)
  \/ Stop

Spec == Init /\ [][Next]_vars
-----------------------------------------------------------------------------
TypeOK ==
  /\ zone \in Zones /\ hour \in Hours
  /\ clock \in HoursPerDay..LastHour
  /\ mono \in 0..(LastHour + HoursPerDay * MaxJumps)
  /\ phase \in {"down", "off", "arm", "wait", "send"}
  /\ hour = -1 => phase \in {"down", "off"}
  /\ phase = "wait" => due - mono <= 2 * HoursPerDay
  /\ jumps \in 0..MaxJumps /\ stops \in 0..MaxStops

\* No day gets two digests, over restarts within the hour, failures and changes of the
\* offset, unless the clock was set back between them, to see the hour come again,
\* or the first was sent by a timer that the clock had jumped away from.
OncePerDay ==
  \A i \in 2..Len(tried) :
    tried[i].day = tried[i - 1].day => tried[i].back \/ tried[i - 1].drift # 0

\* A day is over with its digest tried, unless the process was down, or its timer
\* late for a clock that had jumped, when the hour came.
EveryDay ==
  (hour # -1 /\ phase # "down") =>
    \A d \in 2..(Day(clock) - 1) :
      d \in excused \/ (\E i \in 1..Len(tried) : tried[i].day = d)

\* A timer that no jump of the clock disturbed fires at the digest hour, as the clock
\* on the wall shows it, also on the day after the offset changed.
OnTime == \A i \in 1..Len(tried) : tried[i].drift = 0 => tried[i].hour = hour
=============================================================================
