---------------------------- MODULE DigestProofs ----------------------------
(***************************************************************************)
(* Proofs about Digest, for days of any length, any set of zones that are  *)
(* ordinary, any digest hours and any number of jumps and stops.           *)
(*                                                                         *)
(* The argument: the time a timer was armed for is clock + due - mono -    *)
(* drift until it has fired, whatever the clocks do meanwhile, and that    *)
(* time is the first digest time after the one it was armed at.            *)
(***************************************************************************)
EXTENDS Digest, TLAPS

\* The local time of the digest of day d, and the UTC time it is given.
Shown(d) == d * HoursPerDay + hour
DigestTime(d) == Date(Shown(d))

\* The wall-clock time the timer was armed for.
Target == clock + due - mono - drift

Armed == phase \in {"wait", "send"}

Last == tried[Len(tried)]

Days == 2..(LastHour \div HoursPerDay + 1)

Covered(d) == d \in excused \/ \E i \in 1..Len(tried) : tried[i].day = d

Types ==
  /\ zone \in Zones /\ hour \in Hours
  /\ clock \in HoursPerDay..LastHour
  /\ mono \in Nat /\ mono <= clock + HoursPerDay * jumps
  /\ phase \in {"down", "off", "arm", "wait", "send"}
  /\ due \in Int /\ drift \in Int /\ back \in BOOLEAN
  /\ tried \in Seq([day : Int, hour : Int, drift : Int, back : BOOLEAN])
  /\ jumps \in 0..MaxJumps /\ stops \in 0..MaxStops

\* The loop runs if and only if there is an hour.
Loops ==
  /\ hour = -1 => phase \in {"down", "off"} /\ tried = <<>>
  /\ hour # -1 => phase # "off"

\* The timer runs down to zero from two days or less, it is armed for a digest time, and the
\* clock lags behind that time only if it was set back.
Timer ==
  /\ phase = "wait" => mono <= due /\ due - mono <= 2 * HoursPerDay
  /\ phase = "send" => mono = due
  /\ Armed => Target = DigestTime(Day(Target))
  /\ Armed /\ ~ back => drift >= 0

\* The last digest, sent at its hour, lies behind the clock, and the timer ahead of it.
Behind ==
  Len(tried) > 0 /\ Last.drift = 0 /\ ~ back =>
    /\ clock >= DigestTime(Last.day)
    /\ Armed => Day(Target) > Last.day

\* A digest time that has come is covered, or it is now, and so is the timer's; one that
\* comes before the timer's is covered.
Coverage ==
  hour # -1 => \A d \in Days :
    /\ DigestTime(d) <= clock =>
         Covered(d) \/ (Armed /\ DigestTime(d) = clock /\ mono = due /\ drift = 0)
    /\ Armed /\ DigestTime(d) < Target => Covered(d)

IInv == Types /\ Loops /\ Timer /\ Behind /\ Coverage /\ OncePerDay /\ OnTime
-----------------------------------------------------------------------------
(* Arithmetic of days and hours. *)

\* A greater number of days is no fewer hours.
LEMMA MoreDays ==
  ASSUME NEW d \in Int, NEW e \in Int, d <= e
  PROVE  d * HoursPerDay <= e * HoursPerDay
<1>1. HoursPerDay \in Nat /\ HoursPerDay >= 1
  BY DigestAssumption
<1>2. (e - d) * HoursPerDay >= 0
  BY <1>1
<1>3. (e - d) * HoursPerDay = e * HoursPerDay - d * HoursPerDay
  BY <1>1
<1> QED
  BY <1>1, <1>2, <1>3

\* A day more is HoursPerDay hours more.
LEMMA NextDay ==
  ASSUME NEW d \in Int
  PROVE  (d + 1) * HoursPerDay = d * HoursPerDay + HoursPerDay
BY DigestAssumption

\* A number of hours is that of its days and a rest shorter than a day.
LEMMA DayAndHour ==
  ASSUME NEW a \in Int
  PROVE  /\ a \div HoursPerDay \in Int
         /\ a % HoursPerDay \in 0..(HoursPerDay - 1)
         /\ a = (a \div HoursPerDay) * HoursPerDay + (a % HoursPerDay)
BY DigestAssumption

\* Days and rest are unique.
LEMMA DayUnique ==
  ASSUME NEW d \in Int, NEW h \in 0..(HoursPerDay - 1)
  PROVE  /\ (d * HoursPerDay + h) \div HoursPerDay = d
         /\ (d * HoursPerDay + h) % HoursPerDay = h
<1> DEFINE a == d * HoursPerDay + h
           q == a \div HoursPerDay
<1>1. HoursPerDay \in Nat /\ HoursPerDay >= 1 /\ h \in Int
  BY DigestAssumption
<1>2. d * HoursPerDay \in Int /\ a \in Int
  BY <1>1
<1>3. q \in Int /\ a % HoursPerDay \in 0..(HoursPerDay - 1)
      /\ a = q * HoursPerDay + (a % HoursPerDay)
  BY <1>2, DayAndHour
<1>4. q * HoursPerDay \in Int
  BY <1>1, <1>3
<1>5. ~ q + 1 <= d
  <2>1. SUFFICES ASSUME q + 1 <= d PROVE FALSE
    OBVIOUS
  <2>2. q * HoursPerDay + HoursPerDay <= d * HoursPerDay
    BY <1>3, <2>1, MoreDays, NextDay
  <2> QED BY <1>1, <1>2, <1>3, <1>4, <2>2
<1>6. ~ d + 1 <= q
  <2>1. SUFFICES ASSUME d + 1 <= q PROVE FALSE
    OBVIOUS
  <2>2. d * HoursPerDay + HoursPerDay <= q * HoursPerDay
    BY <1>3, <2>1, MoreDays, NextDay
  <2> QED BY <1>1, <1>2, <1>3, <1>4, <2>2
<1>7. q = d
  BY <1>3, <1>5, <1>6
<1>8. a % HoursPerDay = h
  BY <1>1, <1>2, <1>3, <1>7
<1> QED
  BY <1>7, <1>8
-----------------------------------------------------------------------------
(* The local clock in an ordinary zone. *)

\* The offset and what a change makes of it.
LEMMA ZoneFacts ==
  ASSUME OrdinaryZones, zone \in Zones
  PROVE  /\ zone.base \in Int /\ zone.change \in Nat /\ zone.shift \in {-1, 0, 1}
         /\ zone.base < HoursPerDay /\ zone.base + zone.shift < HoursPerDay
BY DigestAssumption DEF OrdinaryZones, Ordinary

\* The local clock shows whole hours, and a change sets it back by no more than the hour
\* that goes by.
LEMMA LocalOrder ==
  ASSUME OrdinaryZones, zone \in Zones, NEW t \in Int, NEW u \in Int, t <= u
  PROVE  /\ Local(t) \in Int /\ Local(u) \in Int
         /\ Local(t) <= Local(u)
         /\ u - t <= Local(u) - Local(t) + 1
         /\ Local(t) < t + HoursPerDay
BY ZoneFacts, DigestAssumption DEF Local, Offset, After

\* time.Date returns the time a local clock shows, unless the clock leaves it out.
LEMMA DateShows ==
  ASSUME OrdinaryZones, zone \in Zones, NEW w \in Int,
         zone.shift = 1 => w # zone.change + zone.base
  PROVE  Date(w) \in Int /\ Local(Date(w)) = w
<1>1. /\ zone.base \in Int /\ zone.change \in Int
      /\ zone.shift \in Int
      /\ zone.shift = -1 \/ zone.shift = 0 \/ zone.shift = 1
  BY ZoneFacts
<1>2. CASE w >= zone.change
  BY <1>1, <1>2 DEF Date, Local, Offset, After
<1>3. CASE ~ (w >= zone.change)
  BY <1>1, <1>3 DEF Date, Local, Offset, After
<1> QED
  BY <1>2, <1>3

\* The digest of a day is given on that day, at the digest hour.
LEMMA DigestShown ==
  ASSUME OrdinaryZones, zone \in Zones, hour \in Hours, hour # -1, NEW d \in Int
  PROVE  /\ DigestTime(d) \in Int /\ Local(DigestTime(d)) = Shown(d) /\ Shown(d) \in Int
         /\ Day(DigestTime(d)) = d /\ HourOfDay(DigestTime(d)) = hour
<1>1. HoursPerDay \in Int /\ hour \in 0..(HoursPerDay - 1) /\ hour \in Int
  BY DigestAssumption
<1>2. Shown(d) \in Int
  BY <1>1 DEF Shown
<1>3. Shown(d) % HoursPerDay = hour /\ Shown(d) \div HoursPerDay = d
  BY <1>1, DayUnique DEF Shown
<1>4. zone.shift = 1 => Shown(d) # zone.change + zone.base
  BY <1>3 DEF OrdinaryZones, Ordinary
<1>5. DigestTime(d) \in Int /\ Local(DigestTime(d)) = Shown(d)
  BY <1>2, <1>4, DateShows DEF DigestTime
<1> QED
  BY <1>2, <1>3, <1>5 DEF Day, HourOfDay

\* The day of a time, and what is left of it.
LEMMA DayOfTime ==
  ASSUME NEW t, Local(t) \in Int
  PROVE  /\ Day(t) \in Int /\ Day(t) * HoursPerDay \in Int
         /\ Local(t) % HoursPerDay \in 0..(HoursPerDay - 1)
         /\ Local(t) = Day(t) * HoursPerDay + (Local(t) % HoursPerDay)
<1>1. HoursPerDay \in Int
  BY DigestAssumption
<1>2. /\ Day(t) \in Int
      /\ Local(t) % HoursPerDay \in 0..(HoursPerDay - 1)
      /\ Local(t) = Day(t) * HoursPerDay + (Local(t) % HoursPerDay)
  BY DayAndHour DEF Day
<1> QED
  BY <1>1, <1>2

\* A digest lies before any time of a later day, and after any time of an earlier one.
LEMMA DigestOnItsDay ==
  ASSUME OrdinaryZones, zone \in Zones, hour \in Hours, hour # -1,
         NEW d \in Int, NEW t \in Int
  PROVE  /\ Day(t) \in Int
         /\ d < Day(t) => DigestTime(d) < t
         /\ Day(t) < d => t < DigestTime(d)
<1>1. HoursPerDay \in Int /\ hour \in 0..(HoursPerDay - 1) /\ hour \in Int
  BY DigestAssumption
<1>2. /\ DigestTime(d) \in Int
      /\ Local(DigestTime(d)) = d * HoursPerDay + hour /\ d * HoursPerDay \in Int
  BY <1>1, DigestShown DEF Shown
<1>3. Local(t) \in Int
  BY LocalOrder
<1>4. /\ Day(t) \in Int /\ Day(t) * HoursPerDay \in Int
      /\ Local(t) % HoursPerDay \in 0..(HoursPerDay - 1)
      /\ Local(t) = Day(t) * HoursPerDay + (Local(t) % HoursPerDay)
  BY <1>1, <1>3, DayOfTime
<1>5. ASSUME d < Day(t) PROVE DigestTime(d) < t
  <2>1. d * HoursPerDay + HoursPerDay <= Day(t) * HoursPerDay
    <3>1. d + 1 \in Int /\ d + 1 <= Day(t)
      BY <1>4, <1>5
    <3> QED BY <1>4, <3>1, MoreDays, NextDay
  <2>2. Local(DigestTime(d)) < Local(t)
    BY <1>1, <1>2, <1>4, <2>1
  <2>3. SUFFICES ASSUME t <= DigestTime(d) PROVE FALSE
    BY <1>2
  <2> QED BY <1>2, <1>3, <2>2, <2>3, LocalOrder
<1>6. ASSUME Day(t) < d PROVE t < DigestTime(d)
  <2>1. Day(t) * HoursPerDay + HoursPerDay <= d * HoursPerDay
    <3>1. Day(t) + 1 \in Int /\ Day(t) + 1 <= d
      BY <1>4, <1>6
    <3> QED BY <1>4, <3>1, MoreDays, NextDay
  <2>2. Local(t) < Local(DigestTime(d))
    BY <1>1, <1>2, <1>4, <2>1
  <2>3. SUFFICES ASSUME DigestTime(d) <= t PROVE FALSE
    BY <1>2
  <2> QED BY <1>2, <1>3, <2>2, <2>3, LocalOrder
<1> QED
  BY <1>4, <1>5, <1>6

\* The digests come in the order of their days.
LEMMA DigestOrder ==
  ASSUME OrdinaryZones, zone \in Zones, hour \in Hours, hour # -1,
         NEW d \in Int, NEW e \in Int
  PROVE  DigestTime(d) < DigestTime(e) <=> d < e
<1>1. /\ DigestTime(d) \in Int /\ Day(DigestTime(d)) = d
      /\ DigestTime(e) \in Int /\ Day(DigestTime(e)) = e
  BY DigestShown
<1>2. d < e => DigestTime(d) < DigestTime(e)
  BY <1>1, DigestOnItsDay
<1>3. e < d => DigestTime(e) < DigestTime(d)
  BY <1>1, DigestOnItsDay
<1> QED
  BY <1>1, <1>2, <1>3

\* The days are in the order of the times.
LEMMA DayOrder ==
  ASSUME OrdinaryZones, zone \in Zones, NEW t \in Int, NEW u \in Int, t <= u
  PROVE  Day(t) \in Int /\ Day(u) \in Int /\ Day(t) <= Day(u)
<1>1. Local(t) \in Int /\ Local(u) \in Int /\ Local(t) <= Local(u)
  BY LocalOrder
<1>2. /\ Day(t) \in Int /\ Day(t) * HoursPerDay \in Int
      /\ Day(t) * HoursPerDay <= Local(t)
      /\ Day(u) \in Int /\ Day(u) * HoursPerDay \in Int
      /\ Local(u) < Day(u) * HoursPerDay + HoursPerDay
  BY <1>1, DayOfTime, DigestAssumption
<1>3. SUFFICES ASSUME Day(u) + 1 <= Day(t) PROVE FALSE
  BY <1>2
<1>4. Day(u) * HoursPerDay + HoursPerDay <= Day(t) * HoursPerDay
  BY <1>2, <1>3, MoreDays, NextDay
<1> QED
  BY <1>1, <1>2, <1>4, DigestAssumption

\* runDigest's next is the first digest after now, and no more than two days ahead.
LEMMA NextIsNext ==
  ASSUME OrdinaryZones, zone \in Zones, hour \in Hours, hour # -1, clock \in Int
  PROVE  /\ NextDigest \in Int /\ clock < NextDigest
         /\ NextDigest - clock <= 2 * HoursPerDay
         /\ NextDigest = DigestTime(Day(NextDigest))
         /\ \A d \in Int : DigestTime(d) < NextDigest => DigestTime(d) <= clock
<1> DEFINE c == Day(clock)
<1>1. /\ HoursPerDay \in Int /\ hour \in 0..(HoursPerDay - 1) /\ hour \in Int
      /\ c \in Int /\ c + 1 \in Int
  BY DayOrder, DigestAssumption
<1>2. TodayAt(clock) = DigestTime(c)
  BY DEF TodayAt, DigestTime, Shown
<1>3. Tomorrow(TodayAt(clock)) = DigestTime(c + 1)
  <2>1. Local(DigestTime(c)) = c * HoursPerDay + hour /\ c * HoursPerDay \in Int
    BY <1>1, DigestShown DEF Shown
  <2>2. Local(DigestTime(c)) + HoursPerDay = Shown(c + 1)
    BY <1>1, <2>1, NextDay DEF Shown
  <2> QED BY <1>2, <2>2 DEF Tomorrow, DigestTime
<1>4. NextDigest = IF DigestTime(c) > clock THEN DigestTime(c) ELSE DigestTime(c + 1)
  BY <1>2, <1>3 DEF NextDigest
<1>5. /\ DigestTime(c) \in Int /\ Day(DigestTime(c)) = c
      /\ DigestTime(c + 1) \in Int /\ Day(DigestTime(c + 1)) = c + 1
      /\ clock < DigestTime(c + 1)
  BY <1>1, DigestShown, DigestOnItsDay
<1>6. NextDigest \in Int /\ clock < NextDigest
  BY <1>4, <1>5
<1>7. NextDigest = DigestTime(Day(NextDigest))
  BY <1>4, <1>5
<1>8. NextDigest - clock <= 2 * HoursPerDay
  <2>1. NextDigest <= DigestTime(c + 1)
    BY <1>1, <1>4, <1>5, DigestOrder
  <2>2. Local(DigestTime(c + 1)) = c * HoursPerDay + HoursPerDay + hour
    BY <1>1, DigestShown, NextDay DEF Shown
  <2>3. /\ Local(clock) \in Int /\ c * HoursPerDay \in Int /\ c * HoursPerDay <= Local(clock)
        /\ DigestTime(c + 1) - clock <= Local(DigestTime(c + 1)) - Local(clock) + 1
    <3>1. Local(clock) \in Int
      BY LocalOrder
    <3>2. c * HoursPerDay \in Int /\ c * HoursPerDay <= Local(clock)
      BY <1>1, <3>1, DayOfTime
    <3> QED BY <1>5, <3>1, <3>2, LocalOrder
  <2> QED BY <1>1, <1>5, <1>6, <2>1, <2>2, <2>3
<1>9. ASSUME NEW d \in Int, DigestTime(d) < NextDigest
      PROVE  DigestTime(d) <= clock
  <2>1. DigestTime(d) \in Int
    BY DigestShown
  <2>2. CASE d < c
    BY <1>1, <2>1, <2>2, DigestOnItsDay
  <2>3. CASE c < d
    <3>1. d = c + 1 \/ c + 1 < d
      BY <1>1, <2>3
    <3>2. DigestTime(c + 1) <= DigestTime(d) /\ DigestTime(c) < DigestTime(d)
      BY <1>1, <1>5, <2>1, <2>3, <3>1, DigestOrder
    <3> QED BY <1>4, <1>5, <1>9, <2>1, <3>2
  <2>4. CASE d = c
    BY <1>4, <1>5, <1>9, <2>4
  <2> QED BY <1>1, <2>2, <2>3, <2>4
<1> QED
  BY <1>6, <1>7, <1>8, <1>9
-----------------------------------------------------------------------------
(* What the steps leave alone. *)

\* The zone and the hour are those the process was configured with.
LEMMA Configured ==
  ASSUME [Next]_vars
  PROVE  /\ zone' = zone /\ hour' = hour
         /\ \A d : DigestTime(d)' = DigestTime(d)
         /\ \A t : Day(t)' = Day(t)
<1>1. zone' = zone /\ hour' = hour
  BY DEF Next, vars, Start, Arm, Fire, SendDigest, Tick, JumpForward, JumpBack, Stop
<1>2. \A d : DigestTime(d)' = DigestTime(d)
  BY <1>1 DEF DigestTime, Shown, Date, After, Offset
<1>3. \A t : Day(t)' = Day(t)
  BY <1>1 DEF Day, Local, After, Offset
<1> QED
  BY <1>1, <1>2, <1>3

\* The time an armed timer is for does not change until it has fired.
LEMMA TargetKept ==
  ASSUME Types, [Next]_vars, Armed, Armed'
  PROVE  /\ Target \in Int /\ Target' = Target /\ Day(Target)' = Day(Target)
         /\ DigestTime(Day(Target))' = DigestTime(Day(Target))
<1>1. /\ clock \in Int /\ mono \in Int /\ due \in Int /\ drift \in Int
      /\ HoursPerDay \in Int
  BY DigestAssumption DEF Types
<1>2. Target \in Int
  BY <1>1 DEF Target
<1>3. Target' = Target
  <2>1. CASE Start
    BY <2>1 DEF Start, Armed
  <2>2. CASE Arm
    BY <2>2 DEF Arm, Armed
  <2>3. CASE Fire
    BY <2>3 DEF Fire, Target
  <2>4. ASSUME NEW works \in BOOLEAN, SendDigest(works) PROVE Target' = Target
    BY <2>4 DEF SendDigest, Armed
  <2>5. CASE Tick
    BY <1>1, <2>5 DEF Tick, Target
  <2>6. ASSUME NEW n \in 1..HoursPerDay, JumpForward(n) PROVE Target' = Target
    BY <1>1, <2>6 DEF JumpForward, Target
  <2>7. ASSUME NEW n \in 1..HoursPerDay, JumpBack(n) PROVE Target' = Target
    BY <1>1, <2>7 DEF JumpBack, Target
  <2>8. CASE Stop
    BY <2>8 DEF Stop, Armed
  <2>9. CASE UNCHANGED vars
    BY <2>9 DEF vars, Target
  <2> QED BY <2>1, <2>2, <2>3, <2>4, <2>5, <2>6, <2>7, <2>8, <2>9 DEF Next
<1>4. zone' = zone /\ hour' = hour
  BY Configured
<1>5. Day(Target)' = Day(Target)
  BY <1>3, <1>4 DEF Day, Local, Offset, After
<1>6. DigestTime(Day(Target))' = DigestTime(Day(Target))
  BY <1>4, <1>5 DEF DigestTime, Shown, Date, Offset, After
<1> QED
  BY <1>2, <1>3, <1>5, <1>6

\* A timer that was just armed is for the next digest.
LEMMA TargetArmed ==
  ASSUME OrdinaryZones, Types, Loops, Arm
  PROVE  /\ hour # -1 /\ NextDigest \in Int /\ clock < NextDigest
         /\ due' \in Int
         /\ Target' = NextDigest /\ Day(Target)' = Day(NextDigest)
         /\ DigestTime(Day(Target))' = DigestTime(Day(NextDigest))
         /\ ~ Armed /\ Armed'
<1>1. /\ clock \in Int /\ mono \in Int /\ hour # -1
  BY DEF Types, Loops, Arm
<1>2. NextDigest \in Int /\ clock < NextDigest
  BY <1>1, NextIsNext DEF Types
<1>3. /\ clock' = clock /\ mono' = mono /\ due' = mono + NextDigest - clock /\ drift' = 0
      /\ zone' = zone /\ hour' = hour
  BY DEF Arm
<1>4. Target' = NextDigest
  BY <1>1, <1>2, <1>3 DEF Target
<1>5. Day(Target)' = Day(NextDigest)
  BY <1>3, <1>4 DEF Day, Local, Offset, After
<1>6. DigestTime(Day(Target))' = DigestTime(Day(NextDigest))
  BY <1>3, <1>5 DEF DigestTime, Shown, Date, Offset, After
<1>7. ~ Armed /\ Armed'
  BY DEF Arm, Armed
<1> QED
  BY <1>1, <1>2, <1>3, <1>4, <1>5, <1>6, <1>7
-----------------------------------------------------------------------------
(* Types, Loops and Timer. *)

\* The initial states satisfy Types.
LEMMA InitTypes ==
  ASSUME Init PROVE Types
<1>1. clock \in HoursPerDay..LastHour /\ jumps \in 0..MaxJumps /\ stops \in 0..MaxStops
  BY DigestAssumption DEF Init
<1>2. mono \in Nat /\ mono <= clock + HoursPerDay * jumps
  BY DigestAssumption DEF Init
<1>3. tried \in Seq([day : Int, hour : Int, drift : Int, back : BOOLEAN])
  BY DEF Init
<1>4. /\ zone \in Zones /\ hour \in Hours /\ due \in Int /\ drift \in Int
      /\ phase \in {"down", "off", "arm", "wait", "send"}
  BY DEF Init
<1>5. back \in BOOLEAN
  BY DEF Init
<1> QED
  BY <1>1, <1>2, <1>3, <1>4, <1>5 DEF Types

\* Every step keeps Types.
LEMMA StepTypes ==
  ASSUME OrdinaryZones, Types, Loops, [Next]_vars
  PROVE  Types'
<1> USE DigestAssumption
<1> DEFINE Entry == [day : Int, hour : Int, drift : Int, back : BOOLEAN]
<1>0. HoursPerDay * jumps \in Int
  BY DEF Types
<1>1. CASE Start
  BY <1>1 DEF Types, Start
<1>2. CASE Arm
  <2>1. due' \in Int
    BY <1>2, TargetArmed
  <2> QED BY <1>2, <2>1 DEF Types, Arm
<1>3. CASE Fire
  BY <1>3 DEF Types, Fire
<1>4. ASSUME NEW works \in BOOLEAN, SendDigest(works) PROVE Types'
  <2>1. Local(clock) \in Int
    BY LocalOrder DEF Types
  <2>2. Day(clock) \in Int /\ HourOfDay(clock) \in Int
    BY <2>1, DayOfTime DEF HourOfDay
  <2>3. tried' \in Seq(Entry)
    BY <1>4, <2>2 DEF Types, SendDigest, Tried
  <2> QED BY <1>4, <2>3 DEF Types, SendDigest
<1>5. CASE Tick
  BY <1>5 DEF Types, Tick
<1>6. ASSUME NEW n \in 1..HoursPerDay, JumpForward(n) PROVE Types'
  BY <1>6 DEF Types, JumpForward
<1>7. ASSUME NEW n \in 1..HoursPerDay, JumpBack(n) PROVE Types'
  BY <1>7 DEF Types, JumpBack
<1>8. CASE Stop
  BY <1>8 DEF Types, Stop
<1>9. CASE UNCHANGED vars
  BY <1>9 DEF Types, vars
<1> QED
  BY <1>1, <1>2, <1>3, <1>4, <1>5, <1>6, <1>7, <1>8, <1>9 DEF Next

\* Every step keeps Loops.
LEMMA StepLoops ==
  ASSUME Types, Loops, [Next]_vars
  PROVE  Loops'
<1>1. hour \in Int /\ (hour = -1 \/ hour \in 0..(HoursPerDay - 1)) /\ HoursPerDay \in Int
  BY DigestAssumption DEF Types
<1>2. CASE Start
  BY <1>1, <1>2 DEF Loops, Start
<1>3. CASE Arm
  BY <1>3 DEF Loops, Arm
<1>4. CASE Fire
  BY <1>4 DEF Loops, Fire
<1>5. ASSUME NEW works \in BOOLEAN, SendDigest(works) PROVE Loops'
  BY <1>5 DEF Loops, SendDigest
<1>6. CASE Tick
  BY <1>6 DEF Loops, Tick
<1>7. ASSUME NEW n \in 1..HoursPerDay, JumpForward(n) \/ JumpBack(n) PROVE Loops'
  BY <1>7 DEF Loops, JumpForward, JumpBack
<1>8. CASE Stop
  BY <1>8 DEF Loops, Stop
<1>9. CASE UNCHANGED vars
  BY <1>9 DEF Loops, vars
<1> QED
  BY <1>2, <1>3, <1>4, <1>5, <1>6, <1>7, <1>8, <1>9 DEF Next

\* Every step keeps Timer.
LEMMA StepTimer ==
  ASSUME OrdinaryZones, Types, Loops, Timer, [Next]_vars
  PROVE  Timer'
<1>1. /\ clock \in Int /\ mono \in Int /\ due \in Int /\ drift \in Int /\ back \in BOOLEAN
      /\ HoursPerDay \in Int
  BY DigestAssumption DEF Types
<1> DEFINE OnTheWay ==
             /\ phase' = "wait" => mono' <= due' /\ due' - mono' <= 2 * HoursPerDay
             /\ phase' = "send" => mono' = due'
<1>2. OnTheWay
  <2>1. CASE Arm
    <3>1. /\ due' = mono + NextDigest - clock /\ mono' = mono /\ phase' = "wait"
          /\ NextDigest \in Int /\ clock < NextDigest
      BY <2>1, TargetArmed DEF Arm
    <3>2. NextDigest - clock <= 2 * HoursPerDay
      BY <1>1, <2>1, TargetArmed, NextIsNext DEF Types
    <3> QED BY <1>1, <3>1, <3>2
  <2>2. CASE Fire
    BY <1>1, <2>2 DEF Fire, Timer
  <2>3. CASE Tick
    BY <1>1, <2>3 DEF Tick, Timer
  <2>4. ASSUME NEW n \in 1..HoursPerDay, JumpForward(n) \/ JumpBack(n) PROVE OnTheWay
    <3>1. mono' = mono /\ due' = due /\ phase' = phase
      BY <2>4 DEF JumpForward, JumpBack
    <3> QED BY <3>1 DEF Timer
  <2>5. CASE Start
    BY <2>5 DEF Start
  <2>6. ASSUME NEW works \in BOOLEAN, SendDigest(works) PROVE OnTheWay
    BY <2>6 DEF SendDigest
  <2>7. CASE Stop
    BY <2>7 DEF Stop
  <2>8. CASE UNCHANGED vars
    BY <2>8 DEF vars, Timer
  <2> HIDE DEF OnTheWay
  <2> QED
    BY <2>1, <2>2, <2>3, <2>4, <2>5, <2>6, <2>7, <2>8 DEF Next
<1>3. ASSUME Armed' PROVE Target' = DigestTime(Day(Target))'
  <2>1. CASE Armed
    <3>1. Target = DigestTime(Day(Target))
      BY <2>1 DEF Timer
    <3> QED BY <1>3, <2>1, <3>1, TargetKept
  <2>2. CASE Arm
    BY <1>1, <2>2, TargetArmed, NextIsNext DEF Types
  <2>3. Armed \/ Arm
    BY <1>3 DEF Next, vars, Armed, Start, Fire, SendDigest, Tick, JumpForward, JumpBack, Stop
  <2> QED BY <2>1, <2>2, <2>3
<1>4. ASSUME Armed', ~ back' PROVE drift' >= 0
  <2>1. CASE Arm
    BY <2>1 DEF Arm
  <2>2. CASE Fire
    BY <1>4, <2>2 DEF Fire, Timer, Armed
  <2>3. CASE Tick
    BY <1>4, <2>3 DEF Tick, Timer, Armed
  <2>4. ASSUME NEW n \in 1..HoursPerDay, JumpForward(n) PROVE drift' >= 0
    BY <1>1, <1>4, <2>4 DEF JumpForward, Timer, Armed
  <2>5. ASSUME NEW n \in 1..HoursPerDay, JumpBack(n) PROVE FALSE
    BY <1>4, <2>5 DEF JumpBack
  <2>6. ASSUME NEW works \in BOOLEAN, SendDigest(works) PROVE FALSE
    BY <1>4, <2>6 DEF SendDigest, Armed
  <2>7. CASE Start
    BY <1>4, <2>7 DEF Start, Armed
  <2>8. CASE Stop
    BY <1>4, <2>8 DEF Stop, Armed
  <2>9. CASE UNCHANGED vars
    BY <1>4, <2>9 DEF vars, Timer, Armed
  <2> QED
    BY <2>1, <2>2, <2>3, <2>4, <2>5, <2>6, <2>7, <2>8, <2>9 DEF Next
<1> QED
  BY <1>2, <1>3, <1>4 DEF Timer
-----------------------------------------------------------------------------
(* No day has two digests, and each is at its hour. *)

\* The steps but for a digest keep the digests, and all but one back in time keep what
\* lies behind the clock there.
LEMMA Onward ==
  ASSUME Types, [Next]_vars, ~ Arm, ~ \E works \in BOOLEAN : SendDigest(works)
  PROVE  /\ tried' = tried
         /\ back' # back => back'
         /\ ~ back' => clock <= clock'
         /\ Armed' => Armed
<1> DEFINE Kept == /\ tried' = tried
                   /\ back' # back => back'
                   /\ ~ back' => clock <= clock'
                   /\ Armed' => Armed
<1>0. SUFFICES Kept
  OBVIOUS
<1>1. clock \in Int /\ HoursPerDay \in Int
  BY DigestAssumption DEF Types
<1>2. CASE Start
  BY <1>1, <1>2 DEF Start, Armed
<1>3. CASE Fire
  BY <1>1, <1>3 DEF Fire, Armed
<1>4. CASE Tick
  BY <1>1, <1>4 DEF Tick, Armed
<1>5. ASSUME NEW n \in 1..HoursPerDay, JumpForward(n) PROVE Kept
  BY <1>1, <1>5 DEF JumpForward, Armed
<1>6. ASSUME NEW n \in 1..HoursPerDay, JumpBack(n) PROVE Kept
  BY <1>6 DEF JumpBack, Armed
<1>7. CASE Stop
  BY <1>1, <1>7 DEF Stop, Armed
<1>8. CASE UNCHANGED vars
  BY <1>1, <1>8 DEF vars, Armed
<1> HIDE DEF Kept
<1> QED
  BY <1>2, <1>3, <1>4, <1>5, <1>6, <1>7, <1>8 DEF Next

\* A digest that is sent is noted with its day, and with what parts it from its target.
LEMMA Sent ==
  ASSUME OrdinaryZones, Types, Loops, Timer, NEW works, SendDigest(works)
  PROVE  /\ hour # -1 /\ Armed /\ Target = clock - drift
         /\ Target = DigestTime(Day(Target))
         /\ clock' = clock /\ back' = FALSE /\ ~ Armed' /\ excused' = excused
         /\ Len(tried') = Len(tried) + 1
         /\ \A i \in 1..Len(tried) : tried'[i] = tried[i]
         /\ tried'[Len(tried')].day = Day(clock)
         /\ tried'[Len(tried')].hour = HourOfDay(clock)
         /\ tried'[Len(tried')].drift = drift
         /\ tried'[Len(tried')].back = back
<1>1. phase = "send" /\ hour # -1 /\ Armed
  BY DEF SendDigest, Loops, Armed
<1>2. mono = due /\ Target = DigestTime(Day(Target))
  BY <1>1 DEF Timer
<1>3. Target = clock - drift
  BY <1>2 DEF Target, Types
<1>4. clock' = clock /\ back' = FALSE /\ ~ Armed' /\ excused' = excused
  BY DEF SendDigest, Armed
<1>5. tried' = Append(tried, [day |-> Day(clock), hour |-> HourOfDay(clock),
                               drift |-> drift, back |-> back])
  BY DEF SendDigest, Tried
<1>6. tried \in Seq([day : Int, hour : Int, drift : Int, back : BOOLEAN])
  BY DEF Types
<1>7. /\ Len(tried') = Len(tried) + 1
      /\ \A i \in 1..Len(tried) : tried'[i] = tried[i]
      /\ tried'[Len(tried')] = [day |-> Day(clock), hour |-> HourOfDay(clock),
                                 drift |-> drift, back |-> back]
  BY <1>5, <1>6
<1>8. /\ tried'[Len(tried')].day = Day(clock)
      /\ tried'[Len(tried')].hour = HourOfDay(clock)
      /\ tried'[Len(tried')].drift = drift
  BY <1>7
<1>9. tried'[Len(tried')].back = back
  BY <1>7
<1> QED
  BY <1>1, <1>2, <1>3, <1>4, <1>7, <1>8, <1>9

\* Every step keeps Behind.
LEMMA StepBehind ==
  ASSUME OrdinaryZones, Types, Loops, Timer, Behind, [Next]_vars
  PROVE  Behind'
<1>1. SUFFICES ASSUME Len(tried') > 0, Last'.drift = 0, ~ back'
               PROVE  /\ clock' >= DigestTime(Last.day)'
                      /\ Armed' => Day(Target)' > Last'.day
  BY DEF Behind
<1>2. clock \in Int /\ zone \in Zones /\ hour \in Hours /\ zone' = zone /\ hour' = hour
  BY Configured DEF Types
<1>3. CASE \E works \in BOOLEAN : SendDigest(works)
  <2>1. PICK works \in BOOLEAN : SendDigest(works)
    BY <1>3
  <2>2. drift = 0 /\ Last'.day = Day(clock) /\ clock' = clock /\ ~ Armed'
    BY <1>1, <2>1, Sent DEF Last
  <2>3. clock = DigestTime(Day(clock))
    <3>1. Target = clock - drift /\ Target = DigestTime(Day(Target))
      BY <2>1, Sent
    <3>2. Target = clock
      BY <1>2, <2>2, <3>1
    <3> QED BY <3>1, <3>2
  <2>4. DigestTime(Last.day)' = DigestTime(Day(clock))
    BY <1>2, <2>2 DEF DigestTime, Shown, Date, Offset, After
  <2> QED BY <1>2, <2>2, <2>3, <2>4
<1>4. CASE ~ \E works \in BOOLEAN : SendDigest(works)
  <2>1. tried' = tried /\ back' = back /\ clock <= clock'
    <3>1. CASE Arm
      BY <1>2, <3>1 DEF Arm
    <3>2. CASE ~ Arm
      BY <1>1, <1>4, <3>2, Onward DEF Types
    <3> QED BY <3>1, <3>2
  <2>2. Last' = Last /\ DigestTime(Last.day)' = DigestTime(Last.day)
    BY <1>2, <2>1 DEF Last, DigestTime, Shown, Date, Offset, After
  <2>3. hour # -1 /\ Last.day \in Int
    <3> DEFINE Entry == [day : Int, hour : Int, drift : Int, back : BOOLEAN]
    <3>1. tried \in Seq(Entry)
      BY DEF Types
    <3>2. tried # <<>> /\ Len(tried) \in 1..Len(tried)
      BY <1>1, <2>1, <3>1
    <3>3. Last \in Entry
      <4> HIDE DEF Entry
      <4> QED BY <3>1, <3>2 DEF Last
    <3> QED BY <3>2, <3>3 DEF Loops
  <2>4. clock >= DigestTime(Last.day) /\ (Armed => Day(Target) > Last.day)
    BY <1>1, <2>1, <2>2 DEF Behind
  <2>5. DigestTime(Last.day) \in Int
    BY <1>2, <2>3, DigestShown
  <2>6. clock' \in Int
    BY StepTypes DEF Types
  <2>7. clock' >= DigestTime(Last.day)'
    BY <1>2, <2>1, <2>2, <2>4, <2>5, <2>6
  <2>8. ASSUME Armed' PROVE Day(Target)' > Last'.day
    <3>1. CASE Arm
      <4>1. /\ Day(NextDigest) \in Int /\ NextDigest = DigestTime(Day(NextDigest))
            /\ NextDigest \in Int /\ clock < NextDigest
        BY <1>2, <2>3, NextIsNext, DayOrder
      <4>2. DigestTime(Last.day) < DigestTime(Day(NextDigest))
        BY <1>2, <2>4, <2>5, <4>1
      <4>3. Last.day < Day(NextDigest)
        BY <1>2, <2>3, <4>1, <4>2, DigestOrder
      <4> QED BY <2>2, <2>3, <3>1, <4>1, <4>3, TargetArmed
    <3>2. CASE ~ Arm
      BY <1>4, <2>2, <2>4, <2>8, <3>2, Onward, TargetKept
    <3> QED BY <3>1, <3>2
  <2> QED BY <2>7, <2>8
<1> QED
  BY <1>3, <1>4

\* Every step keeps OncePerDay and OnTime.
LEMMA StepTried ==
  ASSUME OrdinaryZones, Types, Loops, Timer, Behind, OncePerDay, OnTime, [Next]_vars
  PROVE  OncePerDay' /\ OnTime'
<1>1. clock \in Int /\ drift \in Int /\ zone \in Zones /\ hour \in Hours /\ hour' = hour
  BY Configured DEF Types
<1>2. CASE \E works \in BOOLEAN : SendDigest(works)
  <2>1. PICK works \in BOOLEAN : SendDigest(works)
    BY <1>2
  <2> DEFINE n == Len(tried)
  <2>2. n \in Nat
    BY DEF Types
  <2>3. /\ hour # -1 /\ Armed /\ Target = clock - drift /\ Target = DigestTime(Day(Target))
        /\ Len(tried') = n + 1 /\ \A i \in 1..n : tried'[i] = tried[i]
        /\ tried'[n + 1].day = Day(clock) /\ tried'[n + 1].hour = HourOfDay(clock)
        /\ tried'[n + 1].drift = drift
    BY <2>1, Sent
  <2>4. tried'[n + 1].back = back
    BY <2>1, Sent
  <2>5. Target \in Int
    BY <1>1, <2>3
  <2>6. ASSUME drift = 0 PROVE HourOfDay(clock) = hour
    <3>1. Target = clock
      BY <1>1, <2>3, <2>6
    <3>2. HourOfDay(DigestTime(Day(Target))) = hour
      BY <1>1, <2>3, <2>5, DigestShown, DayOrder
    <3> QED BY <2>3, <3>1, <3>2
  <2>7. ASSUME n > 0, tried[n].day = Day(clock) PROVE back \/ tried[n].drift # 0
    <3>1. SUFFICES ASSUME ~ back, tried[n].drift = 0 PROVE FALSE
      OBVIOUS
    <3>2. Day(Target) > tried[n].day
      BY <2>3, <2>7, <3>1 DEF Behind, Last
    <3>3. drift >= 0
      BY <2>3, <3>1 DEF Timer
    <3>4. Target <= clock
      BY <1>1, <2>3, <3>3
    <3>5. Day(Target) \in Int /\ Day(clock) \in Int /\ Day(Target) <= Day(clock)
      BY <1>1, <2>5, <3>4, DayOrder
    <3> QED BY <2>7, <3>2, <3>5
  <2>8. OnTime'
    <3>1. SUFFICES ASSUME NEW i \in 1..(n + 1), tried'[i].drift = 0
                   PROVE  tried'[i].hour = hour
      BY <1>1, <2>3 DEF OnTime
    <3>2. CASE i = n + 1
      BY <2>3, <2>6, <3>1, <3>2
    <3>3. CASE i \in 1..n
      BY <2>3, <3>1, <3>3 DEF OnTime
    <3> QED BY <2>2, <3>2, <3>3
  <2>9. OncePerDay'
    <3>1. SUFFICES ASSUME NEW i \in 2..(n + 1), tried'[i].day = tried'[i - 1].day
                   PROVE  tried'[i].back \/ tried'[i - 1].drift # 0
      BY <2>3 DEF OncePerDay
    <3>2. CASE i = n + 1
      <4>1. n \in 1..n /\ n > 0 /\ i - 1 = n
        BY <2>2, <3>2
      <4> QED BY <2>3, <2>4, <2>7, <3>1, <3>2, <4>1
    <3>3. CASE i \in 2..n
      <4>1. i \in 1..n /\ i - 1 \in 1..n
        BY <2>2, <3>3
      <4> QED BY <2>3, <3>1, <3>3, <4>1 DEF OncePerDay
    <3> QED BY <2>2, <3>2, <3>3
  <2> QED BY <2>8, <2>9
<1>3. CASE ~ \E works \in BOOLEAN : SendDigest(works)
  <2>1. tried' = tried
    <3>1. CASE Arm
      BY <3>1 DEF Arm
    <3>2. CASE ~ Arm
      BY <1>3, <3>2, Onward
    <3> QED BY <3>1, <3>2
  <2> QED BY <1>1, <2>1 DEF OncePerDay, OnTime
<1> QED
  BY <1>2, <1>3
-----------------------------------------------------------------------------
(* Every day has its digest. *)

\* Only times of one day in Days can be those that have come.
LEMMA DaysOfClock ==
  ASSUME OrdinaryZones, zone \in Zones, hour \in Hours, hour # -1,
         NEW t \in HoursPerDay..LastHour, NEW d \in Int, d >= 2
  PROVE  /\ HoursPerDay < DigestTime(d)
         /\ DigestTime(d) <= t => d \in Days
<1> DEFINE H == HoursPerDay
           q == LastHour \div H
<1>1. /\ H \in Nat /\ H >= 1 /\ LastHour \in Int /\ hour \in 0..(H - 1)
      /\ d * H \in Int /\ 2 * H <= d * H
  BY MoreDays, DigestAssumption
<1>2. /\ DigestTime(d) \in Int /\ Local(DigestTime(d)) = d * H + hour
      /\ Local(DigestTime(d)) < DigestTime(d) + H
  <2>1. DigestTime(d) \in Int /\ Local(DigestTime(d)) = d * H + hour
    BY DigestShown DEF Shown
  <2>2. Local(DigestTime(d)) < DigestTime(d) + H
    BY <2>1, LocalOrder
  <2> QED BY <2>1, <2>2
<1>3. ASSUME DigestTime(d) <= t PROVE d \in Days
  <2>1. d * H < LastHour + H
    BY <1>1, <1>2, <1>3
  <2>2. q \in Int /\ LastHour < (q + 1) * H
    BY <1>1, DayAndHour, NextDay
  <2>3. SUFFICES ASSUME q + 2 <= d PROVE FALSE
    BY <2>2 DEF Days
  <2>4. (q + 2) * H = (q + 1) * H + H /\ (q + 1) * H \in Int
    BY <1>1, <2>2
  <2>5. (q + 2) * H <= d * H
    BY <2>2, <2>3, MoreDays
  <2> QED BY <1>1, <2>1, <2>2, <2>4, <2>5
<1> QED
  BY <1>1, <1>2, <1>3

\* A day that is covered stays so.
LEMMA CoveredKept ==
  ASSUME OrdinaryZones, Types, Loops, Timer, [Next]_vars, NEW d, Covered(d)
  PROVE  Covered(d)'
<1>1. CASE \E works \in BOOLEAN : SendDigest(works)
  <2>1. PICK works \in BOOLEAN : SendDigest(works)
    BY <1>1
  <2>2. Len(tried) \in Nat
    BY DEF Types
  <2>3. /\ excused' = excused /\ Len(tried') = Len(tried) + 1
        /\ \A i \in 1..Len(tried) : tried'[i] = tried[i]
    BY <2>1, Sent
  <2>4. CASE d \in excused
    BY <2>3, <2>4 DEF Covered
  <2>5. ASSUME NEW i \in 1..Len(tried), tried[i].day = d PROVE Covered(d)'
    <3>1. i \in 1..Len(tried') /\ tried'[i].day = d
      BY <2>2, <2>3, <2>5
    <3> QED BY <3>1 DEF Covered
  <2> QED BY <2>4, <2>5 DEF Covered
<1>2. CASE ~ \E works \in BOOLEAN : SendDigest(works)
  <2>1. tried' = tried
    <3>1. CASE Arm
      BY <3>1 DEF Arm
    <3>2. CASE ~ Arm
      BY <1>2, <3>2, Onward
    <3> QED BY <3>1, <3>2
  <2>2. excused \subseteq excused'
    BY <1>2 DEF Next, vars, Start, Arm, Fire, Tick, JumpForward, JumpBack, Stop
  <2> QED BY <2>1, <2>2 DEF Covered
<1> QED
  BY <1>1, <1>2

\* Every step keeps Coverage: a time that comes in the loop's presence is its timer's.
LEMMA StepCoverage ==
  ASSUME OrdinaryZones, Types, Loops, Timer, Coverage, [Next]_vars
  PROVE  Coverage'
<1>1. /\ clock \in Int /\ mono \in Int /\ due \in Int /\ drift \in Int
      /\ zone \in Zones /\ hour \in Hours /\ zone' = zone /\ hour' = hour
  BY Configured DEF Types
<1>2. SUFFICES ASSUME hour # -1, NEW d \in Days
               PROVE  /\ DigestTime(d) <= clock' =>
                           \/ Covered(d)'
                           \/ Armed' /\ DigestTime(d) = clock' /\ mono' = due' /\ drift' = 0
                      /\ Armed' /\ DigestTime(d) < Target' => Covered(d)'
  <2>1. \A d : DigestTime(d)' = DigestTime(d)
    BY Configured
  <2>2. Days' = Days
    BY DEF Days
  <2> QED BY <1>1, <2>1, <2>2 DEF Coverage
<1>3. d \in Int /\ DigestTime(d) \in Int /\ Day(DigestTime(d)) = d
  BY <1>1, <1>2, DigestShown DEF Days
<1>4. Covered(d) => Covered(d)'
  BY CoveredKept
<1>5. /\ DigestTime(d) < clock => Covered(d)
      /\ DigestTime(d) = clock => Covered(d) \/ (Armed /\ mono = due /\ drift = 0)
      /\ Armed /\ DigestTime(d) < Target => Covered(d)
  BY <1>1, <1>2, <1>3 DEF Coverage
<1>6. \A ts : DigestTime(d) \in ts => d \in DueAt(ts)
  BY <1>2, DigestAssumption DEF DueAt, DigestTime, Shown, Days
<1>7. ASSUME Armed', DigestTime(d) < Target' PROVE Covered(d)'
  <2>1. CASE Arm
    <3>1. DigestTime(d) <= clock /\ ~ Armed
      BY <1>1, <1>3, <1>7, <2>1, TargetArmed, NextIsNext
    <3> QED BY <1>1, <1>3, <1>4, <1>5, <3>1
  <2>2. CASE Armed
    BY <1>4, <1>5, <1>7, <2>2, TargetKept
  <2>3. Arm \/ Armed
    BY <1>7 DEF Next, vars, Armed, Start, Fire, SendDigest, Tick, JumpForward, JumpBack, Stop
  <2> QED BY <2>1, <2>2, <2>3
<1>8. ASSUME DigestTime(d) <= clock'
      PROVE  \/ Covered(d)'
             \/ Armed' /\ DigestTime(d) = clock' /\ mono' = due' /\ drift' = 0
  <2>1. CASE Start
    BY <1>1, <1>3, <1>4, <1>5, <1>8, <2>1 DEF Start, Armed
  <2>2. CASE Arm
    BY <1>1, <1>3, <1>4, <1>5, <1>8, <2>2 DEF Arm, Armed
  <2>3. CASE Fire
    BY <1>1, <1>3, <1>4, <1>5, <1>8, <2>3 DEF Fire, Armed
  <2>4. ASSUME NEW works \in BOOLEAN, SendDigest(works) PROVE Covered(d)'
    <3>0. Len(tried) \in Nat
      BY DEF Types
    <3>1. clock' = clock /\ Len(tried') = Len(tried) + 1
          /\ tried'[Len(tried')].day = Day(clock)
      BY <2>4, Sent
    <3>2. CASE DigestTime(d) < clock
      BY <1>4, <1>5, <3>2
    <3>3. CASE DigestTime(d) = clock
      <4>1. Len(tried') \in 1..Len(tried') /\ tried'[Len(tried')].day = d
        BY <1>3, <3>0, <3>1, <3>3
      <4> QED BY <4>1 DEF Covered
    <3> QED BY <1>1, <1>3, <1>8, <3>1, <3>2, <3>3
  <2>5. CASE Tick
    <3>1. CASE DigestTime(d) <= clock
      BY <1>1, <1>3, <1>4, <1>5, <2>5, <3>1 DEF Tick, Armed
    <3>2. CASE ~ DigestTime(d) <= clock
      <4>1. DigestTime(d) = clock + 1 /\ clock' = clock + 1
        BY <1>1, <1>3, <1>8, <2>5, <3>2 DEF Tick
      <4>2. CASE Late
        BY <1>6, <2>5, <4>1, <4>2 DEF Tick, Covered
      <4>3. CASE ~ Late
        <5>1. phase = "wait" /\ mono < due /\ drift <= 0
          BY <1>1, <1>2, <2>5, <4>3 DEF Tick, Late, Loops
        <5>2. Armed /\ Target \in Int /\ clock + 1 <= Target
          BY <1>1, <5>1 DEF Armed, Target
        <5>3. CASE clock + 1 < Target
          BY <1>4, <1>5, <4>1, <5>2, <5>3
        <5>4. CASE clock + 1 = Target
          <6>1. mono + 1 = due /\ drift = 0
            BY <1>1, <5>1, <5>4 DEF Target
          <6> QED BY <2>5, <4>1, <5>1, <6>1 DEF Tick, Armed
        <5> QED BY <1>1, <5>2, <5>3, <5>4
      <4> QED BY <4>2, <4>3
    <3> QED BY <3>1, <3>2
  <2>6. ASSUME NEW n \in 1..HoursPerDay, JumpForward(n) PROVE Covered(d)'
    <3>1. CASE DigestTime(d) < clock
      BY <1>4, <1>5, <3>1
    <3>2. CASE ~ DigestTime(d) < clock
      <4>1. DigestTime(d) \in clock..clock'
        <5>1. clock' \in Int
          BY <1>1, <2>6, DigestAssumption DEF JumpForward
        <5> QED BY <1>1, <1>3, <1>8, <3>2, <5>1
      <4> QED BY <1>6, <2>6, <4>1 DEF JumpForward, Covered
    <3> QED BY <3>1, <3>2
  <2>7. ASSUME NEW n \in 1..HoursPerDay, JumpBack(n) PROVE Covered(d)'
    <3>1. DigestTime(d) < clock
      BY <1>1, <1>3, <1>8, <2>7, DigestAssumption DEF JumpBack
    <3> QED BY <1>4, <1>5, <3>1
  <2>8. CASE Stop
    <3>1. CASE DigestTime(d) < clock
      BY <1>4, <1>5, <3>1
    <3>2. CASE DigestTime(d) = clock
      BY <1>6, <2>8, <3>2 DEF Stop, Covered
    <3> QED BY <1>1, <1>3, <1>8, <2>8, <3>1, <3>2 DEF Stop
  <2>9. CASE UNCHANGED vars
    BY <1>1, <1>3, <1>4, <1>5, <1>8, <2>9 DEF vars, Armed
  <2> QED
    BY <2>1, <2>2, <2>3, <2>4, <2>5, <2>6, <2>7, <2>8, <2>9 DEF Next
<1> QED
  BY <1>7, <1>8
-----------------------------------------------------------------------------
(* The theorems. *)

\* The inductive invariant.
THEOREM Invariance ==
  ASSUME OrdinaryZones PROVE Spec => []IInv
<1>1. ASSUME Init PROVE IInv
  <2>1. Types
    BY <1>1, InitTypes
  <2>2. Loops /\ Timer /\ Behind
    BY <1>1 DEF Init, Loops, Timer, Behind, Armed
  <2>3. Coverage
    <3>1. SUFFICES ASSUME hour # -1, NEW d \in Days
                   PROVE  ~ DigestTime(d) <= clock /\ ~ Armed
      BY DEF Coverage
    <3>2. d \in Int /\ d >= 2 /\ clock = HoursPerDay
      BY <1>1 DEF Days, Init
    <3>3. DigestTime(d) \in Int /\ HoursPerDay < DigestTime(d)
      BY <2>1, <3>1, <3>2, DigestShown, DaysOfClock DEF Types
    <3> QED BY <1>1, <3>2, <3>3, DigestAssumption DEF Init, Armed
  <2>4. OncePerDay /\ OnTime
    BY <1>1 DEF Init, OncePerDay, OnTime
  <2> QED BY <2>1, <2>2, <2>3, <2>4 DEF IInv
<1>2. ASSUME IInv, [Next]_vars PROVE IInv'
  BY <1>2, StepTypes, StepLoops, StepTimer, StepBehind, StepTried, StepCoverage DEF IInv
<1> QED
  BY <1>1, <1>2, PTL DEF Spec

\* The bounds of the loop's timer and clocks: it never sleeps longer than two days, and
\* without a digest hour it does not sleep at all.
THEOREM TypeCorrect ==
  ASSUME OrdinaryZones PROVE Spec => []TypeOK
<1>1. ASSUME IInv PROVE TypeOK
  <2>1. mono <= LastHour + HoursPerDay * MaxJumps
    <3>1. HoursPerDay * jumps <= HoursPerDay * MaxJumps
      <4>1. jumps * HoursPerDay <= MaxJumps * HoursPerDay
        BY <1>1, MoreDays, DigestAssumption DEF IInv, Types
      <4> QED BY <1>1, <4>1, DigestAssumption DEF IInv, Types
    <3>2. /\ mono \in Int /\ clock \in Int /\ clock <= LastHour
          /\ mono <= clock + HoursPerDay * jumps
          /\ HoursPerDay * jumps \in Int /\ HoursPerDay * MaxJumps \in Int
      BY <1>1, DigestAssumption DEF IInv, Types
    <3> QED BY <3>1, <3>2, DigestAssumption
  <2> QED BY <1>1, <2>1, DigestAssumption DEF TypeOK, IInv, Types, Loops, Timer
<1> QED
  BY <1>1, Invariance, PTL

\* No day gets two digests, whatever the clocks, the zone and restarts do, but for a
\* clock that was set back, or had jumped away from the timer that sent the first.
THEOREM NoDayTwice ==
  ASSUME OrdinaryZones PROVE Spec => []OncePerDay
<1>1. IInv => OncePerDay
  BY DEF IInv
<1> QED
  BY <1>1, Invariance, PTL

\* A timer that no jump of the clock disturbed fires at the digest hour.
THEOREM AtTheHour ==
  ASSUME OrdinaryZones PROVE Spec => []OnTime
<1>1. IInv => OnTime
  BY DEF IInv
<1> QED
  BY <1>1, Invariance, PTL

\* No day passes without its digest being tried, unless the process was down or its
\* timer late when the hour came.
THEOREM NoDayMissed ==
  ASSUME OrdinaryZones PROVE Spec => []EveryDay
<1>1. ASSUME IInv PROVE EveryDay
  <2>1. SUFFICES ASSUME hour # -1, NEW d \in 2..(Day(clock) - 1)
                 PROVE  Covered(d)
    BY DEF EveryDay, Covered
  <2>2. clock \in HoursPerDay..LastHour /\ clock \in Int /\ zone \in Zones /\ hour \in Hours
    BY <1>1, DigestAssumption DEF IInv, Types
  <2>3. Day(clock) \in Int
    BY <2>2, DayOrder
  <2>4. d \in Int /\ d >= 2 /\ d < Day(clock)
    BY <2>3
  <2>5. DigestTime(d) \in Int /\ DigestTime(d) < clock
    BY <2>1, <2>2, <2>4, DigestShown, DigestOnItsDay
  <2>6. d \in Days
    BY <2>1, <2>2, <2>4, <2>5, DaysOfClock
  <2> QED BY <1>1, <2>1, <2>2, <2>5, <2>6 DEF IInv, Coverage
<1> QED
  BY <1>1, Invariance, PTL
=============================================================================
