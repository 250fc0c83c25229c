-------------------------- MODULE RecurringAlarmProofs --------------------------
(***************************************************************************)
(* Theorems about one alarm across a change of offset, for every zone,     *)
(* every length of the hour and the day, and every phrase: what it is      *)
(* armed for, and that an occurrence that is over does not ring again.     *)
(***************************************************************************)
EXTENDS RecurringAlarmInv, CivilTimeProofs

\* What the clock has counted at a reading, and at an instant.
OnWall(r) == r.day * DayLength + r.tod
WallAt(z, i) == i + Offset(z, i)

-----------------------------------------------------------------------------
(* Readings and what the clock counts. *)

LEMMA DayIsPositive == DayLength \in Nat \ {0} /\ 2 * HourLength =< DayLength
<1>1. HourLength * HalfDayHours >= HourLength
  BY CivilAssumption
<1>. QED
  BY <1>1, CivilAssumption DEF DayLength, HalfDay

LEMMA MultiplesApart ==
  ASSUME NEW a \in Nat, NEW b \in Nat, a < b, NEW d \in Nat
  PROVE  a * d + d =< b * d
<1>1. PICK k \in Nat : b = a + 1 + k
  <2>1. b - a - 1 \in Nat /\ b = a + 1 + (b - a - 1)
    OBVIOUS
  <2>. QED
    BY <2>1
<1>2. b * d = a * d + d + k * d
  BY <1>1
<1>3. k * d \in Nat
  OBVIOUS
<1>. QED
  BY <1>2, <1>3

LEMMA DivMod ==
  ASSUME NEW n \in Nat, NEW d \in Nat, d > 0
  PROVE  \E q \in Nat, t \in 0 .. d - 1 :
           n = q * d + t /\ q = n \div d /\ t = n % d
OBVIOUS

LEMMA DivModUnique ==
  ASSUME NEW n \in Nat, NEW d \in Nat \ {0}, NEW q \in Nat, NEW t \in 0 .. d - 1,
         n = q * d + t
  PROVE  n \div d = q /\ n % d = t
<1>1. n = d * q + t
  OBVIOUS
<1>. QED
  BY <1>1

\* The minute of a time of day.
LEMMA WholeMinutes ==
  ASSUME NEW k \in Nat
  PROVE  OnTheMinute(k * MinuteLength) = k * MinuteLength
<1> DEFINE t == k * MinuteLength
<1>1. MinuteLength \in Nat \ {0} /\ t \in Nat /\ 0 \in 0 .. MinuteLength - 1
  BY MinuteAssumption
<1>2. t = k * MinuteLength + 0
  BY <1>1
<1> HIDE DEF t
<1>3. t % MinuteLength = 0
  BY <1>1, <1>2, DivModUnique
<1>4. OnTheMinute(t) = t
  BY <1>1, <1>3 DEF OnTheMinute
<1>. QED
  BY <1>4 DEF t

LEMMA MinuteOf ==
  ASSUME NEW t \in Nat
  PROVE  /\ OnTheMinute(t) \in Nat /\ OnTheMinute(t) =< t
         /\ OnTheMinute(OnTheMinute(t)) = OnTheMinute(t)
         /\ \E k \in Nat : OnTheMinute(t) = k * MinuteLength
         /\ \E s \in 0 .. MinuteLength - 1 : t = OnTheMinute(t) + s
<1>1. MinuteLength \in Nat /\ MinuteLength > 0
  BY MinuteAssumption
<1>2. PICK k \in Nat, s \in 0 .. MinuteLength - 1 :
        t = k * MinuteLength + s /\ s = t % MinuteLength
  BY <1>1, DivMod
<1>3. k * MinuteLength \in Nat
  BY <1>1
<1>4. OnTheMinute(t) = k * MinuteLength
  <2> DEFINE m == k * MinuteLength
  <2>1. m \in Nat /\ t = m + s /\ OnTheMinute(t) = t - s
    BY <1>2, <1>3 DEF OnTheMinute
  <2> HIDE DEF m
  <2>2. OnTheMinute(t) = m
    BY <1>1, <2>1
  <2>. QED
    BY <2>2 DEF m
<1>5. OnTheMinute(k * MinuteLength) = k * MinuteLength
  BY WholeMinutes
<1>6. t = OnTheMinute(t) + s
  BY <1>2, <1>4
<1>7. OnTheMinute(t) \in Nat /\ OnTheMinute(t) =< t
  BY <1>1, <1>3, <1>4, <1>6
<1>. QED
  BY <1>4, <1>5, <1>6, <1>7, Zenon

LEMMA MinuteOfAnHour ==
  ASSUME NEW n \in Nat, n < HourMinutes
  PROVE  n * MinuteLength \in 0 .. HourLength - 1
<1>1. n * MinuteLength + MinuteLength =< HourMinutes * MinuteLength
  BY MinuteAssumption, MultiplesApart
<1>2. n * MinuteLength \in Nat
  BY MinuteAssumption
<1>. QED
  BY <1>1, <1>2, MinuteAssumption, CivilAssumption

\* A time that shows a minute and no seconds.
LEMMA ShownOnTheMinute ==
  ASSUME NEW t \in Nat, NEW n \in Nat, t % HourLength = n * MinuteLength
  PROVE  OnTheMinute(t) = t
<1>1. /\ HourLength \in Nat /\ HourLength > 0 /\ HourLength = HourMinutes * MinuteLength
      /\ HourMinutes \in Nat /\ MinuteLength \in Nat
  BY CivilAssumption, MinuteAssumption
<1>2. PICK q \in Nat, r \in 0 .. HourLength - 1 : t = q * HourLength + r /\ r = t % HourLength
  BY <1>1, DivMod
<1>3. q * (HourMinutes * MinuteLength) = (q * HourMinutes) * MinuteLength /\ q * HourMinutes \in Nat
  BY <1>1
<1>4. t = (q * HourMinutes + n) * MinuteLength
  <2> DEFINE k == q * HourMinutes
  <2>1. t = k * MinuteLength + n * MinuteLength /\ k \in Nat
    BY <1>1, <1>2, <1>3
  <2> HIDE DEF k
  <2>2. (k + n) * MinuteLength = k * MinuteLength + n * MinuteLength
    BY <1>1, <2>1
  <2>. QED
    BY <2>1, <2>2 DEF k
<1>5. q * HourMinutes + n \in Nat
  BY <1>3
<1>. QED
  BY <1>4, <1>5, WholeMinutes

\* An hour later the clock shows a whole minute again.
LEMMA MinuteAnHourLater ==
  ASSUME NEW t \in 0 .. DayLength - 1, OnTheMinute(t) = t
  PROVE  OnTheMinute((t + HourLength) % DayLength) = (t + HourLength) % DayLength
<1>1. /\ MinuteLength \in Nat \ {0} /\ HourMinutes \in Nat \ {0} /\ HalfDayHours \in Nat \ {0}
      /\ HourLength = HourMinutes * MinuteLength /\ HourLength \in Nat
      /\ DayLength \in Nat \ {0} /\ HourLength =< DayLength /\ t \in Nat /\ t < DayLength
  BY DayIsPositive, CivilAssumption, MinuteAssumption
<1>2. PICK k \in Nat : t = k * MinuteLength
  BY <1>1, MinuteOf
<1> DEFINE d == 2 * (HourMinutes * HalfDayHours)
<1>3. d \in Nat /\ DayLength = d * MinuteLength
  <2>1. d \in Nat
    BY <1>1
  <2>2. HourLength * HalfDayHours = (HourMinutes * HalfDayHours) * MinuteLength
    BY <1>1
  <2>3. 2 * ((HourMinutes * HalfDayHours) * MinuteLength)
          = (2 * (HourMinutes * HalfDayHours)) * MinuteLength
    BY <1>1
  <2>. QED
    BY <2>1, <2>2, <2>3, Zenon DEF DayLength, HalfDay
<1> HIDE DEF d
<1>4. k + HourMinutes \in Nat /\ t + HourLength = (k + HourMinutes) * MinuteLength
  BY <1>1, <1>2
<1>5. CASE t + HourLength < DayLength
  <2> DEFINE u == t + HourLength
  <2>1. u \in 0 .. DayLength - 1 /\ u \in Nat /\ u = 0 * DayLength + u
    BY <1>1, <1>5
  <2> HIDE DEF u
  <2>2. u % DayLength = u
    BY <1>1, <2>1, DivModUnique
  <2>3. OnTheMinute(u) = u
    BY <1>4, WholeMinutes DEF u
  <2>. QED
    BY <2>2, <2>3 DEF u
<1>6. CASE DayLength =< t + HourLength
  <2>1. d =< k + HourMinutes
    <3>1. SUFFICES ASSUME k + HourMinutes < d PROVE FALSE
      BY <1>1, <1>3
    <3>2. (k + HourMinutes) * MinuteLength + MinuteLength =< d * MinuteLength
      BY <1>1, <1>3, <1>4, <3>1, MultiplesApart
    <3>. QED
      BY <1>1, <1>3, <1>4, <1>6, <3>2
  <2> DEFINE e == (k + HourMinutes) - d
             u == t + HourLength - DayLength
  <2>2. e \in Nat
    BY <1>3, <1>4, <2>1
  <2>3. k + HourMinutes = e + d
    BY <1>3, <1>4
  <2> HIDE DEF e
  <2>4. (e + d) * MinuteLength = e * MinuteLength + d * MinuteLength /\ e * MinuteLength \in Nat
    BY <1>1, <1>3, <2>2
  <2>5. u = e * MinuteLength
    BY <1>1, <1>3, <1>4, <2>3, <2>4
  <2>6. u \in 0 .. DayLength - 1 /\ t + HourLength \in Nat /\ t + HourLength = 1 * DayLength + u
    BY <1>1, <1>6
  <2> HIDE DEF u
  <2>7. (t + HourLength) % DayLength = u
    BY <1>1, <2>6, DivModUnique
  <2>8. OnTheMinute(u) = u
    BY <2>2, <2>5, WholeMinutes
  <2>. QED
    BY <2>7, <2>8
<1>. QED
  BY <1>1, <1>5, <1>6

LEMMA ReadingOnWall ==
  ASSUME NEW r \in Reading
  PROVE  /\ r.day \in Nat /\ r.tod \in Nat /\ r.tod < DayLength
         /\ r.day * DayLength \in Nat
         /\ OnWall(r) \in Nat
         /\ OnWall(r) \div DayLength = r.day /\ OnWall(r) % DayLength = r.tod
<1>1. /\ r.day \in Nat /\ r.tod \in Nat /\ r.tod < DayLength
      /\ DayLength \in Nat \ {0} /\ r.day * DayLength \in Nat
  BY DayIsPositive DEF Reading
<1>2. OnWall(r) \in Nat /\ OnWall(r) = r.day * DayLength + r.tod
  BY <1>1 DEF OnWall
<1>3. r.tod \in 0 .. DayLength - 1
  BY <1>1
<1>. QED
  BY <1>1, <1>2, <1>3, DivModUnique

LEMMA EarlierOnWall ==
  ASSUME NEW r \in Reading, NEW s \in Reading
  PROVE  /\ Earlier(r, s) <=> OnWall(r) < OnWall(s)
         /\ OnWall(r) =< OnWall(s) => r.day =< s.day
<1>1. /\ r.day \in Nat /\ r.tod \in Nat /\ r.tod < DayLength
      /\ s.day \in Nat /\ s.tod \in Nat /\ s.tod < DayLength
      /\ r.day * DayLength \in Nat /\ s.day * DayLength \in Nat /\ DayLength \in Nat
  BY ReadingOnWall, DayIsPositive
<1>2. r.day < s.day => r.day * DayLength + DayLength =< s.day * DayLength
  BY <1>1, MultiplesApart
<1>3. s.day < r.day => s.day * DayLength + DayLength =< r.day * DayLength
  BY <1>1, MultiplesApart
<1>. QED
  BY <1>1, <1>2, <1>3 DEF Earlier, OnWall

LEMMA LocalOnWall ==
  ASSUME NEW z \in Zone, NEW i \in Nat
  PROVE  /\ Local(z, i) \in Reading
         /\ OnWall(Local(z, i)) = WallAt(z, i)
         /\ WallAt(z, i) \in Nat
<1>1. WallAt(z, i) \in Nat
  BY CivilAssumption DEF WallAt, Offset, Zone
<1>2. Local(z, i) = [day |-> WallAt(z, i) \div DayLength, tod |-> WallAt(z, i) % DayLength]
  BY DEF Local, WallAt
<1>3. PICK q \in Nat, t \in 0 .. DayLength - 1 :
        WallAt(z, i) = q * DayLength + t /\ q = WallAt(z, i) \div DayLength
                                       /\ t = WallAt(z, i) % DayLength
  <2>1. DayLength \in Nat /\ DayLength > 0
    BY DayIsPositive
  <2>. QED
    BY ONLY <1>1, <2>1, DivMod, Zenon
<1>4. Local(z, i) = [day |-> q, tod |-> t]
  BY <1>2, <1>3
<1>5. Local(z, i).day = q /\ Local(z, i).tod = t
  BY <1>4
<1>6. OnWall(Local(z, i)) = q * DayLength + t
  BY <1>5, Zenon DEF OnWall
<1>7. Local(z, i) \in Reading
  BY <1>4 DEF Reading
<1>. QED
  BY <1>1, <1>3, <1>6, <1>7

-----------------------------------------------------------------------------
(* Storing a reading and showing it again. *)

\* A reading that the clock shows exactly once.
Clear(z, wall) ==
  \/ z.before = z.after
  \/ wall < ChangeOnTheWall(z)
  \/ ChangeOnTheWall(z) + HourLength =< wall

LEMMA OutsideTheChange ==
  ASSUME NEW z \in Zone, NEW r \in Reading, ~ InTheChange(z, r.tod)
  PROVE  Clear(z, OnWall(r))
<1> DEFINE k == OnWall(r) - ChangeOnTheWall(z)
<1>1. /\ OnWall(r) \in Nat /\ OnWall(r) % DayLength = r.tod
      /\ ChangeOnTheWall(z) \in Nat /\ HourLength \in Nat
  BY ReadingOnWall, CivilAssumption DEF ChangeOnTheWall, Zone
<1>2. SUFFICES ASSUME ~ Clear(z, OnWall(r)) PROVE FALSE
  OBVIOUS
<1>3. z.before # z.after /\ k \in 0 .. HourLength - 1
  BY <1>1, <1>2 DEF Clear
<1>4. ChangeOnTheWall(z) + k = OnWall(r)
  BY <1>1
<1>5. (ChangeOnTheWall(z) + k) % DayLength = r.tod
  BY <1>1, <1>4
<1>. QED
  BY <1>3, <1>5, Zenon DEF InTheChange

LEMMA ClearSurvives ==
  ASSUME NEW z \in Zone, NEW n \in Nat, NEW wall \in Nat,
         WallAt(z, n) < wall, Clear(z, wall)
  PROVE  /\ InstantOfWall(z, wall) \in Nat /\ n < InstantOfWall(z, wall)
         /\ WallAt(z, InstantOfWall(z, wall)) = wall
BY CivilAssumption
   DEF Zone, WallAt, Offset, InstantOfWall, Larger, Clear, ChangeOnTheWall

\* Where the clock goes forward, a skipped reading is stored as a later one.
LEMMA SpringIsAhead ==
  ASSUME NEW z \in Zone, NEW n \in Nat, NEW wall \in Nat,
         WallAt(z, n) < wall, z.before =< z.after
  PROVE  /\ InstantOfWall(z, wall) \in Nat /\ n < InstantOfWall(z, wall)
         /\ wall =< WallAt(z, InstantOfWall(z, wall))
BY CivilAssumption DEF Zone, WallAt, Offset, InstantOfWall, Larger

LEMMA StoredIsNat ==
  ASSUME NEW z \in Zone, NEW n \in Nat, NEW wall \in Nat,
         WallAt(z, n) < wall, z.change >= HourLength
  PROVE  InstantOfWall(z, wall) \in Nat
BY CivilAssumption DEF Zone, WallAt, Offset, InstantOfWall, Larger

\* The clock goes on from one instant to a later one, but into the repeated
\* hour.
LEMMA ClockGoesOn ==
  ASSUME NEW z \in Zone, NEW i \in Nat, NEW j \in Nat, i < j,
         z.before =< z.after \/ Clear(z, WallAt(z, i)) \/ Clear(z, WallAt(z, j))
  PROVE  WallAt(z, i) < WallAt(z, j)
BY CivilAssumption DEF Zone, WallAt, Offset, Clear, ChangeOnTheWall

-----------------------------------------------------------------------------
(* What next_occurrence and resolve_clock answer. *)

\* The first reading of its time of day after a given one on a day of the
\* recurrence, and within a week.
IsNext(o, days, after, r) ==
  /\ r \in Reading
  /\ Earlier(after, r)
  /\ RecurrenceMatches(o, r.day, days)
  /\ r.day =< after.day + 7
  /\ \A s \in Reading :
       s.tod = r.tod /\ Earlier(after, s) /\ RecurrenceMatches(o, s.day, days)
         => ~ Earlier(s, r)

LEMMA NextOccurrenceIsNext ==
  ASSUME NEW o \in Weekday, NEW after \in Reading,
         NEW tod \in 0 .. DayLength - 1, NEW days \in Recurrence
  PROVE  /\ IsNext(o, days, after, NextOccurrence(o, after, tod, days))
         /\ NextOccurrence(o, after, tod, days).tod = tod
<1> DEFINE next == NextOccurrence(o, after, tod, days)
           hits == Hits(o, after, tod, days)
<1>1. /\ next \in Reading /\ next.tod = tod
      /\ Earlier(after, next)
      /\ RecurrenceMatches(o, next.day, days)
      /\ \A s \in Reading :
           s.tod = tod /\ Earlier(after, s) /\ RecurrenceMatches(o, s.day, days)
             => ~ Earlier(s, next)
  BY NextOccurrenceIsFirst
<1>2. PICK w \in Weekday : w \in days
  BY DEF Recurrence, EveryDay, Weekday
<1>3. o \in Nat /\ after.day \in Nat /\ o + after.day \in Nat
  BY DEF Weekday, Reading
<1>4. PICK k \in 1 .. 7 : ((o + after.day) + k) % 7 = w
  BY <1>3, WeekdayComesRound
<1>5. RecurrenceMatches(o, after.day + k, days)
  <2>1. o + (after.day + k) = (o + after.day) + k
    BY <1>3
  <2>. QED
    BY <1>2, <1>4, <2>1 DEF RecurrenceMatches
<1>6. Earlier(after, Candidate(after, tod, k))
  BY <1>3 DEF Earlier, Candidate
<1>7. k \in hits /\ hits \in SUBSET (0 .. 8)
  BY <1>5, <1>6 DEF Hits
<1>8. FirstHit(hits) =< k /\ FirstHit(hits) \in 0 .. 8
  BY <1>7, FirstHitExists
<1>9. next.day = after.day + FirstHit(hits)
  BY DEF NextOccurrence, Candidate
<1>10. next.day =< after.day + 7
  BY <1>3, <1>8, <1>9
<1>. QED
  BY <1>1, <1>10, Zenon DEF IsNext

\* Two clock times a =< b: one of today's or tomorrow's four candidates is the
\* earliest of those ahead.
LEMMA EarliestOfFour ==
  ASSUME NEW after \in Reading, NEW a \in 0 .. DayLength - 1, NEW b \in 0 .. DayLength - 1,
         a =< b, NEW clocks, clocks = {a, b}
  PROVE  LET ahead == {c \in {Candidate(after, t, d) : t \in clocks, d \in 0 .. 1} :
                         Earlier(after, c)}
         IN  \E c \in ahead : \A e \in ahead : ~ Earlier(e, c)
<1> DEFINE ahead == {c \in {Candidate(after, t, d) : t \in clocks, d \in 0 .. 1} :
                       Earlier(after, c)}
<1>1. /\ after.day \in Nat /\ after.tod \in Nat /\ a \in Nat /\ b \in Nat
      /\ a =< after.tod \/ after.tod < a
  BY DayIsPositive DEF Reading
<1>2. \A e \in ahead : /\ e.tod \in {a, b} /\ e.day \in {after.day, after.day + 1}
                       /\ Earlier(after, e)
  BY <1>1 DEF Candidate
<1>3. CASE after.tod < a
  <2>1. Candidate(after, a, 0) \in ahead /\ Candidate(after, a, 0).day = after.day
                                         /\ Candidate(after, a, 0).tod = a
    BY <1>1, <1>3 DEF Candidate, Earlier
  <2>2. \A e \in ahead : ~ Earlier(e, Candidate(after, a, 0))
    BY <1>1, <1>2, <2>1 DEF Earlier
  <2>. QED
    BY <2>1, <2>2
<1>4. CASE a =< after.tod /\ after.tod < b
  <2>1. Candidate(after, b, 0) \in ahead /\ Candidate(after, b, 0).day = after.day
                                         /\ Candidate(after, b, 0).tod = b
    BY <1>1, <1>4 DEF Candidate, Earlier
  <2>2. \A e \in ahead : ~ Earlier(e, Candidate(after, b, 0))
    BY <1>1, <1>2, <1>4, <2>1 DEF Earlier
  <2>. QED
    BY <2>1, <2>2
<1>5. CASE b =< after.tod
  <2>1. Candidate(after, a, 1) \in ahead /\ Candidate(after, a, 1).day = after.day + 1
                                         /\ Candidate(after, a, 1).tod = a
    BY <1>1 DEF Candidate, Earlier
  <2>2. \A e \in ahead : ~ Earlier(e, Candidate(after, a, 1))
    BY <1>1, <1>2, <1>5, <2>1 DEF Earlier
  <2>. QED
    BY <2>1, <2>2
<1>. QED
  BY <1>1, <1>3, <1>4, <1>5

\* The clock times that resolve_clock considers.
ClocksOf(tod, explicit) == IF explicit THEN {tod} ELSE BareClocks(tod)

\* An utterance without am or pm stands for at most two clock times.
LEMMA ClocksMeant ==
  ASSUME NEW tod \in 0 .. DayLength - 1, NEW explicit \in BOOLEAN
  PROVE  \E a \in 0 .. DayLength - 1, b \in 0 .. DayLength - 1 :
           a =< b /\ ClocksOf(tod, explicit) = {a, b}
<1>1. HalfDay \in Nat \ {0} /\ DayLength = HalfDay + HalfDay /\ tod \in Nat
  BY CivilAssumption, DayIsPositive, DayLengthNat DEF DayLength, HalfDay
<1>2. tod % HalfDay \in 0 .. HalfDay - 1
  BY <1>1
<1>3. /\ tod % HalfDay \in 0 .. DayLength - 1
      /\ (tod % HalfDay) + HalfDay \in 0 .. DayLength - 1
      /\ tod % HalfDay =< (tod % HalfDay) + HalfDay /\ tod =< tod
  BY <1>1, <1>2
<1>4. ClocksOf(tod, explicit) \in {{tod, tod}, {tod % HalfDay, (tod % HalfDay) + HalfDay}}
  BY DEF ClocksOf, BareClocks
<1>. QED
  BY <1>3, <1>4

\* resolve_clock answers the first of the readings it considers that is ahead,
\* and for its time of day the first that comes at all: today or tomorrow.
THEOREM ResolveClockIsFirst ==
  ASSUME NEW after \in Reading, NEW tod \in 0 .. DayLength - 1, NEW explicit \in BOOLEAN,
         NEW c, c = ResolveClock(tod, explicit, after)
  PROVE  /\ c \in Reading /\ Earlier(after, c) /\ c.day =< after.day + 1
         /\ c.tod \in ClocksOf(tod, explicit)
         /\ \A t \in ClocksOf(tod, explicit), d \in 0 .. 1 :
              Earlier(after, Candidate(after, t, d)) => ~ Earlier(Candidate(after, t, d), c)
         /\ \A s \in Reading : s.tod = c.tod /\ Earlier(after, s) => ~ Earlier(s, c)
<1>1. PICK a \in 0 .. DayLength - 1, b \in 0 .. DayLength - 1 :
        a =< b /\ ClocksOf(tod, explicit) = {a, b}
  BY ClocksMeant
<1> DEFINE clocks == ClocksOf(tod, explicit)
           ahead == {e \in {Candidate(after, t, d) : t \in clocks, d \in 0 .. 1} :
                       Earlier(after, e)}
<1>2. c = CHOOSE e \in ahead : \A g \in ahead : ~ Earlier(g, e)
  BY DEF ResolveClock, ClocksOf
<1>0. clocks = {a, b}
  BY <1>1
<1> HIDE DEF clocks
<1>3. c \in ahead /\ \A g \in ahead : ~ Earlier(g, c)
  <2>1. \E e \in ahead : \A g \in ahead : ~ Earlier(g, e)
    BY <1>0, <1>1, EarliestOfFour
  <2> HIDE DEF ahead
  <2>. QED
    BY <1>2, <2>1
<1>4. PICK t \in clocks, d \in 0 .. 1 : c = Candidate(after, t, d) /\ Earlier(after, c)
  BY <1>3
<1>5. /\ c.day = after.day + d /\ c.tod = t /\ c \in Reading
      /\ after.day \in Nat /\ after.tod \in Nat
  BY <1>0, <1>4, DayIsPositive DEF Candidate, Reading
<1>6. ASSUME NEW s \in Reading, s.tod = c.tod, Earlier(after, s), Earlier(s, c)
      PROVE  FALSE
  <2>1. s.day \in Nat /\ s.tod \in Int /\ s.tod = t /\ s = [day |-> s.day, tod |-> s.tod]
    BY <1>5, <1>6 DEF Reading
  <2>2. s.day = after.day + 0
    <3>1. s.day < c.day /\ after.day =< s.day
      BY <1>5, <1>6, <2>1 DEF Earlier
    <3>2. d = 0 \/ d = 1
      BY <1>4
    <3>. QED
      BY <1>5, <2>1, <3>1, <3>2
  <2>3. s = Candidate(after, t, 0)
    BY <2>1, <2>2 DEF Candidate
  <2>4. s \in ahead
    BY <1>6, <2>3
  <2>. QED
    BY <1>3, <1>6, <2>4
<1>7. \A g \in clocks, n \in 0 .. 1 :
        Earlier(after, Candidate(after, g, n)) => ~ Earlier(Candidate(after, g, n), c)
  BY <1>3
<1>. QED
  BY <1>4, <1>5, <1>6, <1>7 DEF clocks

LEMMA ResolveClockIsReading ==
  ASSUME NEW after \in Reading, NEW tod \in 0 .. DayLength - 1, NEW explicit \in BOOLEAN
  PROVE  ResolveClock(tod, explicit, after) \in Reading
BY ResolveClockIsFirst

LEMMA FirstFireIsNext ==
  ASSUME NEW o \in Weekday, NEW after \in Reading,
         NEW tod \in 0 .. DayLength - 1, NEW explicit \in BOOLEAN, NEW days \in Recurrence
  PROVE  /\ IsNext(o, days, after, FirstFire(o, tod, explicit, days, after))
         /\ FirstFire(o, tod, explicit, days, after).tod \in ClocksOf(tod, explicit)
<1> DEFINE c == ResolveClock(tod, explicit, after)
<1>1. /\ c \in Reading /\ Earlier(after, c) /\ c.day =< after.day + 1
      /\ c.tod \in ClocksOf(tod, explicit)
      /\ \A s \in Reading : s.tod = c.tod /\ Earlier(after, s) => ~ Earlier(s, c)
  BY ResolveClockIsFirst
<1> HIDE DEF c
<1>2. c.tod \in 0 .. DayLength - 1 /\ c.day \in Nat /\ after.day \in Nat
  BY <1>1 DEF Reading
<1>3. CASE RecurrenceMatches(o, c.day, days)
  <2>1. FirstFire(o, tod, explicit, days, after) = c
    BY <1>3 DEF FirstFire, c
  <2>. QED
    BY <1>1, <1>2, <1>3, <2>1 DEF IsNext
<1>4. CASE ~ RecurrenceMatches(o, c.day, days)
  <2>1. FirstFire(o, tod, explicit, days, after) = NextOccurrence(o, after, c.tod, days)
    BY <1>4 DEF FirstFire, c
  <2>. QED
    BY <1>1, <1>2, <2>1, NextOccurrenceIsNext
<1>. QED
  BY <1>3, <1>4

-----------------------------------------------------------------------------
(* The instant stored for a reading. *)

\* The instants that a listener would accept, among which Expected chooses.
Accepted(z, o, days, tod, i) ==
  {j \in i + 1 .. i + 9 * DayLength :
     /\ Local(z, j).tod = tod
     /\ RecurrenceMatches(o, Local(z, j).day, days)}

LEMMA SameOnWall ==
  ASSUME NEW r \in Reading, NEW s \in Reading, OnWall(r) = OnWall(s)
  PROVE  r = s
<1>1. r.day = s.day /\ r.tod = s.tod
  BY ReadingOnWall
<1>. QED
  BY <1>1 DEF Reading

\* A reading after the present one is stored as an instant; an hour that the
\* clock shows once comes back as it was said, a skipped one comes back later.
LEMMA Stored ==
  ASSUME NEW z \in Zone, NEW n \in Nat, NEW r \in Reading, Earlier(Local(z, n), r)
  PROVE  /\ ToInstant(z, r) = InstantOfWall(z, OnWall(r))
         /\ z.change >= HourLength => ToInstant(z, r) \in Nat
         /\ ~ InTheChange(z, r.tod) =>
              /\ ToInstant(z, r) \in Nat /\ n < ToInstant(z, r)
              /\ Local(z, ToInstant(z, r)) = r
         /\ z.before =< z.after =>
              /\ ToInstant(z, r) \in Nat /\ n < ToInstant(z, r)
              /\ r.day =< Local(z, ToInstant(z, r)).day
<1> DEFINE f == ToInstant(z, r)
<1>1. f = InstantOfWall(z, OnWall(r))
  BY DEF ToInstant, OnWall
<1>2. OnWall(r) \in Nat /\ Local(z, n) \in Reading /\ WallAt(z, n) < OnWall(r)
  BY ReadingOnWall, LocalOnWall, EarlierOnWall, Zenon
<1> HIDE DEF f
<1>3. ASSUME z.change >= HourLength PROVE f \in Nat
  BY <1>1, <1>2, <1>3, StoredIsNat
<1>4. ASSUME ~ InTheChange(z, r.tod)
      PROVE  f \in Nat /\ n < f /\ Local(z, f) = r
  <2>1. Clear(z, OnWall(r))
    BY <1>4, OutsideTheChange
  <2>2. f \in Nat /\ n < f /\ WallAt(z, f) = OnWall(r)
    BY <1>1, <1>2, <2>1, ClearSurvives
  <2>3. Local(z, f) \in Reading /\ OnWall(Local(z, f)) = OnWall(r)
    BY <2>2, LocalOnWall
  <2>. QED
    BY <2>2, <2>3, SameOnWall
<1>5. ASSUME z.before =< z.after
      PROVE  f \in Nat /\ n < f /\ r.day =< Local(z, f).day
  <2>1. f \in Nat /\ n < f /\ OnWall(r) =< WallAt(z, f)
    BY <1>1, <1>2, <1>5, SpringIsAhead
  <2>2. Local(z, f) \in Reading /\ OnWall(r) =< OnWall(Local(z, f))
    BY <2>1, LocalOnWall
  <2>. QED
    BY <2>1, <2>2, EarlierOnWall
<1>. QED
  BY <1>1, <1>3, <1>4, <1>5 DEF f

LEMMA WithinNineDays ==
  ASSUME NEW z \in Zone, NEW n \in Nat, NEW f \in Nat,
         Local(z, f).day =< Local(z, n).day + 7
  PROVE  f =< n + 9 * DayLength
<1> DEFINE p == Local(z, n)
           q == Local(z, f)
<1>1. /\ p \in Reading /\ p.day \in Nat /\ p.tod \in Nat /\ p.day * DayLength \in Nat
      /\ q \in Reading /\ q.day \in Nat /\ q.tod \in Nat /\ q.tod < DayLength
      /\ p.day * DayLength + p.tod = WallAt(z, n)
      /\ q.day * DayLength + q.tod = WallAt(z, f)
  BY LocalOnWall, ReadingOnWall DEF OnWall
<1>2. DayLength \in Nat /\ HourLength =< DayLength /\ HourLength \in Nat
  BY DayIsPositive, CivilAssumption
<1>3. WallAt(z, n) =< n + HourLength /\ f =< WallAt(z, f)
  BY CivilAssumption DEF WallAt, Offset, Zone
<1>4. WallAt(z, n) \in Nat /\ WallAt(z, f) \in Nat
  BY LocalOnWall
<1> HIDE DEF p, q
<1>5. q.day =< p.day + 7
  BY DEF p, q
<1>6. q.day * DayLength =< (p.day + 7) * DayLength
  <2>1. CASE q.day = p.day + 7
    BY <2>1, <1>1, <1>2
  <2>2. CASE q.day < p.day + 7
    <3>1. q.day * DayLength + DayLength =< (p.day + 7) * DayLength
      BY <2>2, <1>1, <1>2, MultiplesApart
    <3>2. q.day * DayLength \in Nat /\ (p.day + 7) * DayLength \in Nat
      BY <1>1, <1>2
    <3>. QED
      BY <3>1, <3>2, <1>2
  <2>. QED
    BY <1>1, <1>5, <2>1, <2>2
<1>7. (p.day + 7) * DayLength = p.day * DayLength + 7 * DayLength
  BY <1>1, <1>2
<1>8. q.day * DayLength \in Nat
  BY <1>1, <1>2
<1>. QED
  BY <1>1, <1>2, <1>3, <1>4, <1>6, <1>7, <1>8

\* Outside the changing hour the first reading is stored as the first instant.
LEMMA FirstAccepted ==
  ASSUME NEW z \in Zone, NEW o \in Weekday, NEW days \in Recurrence, NEW n \in Nat,
         NEW r, IsNext(o, days, Local(z, n), r), ~ InTheChange(z, r.tod)
  PROVE  ToInstant(z, r) = FirstHit(Accepted(z, o, days, r.tod, n))
<1> DEFINE f == ToInstant(z, r)
           ok == Accepted(z, o, days, r.tod, n)
<1>1. /\ r \in Reading /\ Earlier(Local(z, n), r) /\ Local(z, n) \in Reading
      /\ RecurrenceMatches(o, r.day, days) /\ r.day =< Local(z, n).day + 7
      /\ \A s \in Reading :
           s.tod = r.tod /\ Earlier(Local(z, n), s) /\ RecurrenceMatches(o, s.day, days)
             => ~ Earlier(s, r)
  BY LocalOnWall DEF IsNext
<1>2. f \in Nat /\ n < f /\ Local(z, f) = r
  BY <1>1, Stored
<1>3. f =< n + 9 * DayLength
  BY <1>1, <1>2, WithinNineDays
<1>4. f \in ok
  <2>1. f \in n + 1 .. n + 9 * DayLength
    BY <1>2, <1>3, DayIsPositive
  <2>. QED
    BY <1>1, <1>2, <2>1 DEF Accepted
<1>5. ASSUME NEW k \in ok PROVE f =< k /\ k \in Nat
  <2>1. /\ k \in Nat /\ n < k /\ Local(z, k) \in Reading
        /\ Local(z, k).tod = r.tod /\ RecurrenceMatches(o, Local(z, k).day, days)
    <3>1. k \in n + 1 .. n + 9 * DayLength
      BY DEF Accepted
    <3>2. k \in Nat /\ n < k
      BY <3>1, DayIsPositive
    <3>. QED
      BY <3>2, LocalOnWall DEF Accepted
  <2>2. SUFFICES ASSUME k < f PROVE FALSE
    BY <1>2, <2>1
  <2>3. Clear(z, WallAt(z, k)) /\ Clear(z, WallAt(z, f))
    BY <1>1, <1>2, <2>1, OutsideTheChange, LocalOnWall
  <2>4. WallAt(z, n) < WallAt(z, k) /\ WallAt(z, k) < WallAt(z, f)
    BY <1>2, <2>1, <2>2, <2>3, ClockGoesOn
  <2>5. Earlier(Local(z, n), Local(z, k)) /\ Earlier(Local(z, k), r)
    BY <1>1, <1>2, <2>1, <2>4, LocalOnWall, EarlierOnWall
  <2>. QED
    BY <1>1, <2>1, <2>5
<1> HIDE DEF f, ok
<1>6. \A j \in ok : (\A k \in ok : j =< k) => j = f
  BY <1>2, <1>4, <1>5
<1>. QED
  BY <1>4, <1>5, <1>6 DEF f, ok, FirstHit

-----------------------------------------------------------------------------
(* What was said. *)

LEMMA HourAndMinute ==
  ASSUME NEW q \in Nat, NEW m \in 0 .. HourLength - 1
  PROVE  /\ (q * HourLength + m) \div HourLength = q
         /\ (q * HourLength + m) % HourLength = m
<1>1. HourLength \in Nat \ {0} /\ q * HourLength + m \in Nat
  BY CivilAssumption
<1>. QED
  BY <1>1, DivModUnique

\* Whatever clock time resolve_clock takes for a phrase, it shows what was said.
THEOREM ClocksShow ==
  ASSUME NEW p \in ClockPhrase, NEW c \in ParseClock(p),
         NEW t \in ClocksOf(c.tod, c.explicit)
  PROVE  Shows(t, p)
<1> DEFINE m == p.minute * MinuteLength
           h == Hour24(p)
<1>1. /\ HourLength \in Nat \ {0} /\ HalfDayHours \in Nat \ {0}
      /\ HalfDay = HalfDayHours * HourLength /\ HalfDay \in Nat \ {0}
      /\ HourLength =< HalfDay
  <2>1. HourLength \in Nat \ {0} /\ HalfDayHours \in Nat \ {0} /\ HalfDay \in Nat
    BY CivilAssumption, DayLengthNat
  <2>2. HalfDay = HalfDayHours * HourLength
    BY <2>1 DEF HalfDay
  <2>3. 0 * HourLength + HourLength =< HalfDayHours * HourLength
    BY <2>1, MultiplesApart
  <2>. QED
    BY <2>1, <2>2, <2>3
<1>2. /\ c.tod = h * HourLength + m /\ c.explicit = (p.meridiem # "none")
      /\ p.hour < 2 * HalfDayHours /\ p.minute < HourMinutes
      /\ c.explicit => 1 =< p.hour /\ p.hour =< HalfDayHours
  <2>1. /\ c \in [tod : {Hour24(p) * HourLength + p.minute * MinuteLength}, explicit : {p.meridiem # "none"}]
        /\ p.hour < 2 * HalfDayHours /\ p.minute < HourMinutes
        /\ c.explicit => 1 =< p.hour /\ p.hour =< HalfDayHours
    BY DEF ParseClock
  <2>2. c.tod = Hour24(p) * HourLength + p.minute * MinuteLength /\ c.explicit = (p.meridiem # "none")
    BY <2>1
  <2>. QED
    BY <2>1, <2>2
<1>3. p.hour \in Nat /\ p.minute \in Nat /\ p.meridiem \in {"none", "am", "pm"}
  BY <1>1, MinuteAssumption DEF ClockPhrase
<1>4. m \in 0 .. HourLength - 1
  BY <1>2, <1>3, MinuteOfAnHour
<1> HIDE DEF m
<1>5. CASE p.meridiem # "none"
  <2>1. t = c.tod /\ 1 =< p.hour /\ p.hour =< HalfDayHours
    BY <1>2, <1>5 DEF ClocksOf
  <2>2. p.hour % HalfDayHours = IF p.hour = HalfDayHours THEN 0 ELSE p.hour
    BY <1>1, <1>3, <2>1
  <2>3. h = (p.hour % HalfDayHours) + (IF p.meridiem = "pm" THEN HalfDayHours ELSE 0)
    BY <1>5 DEF Hour24
  <2>4. h \in Nat /\ h \in {p.hour, p.hour + HalfDayHours, p.hour - HalfDayHours}
    BY <1>1, <1>3, <2>1, <2>2, <2>3
  <2>5. t \div HourLength = h /\ t % HourLength = m
    BY <1>2, <1>4, <2>1, <2>4, HourAndMinute
  <2> HIDE DEF h
  <2>6. ASSUME p.meridiem = "am" PROVE t < HalfDay
    <3>1. h < HalfDayHours
      BY <1>1, <1>3, <2>1, <2>2, <2>3, <2>6
    <3>2. h * HourLength + HourLength =< HalfDay
      BY <1>1, <2>4, <3>1, MultiplesApart
    <3>3. h * HourLength \in Nat
      BY <1>1, <2>4
    <3>. QED
      BY <1>1, <1>2, <1>4, <2>1, <3>2, <3>3
  <2>7. ASSUME p.meridiem = "pm" PROVE t >= HalfDay
    <3>1. h >= HalfDayHours
      BY <1>1, <1>3, <2>1, <2>2, <2>3, <2>7
    <3>2. h * HourLength >= HalfDay /\ h * HourLength \in Nat
      <4>1. CASE h = HalfDayHours
        BY <1>1, <4>1
      <4>2. CASE HalfDayHours < h
        <5>1. HalfDayHours * HourLength + HourLength =< h * HourLength
          BY <1>1, <2>4, <4>2, MultiplesApart
        <5>2. h * HourLength \in Nat
          BY <1>1, <2>4
        <5>. QED
          BY <1>1, <5>1, <5>2
      <4>. QED
        BY <1>1, <2>4, <3>1, <4>1, <4>2
    <3>. QED
      BY <1>1, <1>2, <1>4, <2>1, <3>2
  <2>. QED
    BY <1>1, <1>3, <2>1, <2>4, <2>5, <2>6, <2>7 DEF Shows, m
<1>6. CASE p.meridiem = "none"
  <2>1. h = p.hour /\ t \in BareClocks(c.tod)
    BY <1>2, <1>6 DEF Hour24, ClocksOf
  <2>2. c.tod \div HourLength = p.hour /\ c.tod % HourLength = m
    BY <1>2, <1>3, <1>4, <2>1, HourAndMinute
  <2>3. CASE p.hour > HalfDayHours
    <3>1. t = c.tod
      BY <2>1, <2>2, <2>3 DEF BareClocks
    <3>. QED
      BY <1>6, <2>2, <2>3, <3>1 DEF Shows, m
  <2>4. CASE p.hour < HalfDayHours
    <3>1. p.hour * HourLength + HourLength =< HalfDay /\ p.hour * HourLength \in Nat
      <4>1. p.hour * HourLength + HourLength =< HalfDay
        BY <1>1, <1>3, <2>4, MultiplesApart
      <4>. QED
        BY <1>1, <1>3, <4>1
    <3>2. c.tod \in Nat /\ c.tod < HalfDay
      BY <1>1, <1>2, <1>4, <2>1, <3>1
    <3>3. c.tod % HalfDay = c.tod
      BY <1>1, <3>2
    <3>4. ~ p.hour > HalfDayHours
      BY <1>1, <1>3, <2>4
    <3>5. t = c.tod \/ t = c.tod + HalfDay
      BY <2>1, <2>2, <3>3, <3>4 DEF BareClocks
    <3>6. c.tod + HalfDay = (p.hour + HalfDayHours) * HourLength + m
      <4>1. (p.hour + HalfDayHours) * HourLength = p.hour * HourLength + HalfDayHours * HourLength
        BY <1>1, <1>3
      <4>. QED
        BY <1>1, <1>2, <1>4, <2>1, <3>1, <4>1
    <3>7. /\ (c.tod + HalfDay) \div HourLength = p.hour + HalfDayHours
          /\ (c.tod + HalfDay) % HourLength = m
      <4>1. p.hour + HalfDayHours \in Nat
        BY <1>1, <1>3
      <4>. QED
        BY <1>4, <3>6, <4>1, HourAndMinute
    <3>. QED
      BY <1>6, <2>2, <3>4, <3>5, <3>7 DEF Shows, m
  <2>5. CASE p.hour = HalfDayHours
    <3>1. c.tod = HalfDay + m /\ m \in Nat /\ m < HalfDay
      BY <1>1, <1>2, <1>4, <2>1, <2>5
    <3>2. c.tod % HalfDay = m
      <4>1. c.tod = 1 * HalfDay + m /\ c.tod \in Nat /\ m \in 0 .. HalfDay - 1
        BY <1>1, <3>1
      <4>. QED
        BY <1>1, <4>1, DivModUnique
    <3>3. ~ p.hour > HalfDayHours
      BY <1>1, <1>3, <2>5
    <3>4. t = m \/ t = c.tod
      <4>1. t = m \/ t = m + HalfDay
        BY <2>1, <2>2, <3>2, <3>3 DEF BareClocks
      <4>. QED
        BY <1>1, <3>1, <4>1
    <3>5. m \div HourLength = 0 /\ m % HourLength = m
      <4>1. 0 * HourLength + m = m
        BY <1>1, <3>1
      <4>. QED
        BY <1>4, <4>1, HourAndMinute
    <3>6. p.hour - HalfDayHours = 0
      BY <1>1, <2>5
    <3>. QED
      BY <1>6, <2>2, <3>3, <3>4, <3>5, <3>6 DEF Shows, m
  <2>. QED
    BY <1>1, <1>3, <2>3, <2>4, <2>5
<1>. QED
  BY <1>5, <1>6

\* A bare time comes within half a day: of its two clock times, half a day
\* apart, one is ahead.
THEOREM WithinHalfADay ==
  ASSUME NEW after \in Reading, NEW tod \in 0 .. DayLength - 1,
         tod \div HourLength =< HalfDayHours,
         NEW c, c = ResolveClock(tod, FALSE, after)
  PROVE  OnWall(c) =< OnWall(after) + HalfDay
<1> DEFINE a == tod % HalfDay
<1>1. /\ HalfDay \in Nat \ {0} /\ DayLength = HalfDay + HalfDay /\ DayLength \in Nat \ {0}
      /\ HourLength \in Nat \ {0} /\ HalfDayHours \in Nat \ {0} /\ tod \in Nat
  BY CivilAssumption, DayIsPositive, DayLengthNat DEF DayLength, HalfDay
<1>2. a \in 0 .. HalfDay - 1
  BY <1>1
<1>3. ClocksOf(tod, FALSE) = {a, a + HalfDay}
  <2>1. tod \div HourLength \in Int
    BY <1>1
  <2>2. ~ tod \div HourLength > HalfDayHours
    BY <1>1, <2>1
  <2>. QED
    BY <2>2 DEF ClocksOf, BareClocks
<1> HIDE DEF a
<1>4. /\ c \in Reading
      /\ \A t \in {a, a + HalfDay}, d \in 0 .. 1 :
           Earlier(after, Candidate(after, t, d)) => ~ Earlier(Candidate(after, t, d), c)
  BY <1>3, ResolveClockIsFirst
<1>5. /\ after.day \in Nat /\ after.tod \in Nat /\ after.tod < DayLength
      /\ after.day * DayLength \in Nat
      /\ OnWall(after) = after.day * DayLength + after.tod
      /\ OnWall(after) \in Nat /\ OnWall(c) \in Nat
  BY <1>4, ReadingOnWall DEF OnWall
<1>6. ASSUME NEW e \in Reading, Earlier(after, e), OnWall(e) =< OnWall(after) + HalfDay,
             \E t \in {a, a + HalfDay}, d \in 0 .. 1 : e = Candidate(after, t, d)
      PROVE  OnWall(c) =< OnWall(after) + HalfDay
  <2>1. ~ Earlier(e, c)
    BY <1>4, <1>6
  <2>2. ~ OnWall(e) < OnWall(c) /\ OnWall(e) \in Nat
    BY <1>4, <2>1, EarlierOnWall, ReadingOnWall
  <2>3. HalfDay \in Nat /\ OnWall(after) \in Nat /\ OnWall(c) \in Nat
    BY <1>1, <1>5
  <2>. QED
    BY ONLY <1>6, <2>2, <2>3
<1>7. CASE after.tod < a
  <2> DEFINE e == Candidate(after, a, 0)
  <2>1. e.day = after.day /\ e.tod = a /\ e \in Reading
    BY <1>1, <1>2, <1>5 DEF Candidate, Reading
  <2>2. OnWall(e) = after.day * DayLength + a
    BY <2>1, Zenon DEF OnWall
  <2>3. Earlier(after, e) /\ OnWall(e) =< OnWall(after) + HalfDay
    BY <1>1, <1>2, <1>5, <1>7, <2>1, <2>2 DEF Earlier
  <2>5. \E t \in {a, a + HalfDay}, n \in 0 .. 1 : e = Candidate(after, t, n)
    OBVIOUS
  <2> HIDE DEF e
  <2>. QED
    BY <1>6, <2>1, <2>3, <2>5
<1>8. CASE a =< after.tod /\ after.tod < a + HalfDay
  <2> DEFINE e == Candidate(after, a + HalfDay, 0)
  <2>1. e.day = after.day /\ e.tod = a + HalfDay /\ e \in Reading
    BY <1>1, <1>2, <1>5 DEF Candidate, Reading
  <2>2. OnWall(e) = after.day * DayLength + (a + HalfDay)
    BY <2>1, Zenon DEF OnWall
  <2>3. Earlier(after, e) /\ OnWall(e) =< OnWall(after) + HalfDay
    BY <1>1, <1>2, <1>5, <1>8, <2>1, <2>2 DEF Earlier
  <2>5. \E t \in {a, a + HalfDay}, n \in 0 .. 1 : e = Candidate(after, t, n)
    OBVIOUS
  <2> HIDE DEF e
  <2>. QED
    BY <1>6, <2>1, <2>3, <2>5
<1>9. CASE a + HalfDay =< after.tod
  <2> DEFINE e == Candidate(after, a, 1)
  <2>1. e.day = after.day + 1 /\ e.tod = a /\ e \in Reading
    BY <1>1, <1>2, <1>5 DEF Candidate, Reading
  <2>2. OnWall(e) = (after.day + 1) * DayLength + a
    BY <2>1, Zenon DEF OnWall
  <2>3. (after.day + 1) * DayLength = after.day * DayLength + DayLength
    <3>1. \A x, y \in Nat : (x + 1) * y = x * y + y
      OBVIOUS
    <3>. QED
      BY <1>1, <1>5, <3>1
  <2>4. Earlier(after, e) /\ OnWall(e) =< OnWall(after) + HalfDay
    BY <1>1, <1>2, <1>5, <1>9, <2>1, <2>2, <2>3 DEF Earlier
  <2>5. \E t \in {a, a + HalfDay}, n \in 0 .. 1 : e = Candidate(after, t, n)
    OBVIOUS
  <2> HIDE DEF e
  <2>. QED
    BY <1>6, <2>1, <2>4, <2>5
<1>10. a \in Nat /\ HalfDay \in Nat /\ after.tod \in Nat
  BY <1>1, <1>2, <1>5
<1>. QED
  BY ONLY <1>7, <1>8, <1>9, <1>10

-----------------------------------------------------------------------------
(* The steps. *)

LEMMA ZoneOfARun ==
  ASSUME TypeOK
  PROVE  /\ zone \in Zone /\ zone.change >= HourLength /\ origin \in Weekday
         /\ now \in Nat /\ from \in Nat
BY AlarmAssumption DEF TypeOK

LEMMA ExpectedIsFirst ==
  /\ \A i : Expected(i) = FirstHit(Accepted(zone, origin, rec, asked, i))
  /\ Expected(from)' = FirstHit(Accepted(zone', origin', rec', asked', from'))
BY Zenon DEF Expected, FirstHit, Accepted

\* What is asked outside the changing hour is, to the second, outside it.
LEMMA OutsideTheMinute ==
  ASSUME NEW z, NEW tod \in Nat, InTheChange(z, tod)
  PROVE  \E s \in 0 .. MinuteLength - 1 : InTheChange(z, tod + s)
<1>1. 0 \in 0 .. MinuteLength - 1 /\ tod + 0 = tod
  BY MinuteAssumption
<1>. QED
  BY <1>1

\* What Rearm leaves armed.
LEMMA RearmStores ==
  ASSUME TypeOK, AheadInv, Pending, Rearm
  PROVE  LET r == NextOccurrence(origin, LocalNow, ReadBack, rec)
         IN  /\ fire' \in Nat
             /\ r \in Reading /\ Earlier(LocalNow, r) /\ r.tod = ReadBack
             /\ ~ AskedTwice => now < fire' /\ r.day =< Local(zone, fire').day
             /\ ~ AskedInTheChange =>
                  /\ fire' = FirstHit(Accepted(zone, origin, rec, asked, now))
                  /\ Local(zone, fire').tod = asked
<1> DEFINE r == NextOccurrence(origin, LocalNow, ReadBack, rec)
<1>1. zone \in Zone /\ zone.change >= HourLength /\ origin \in Weekday /\ now \in Nat
  BY ZoneOfARun
<1>2. /\ LocalNow \in Reading /\ ReadBack \in 0 .. DayLength - 1
      /\ rec \in Recurrence /\ asked \in Nat
  <2>1. fire \in Nat /\ rec \in Recurrence /\ asked \in Nat
    BY DayIsPositive DEF TypeOK
  <2>2. LocalNow \in Reading /\ Local(zone, fire) \in Reading
    BY <1>1, <2>1, LocalOnWall DEF LocalNow
  <2>3. Local(zone, fire).tod \in Nat /\ Local(zone, fire).tod < DayLength /\ DayLength \in Nat
    BY <2>2, ReadingOnWall, DayIsPositive
  <2>4. OnTheMinute(Local(zone, fire).tod) \in Nat
        /\ OnTheMinute(Local(zone, fire).tod) =< Local(zone, fire).tod
    BY <2>3, MinuteOf, Zenon
  <2>5. ReadBack \in 0 .. DayLength - 1
    BY <2>3, <2>4 DEF ReadBack
  <2>. QED
    BY <2>1, <2>2, <2>5
<1>3. IsNext(origin, rec, LocalNow, r) /\ r.tod = ReadBack
  BY <1>1, <1>2, NextOccurrenceIsNext
<1>4. fire' = ToInstant(zone, r)
  BY DEF Rearm
<1> HIDE DEF r
<1>5. r \in Reading /\ Earlier(Local(zone, now), r)
  BY <1>3 DEF IsNext, LocalNow
<1>6. ~ AskedInTheChange => r.tod = asked
  BY <1>3 DEF AheadInv
<1>7. ASSUME ~ AskedInTheChange
      PROVE  /\ fire' = FirstHit(Accepted(zone, origin, rec, asked, now))
             /\ Local(zone, fire').tod = asked
             /\ now < fire' /\ r.day =< Local(zone, fire').day
  <2>1. ~ InTheChange(zone, r.tod)
    BY <1>2, <1>6, <1>7, OutsideTheMinute DEF AskedInTheChange
  <2>2. fire' = FirstHit(Accepted(zone, origin, rec, r.tod, now))
    BY <1>1, <1>2, <1>3, <1>4, <2>1, FirstAccepted DEF LocalNow
  <2>3. now < fire' /\ Local(zone, fire') = r
    BY <1>1, <1>4, <1>5, <2>1, Stored
  <2>. QED
    BY <1>5, <1>6, <1>7, <2>2, <2>3 DEF Reading
<1>8. ASSUME AskedInTheChange, ~ AskedTwice
      PROVE  now < fire' /\ r.day =< Local(zone, fire').day
  <2>1. zone.before =< zone.after
    BY <1>1, <1>8, CivilAssumption DEF AskedTwice, Zone
  <2>. QED
    BY <1>1, <1>4, <1>5, <2>1, Stored
<1>9. fire' \in Nat
  BY <1>1, <1>4, <1>5, Stored
<1>. QED
  BY <1>3, <1>5, <1>7, <1>8, <1>9 DEF LocalNow, r

\* parse_clock answers a time of day, parse_duration more than nothing.
LEMMA ParsedClock ==
  ASSUME NEW p \in ClockPhrase, NEW c \in ParseClock(p)
  PROVE  c.tod \in 0 .. DayLength - 1 /\ c.explicit \in BOOLEAN
<1>1. /\ HourLength \in Nat \ {0} /\ HalfDayHours \in Nat \ {0}
      /\ DayLength = (2 * HalfDayHours) * HourLength /\ DayLength \in Nat
  BY CivilAssumption, DayLengthNat DEF DayLength, HalfDay
<1>2. /\ p.hour \in Nat /\ p.hour < 2 * HalfDayHours
      /\ p.minute \in Nat /\ p.minute < HourMinutes
      /\ c.tod = Hour24(p) * HourLength + p.minute * MinuteLength
      /\ c.explicit \in BOOLEAN
  <2>1. /\ c \in [tod : {Hour24(p) * HourLength + p.minute * MinuteLength}, explicit : {p.meridiem # "none"}]
        /\ p.hour < 2 * HalfDayHours /\ p.minute < HourMinutes
    BY DEF ParseClock
  <2>2. c.tod = Hour24(p) * HourLength + p.minute * MinuteLength /\ c.explicit \in BOOLEAN
    BY <2>1
  <2>3. p.hour \in Nat /\ p.minute \in Nat
    BY <1>1, MinuteAssumption DEF ClockPhrase
  <2>. QED
    BY <2>1, <2>2, <2>3
<1>3. Hour24(p) \in Nat /\ Hour24(p) < 2 * HalfDayHours
  <2>1. p.hour % HalfDayHours \in 0 .. HalfDayHours - 1
    BY <1>1, <1>2
  <2>. QED
    BY <1>1, <1>2, <2>1 DEF Hour24
<1>4. Hour24(p) * HourLength + HourLength =< DayLength
  <2>1. 2 * HalfDayHours \in Nat
    BY <1>1
  <2>. QED
    BY <1>1, <1>3, <2>1, MultiplesApart
<1>5. Hour24(p) * HourLength \in Nat
  BY <1>1, <1>3
<1>6. p.minute * MinuteLength \in 0 .. HourLength - 1
  BY <1>2, MinuteOfAnHour
<1>. QED
  BY <1>1, <1>2, <1>4, <1>5, <1>6

LEMMA ParsedDuration ==
  ASSUME NEW p \in DurationPhrase, NEW d \in ParseDuration(p)
  PROVE  d \in Nat \ {0}
<1>1. p.hours \in Nat /\ HourLength \in Nat
  BY CivilAssumption DEF DurationPhrase
<1>2. p.hours * HourLength \in Nat /\ HourLength \div 2 \in Nat
  BY <1>1
<1>. QED
  BY <1>2 DEF ParseDuration

LEMMA SetAtKeeps ==
  ASSUME IndInv, SetAt
  PROVE  IndInv'
<1>1. /\ status = "none" /\ over = {} /\ ~ again /\ up = TRUE
      /\ over' = {} /\ ~ again' /\ up' = TRUE
      /\ zone \in Zone /\ zone.change >= HourLength /\ origin \in Weekday /\ now \in Nat
  <2>1. TypeOK /\ DaysInv /\ up \in BOOLEAN
    BY DEF IndInv, TypeOK
  <2>. QED
    BY <2>1, ZoneOfARun DEF SetAt, DaysInv, rings
<1>0. PICK p \in ClockPhrase : \E clock \in ParseClock(p), r \in Recurrence :
        /\ fire' = ToInstant(zone, FirstFire(origin, clock.tod, clock.explicit, r, LocalNow))
        /\ asked' = FirstFire(origin, clock.tod, clock.explicit, r, LocalNow).tod
        /\ said' = p
        /\ SetRecurrence(r)
  BY Zenon DEF SetAt
<1>2. PICK clock \in ParseClock(p), r \in Recurrence :
        /\ fire' = ToInstant(zone, FirstFire(origin, clock.tod, clock.explicit, r, LocalNow))
        /\ asked' = FirstFire(origin, clock.tod, clock.explicit, r, LocalNow).tod
        /\ said' = p
        /\ SetRecurrence(r)
  BY <1>0, Zenon
<1> DEFINE first == FirstFire(origin, clock.tod, clock.explicit, r, LocalNow)
<1>3. LocalNow \in Reading
  BY <1>1, LocalOnWall DEF LocalNow
<1>4. IsNext(origin, r, LocalNow, first)
  BY <1>1, <1>3, ParsedClock, FirstFireIsNext
<1> HIDE DEF first
<1>5. /\ first \in Reading /\ Earlier(Local(zone, now), first)
      /\ fire' = ToInstant(zone, first) /\ asked' = first.tod
      /\ rec' = r /\ repeats' \in BOOLEAN
  BY <1>2, <1>4 DEF IsNext, LocalNow, SetRecurrence, first
<1>6. /\ zone' = zone /\ origin' = origin /\ now' = now /\ from' = now
      /\ status' = "armed"
  BY Zenon DEF SetAt
<1>7. TypeOK'
  <2>1. fire' \in Nat
    BY <1>1, <1>5, Stored
  <2>2. asked' \in 0 .. DayLength - 1
    BY <1>5 DEF Reading
  <2>3. said' \in {Unsaid} \cup ClockPhrase \cup DurationPhrase
    BY <1>2, Zenon
  <2>4. /\ zone' \in Zones /\ origin' \in Origins
        /\ now' \in 0 .. MaxTime /\ from' \in 0 .. MaxTime
    BY <1>6 DEF IndInv, TypeOK
  <2>5. /\ up' \in BOOLEAN /\ status' \in {"none", "armed", "firing", "done"}
        /\ rec' \in Recurrence /\ over' \subseteq Nat /\ again' \in BOOLEAN
    BY <1>1, <1>5, <1>6 DEF IndInv, TypeOK, SetAt, rings
  <2>. QED
    BY <1>5, <2>1, <2>2, <2>3, <2>4, <2>5, Zenon DEF TypeOK
<1>8. ASSUME ~ AskedInTheChange'
      PROVE  /\ now < fire' /\ Local(zone, fire').tod = asked'
             /\ fire' = FirstHit(Accepted(zone, origin, rec', asked', now))
  <2>1. ~ InTheChange(zone, first.tod)
    BY <1>5, <1>6, <1>8, OutsideTheMinute DEF AskedInTheChange, Reading
  <2>2. now < fire' /\ Local(zone, fire') = first
    BY <1>1, <1>5, <2>1, Stored
  <2>3. fire' = FirstHit(Accepted(zone, origin, r, first.tod, now))
    BY <1>1, <1>4, <1>5, <2>1, FirstAccepted DEF LocalNow
  <2>. QED
    BY <1>5, <2>2, <2>3
<1>9. ASSUME AskedInTheChange', ~ AskedTwice' PROVE now < fire'
  <2>1. zone.before =< zone.after
    BY <1>1, <1>6, <1>9, CivilAssumption DEF AskedTwice, Zone
  <2>. QED
    BY <1>1, <1>5, <2>1, Stored
<1>13. OnTheMinute(asked') = asked'
  <2>1. Shows(first.tod, p) /\ first.tod \in Nat
    <3>1. first.tod \in ClocksOf(clock.tod, clock.explicit)
      BY <1>1, <1>3, ParsedClock, FirstFireIsNext DEF first
    <3>2. first.tod \in Nat
      BY <1>5, ReadingOnWall
    <3>. QED
      BY <3>1, <3>2, ClocksShow
  <2>2. first.tod % HourLength = p.minute * MinuteLength /\ p.minute \in Nat
    BY <2>1, MinuteAssumption DEF Shows, ClockPhrase
  <2>. QED
    BY <1>5, <2>1, <2>2, ShownOnTheMinute
<1>10. AheadInv'
  <2>1. now' = from' /\ from' \in Nat /\ fire' \in Nat
    BY <1>1, <1>6, <1>7 DEF TypeOK
  <2>2. ~ AskedTwice' => from' < fire'
    BY <1>6, <1>8, <1>9
  <2>3. ~ AskedInTheChange' => Local(zone', fire').tod = asked' /\ ReadBack' = asked'
    BY <1>6, <1>8, <1>13, Zenon DEF ReadBack
  <2>4. from' =< now' /\ status' # "firing"
    BY <1>6, <2>1
  <2>. QED
    BY <1>13, <2>2, <2>3, <2>4, Zenon DEF AheadInv
<1>11. DaysInv' /\ NoOccurrenceTwice'
  BY <1>1, <1>6 DEF DaysInv, NoOccurrenceTwice
<1>12. ArmedForTheNext'
  BY <1>6, <1>8, ExpectedIsFirst DEF ArmedForTheNext
<1>. QED
  BY <1>7, <1>10, <1>11, <1>12 DEF IndInv

LEMMA SetInKeeps ==
  ASSUME IndInv, SetIn
  PROVE  IndInv'
<1>1. /\ status = "none" /\ over = {} /\ ~ again /\ up = TRUE
      /\ over' = {} /\ ~ again' /\ up' = TRUE
      /\ zone \in Zone /\ now \in Nat
      /\ zone' = zone /\ origin' = origin /\ now' = now /\ from' = now
      /\ status' = "armed"
  <2>1. TypeOK /\ DaysInv /\ up \in BOOLEAN
    BY DEF IndInv, TypeOK
  <2>. QED
    BY <2>1, ZoneOfARun DEF SetIn, DaysInv, rings
<1>0. PICK p \in DurationPhrase : \E d \in ParseDuration(p), r \in Recurrence :
        /\ fire' = now + d
        /\ asked' = OnTheMinute(Local(zone, now + d).tod)
        /\ said' = p
        /\ SetRecurrence(r)
  BY Zenon DEF SetIn
<1>2. PICK d \in ParseDuration(p), r \in Recurrence :
        /\ fire' = now + d
        /\ asked' = OnTheMinute(Local(zone, now + d).tod)
        /\ said' = p
        /\ SetRecurrence(r)
  BY <1>0, Zenon
<1>3. fire' \in Nat /\ now < fire' /\ asked' = OnTheMinute(Local(zone, fire').tod)
  BY <1>1, <1>2, ParsedDuration
<1>7. /\ Local(zone, fire').tod \in Nat /\ Local(zone, fire').tod < DayLength /\ DayLength \in Nat
      /\ OnTheMinute(asked') = asked' /\ ReadBack' = asked' /\ said' \in DurationPhrase
  <2>1. Local(zone, fire').tod \in Nat /\ Local(zone, fire').tod < DayLength
    BY <1>1, <1>3, LocalOnWall, ReadingOnWall
  <2>. QED
    BY <1>1, <1>2, <1>3, <2>1, MinuteOf, DayIsPositive DEF ReadBack
<1>4. TypeOK'
  <2>1. asked' \in 0 .. DayLength - 1
    <3>1. OnTheMinute(Local(zone, fire').tod) \in Nat
          /\ OnTheMinute(Local(zone, fire').tod) =< Local(zone, fire').tod
      BY <1>7, MinuteOf, Zenon
    <3>. QED
      BY <1>3, <1>7, <3>1
  <2>2. rec' \in Recurrence /\ repeats' \in BOOLEAN
    BY <1>2 DEF SetRecurrence
  <2>3. said' \in {Unsaid} \cup ClockPhrase \cup DurationPhrase
    BY <1>2, Zenon
  <2>4. /\ zone' \in Zones /\ origin' \in Origins
        /\ now' \in 0 .. MaxTime /\ from' \in 0 .. MaxTime
    BY <1>1 DEF IndInv, TypeOK
  <2>5. /\ up' \in BOOLEAN /\ status' \in {"none", "armed", "firing", "done"}
        /\ over' \subseteq Nat /\ again' \in BOOLEAN
    BY <1>1 DEF IndInv, TypeOK, SetIn, rings
  <2>. QED
    BY <1>3, <2>1, <2>2, <2>3, <2>4, <2>5, Zenon DEF TypeOK
<1>5. AheadInv'
  <2>1. from' =< now' /\ from' < fire' /\ status' # "firing"
    BY <1>1, <1>3
  <2>. QED
    BY <1>7, <2>1, Zenon DEF AheadInv
<1>6. DaysInv' /\ NoOccurrenceTwice' /\ ArmedForTheNext'
  BY <1>1, <1>7 DEF DaysInv, NoOccurrenceTwice, ArmedForTheNext
<1>. QED
  BY <1>4, <1>5, <1>6 DEF IndInv

LEMMA RearmKeepsTypes ==
  ASSUME TypeOK, fire' \in Nat, Rearm, UNCHANGED <<zone, origin, now>>,
         up' \in BOOLEAN, over' \subseteq Nat, again' \in BOOLEAN
  PROVE  TypeOK'
<1>1. said' \in {Unsaid} \cup ClockPhrase \cup DurationPhrase
  BY DEF Rearm
<1>2. /\ zone' \in Zones /\ origin' \in Origins
      /\ now' \in 0 .. MaxTime /\ from' \in 0 .. MaxTime
  BY DEF TypeOK, Rearm
<1>3. /\ status' \in {"none", "armed", "firing", "done"} /\ rec' \in Recurrence
      /\ repeats' \in BOOLEAN /\ asked' \in 0 .. DayLength - 1
  BY DEF TypeOK, Rearm
<1>. QED
  BY <1>1, <1>2, <1>3, Zenon DEF TypeOK

LEMMA FinishKeepsTypes ==
  ASSUME TypeOK, Finish, UNCHANGED <<zone, origin, now>>,
         up' \in BOOLEAN, over' \subseteq Nat, again' \in BOOLEAN
  PROVE  TypeOK'
<1>1. /\ zone' \in Zones /\ origin' \in Origins /\ now' \in 0 .. MaxTime
      /\ fire' \in Nat /\ said' \in {Unsaid} \cup ClockPhrase \cup DurationPhrase
  BY Zenon DEF TypeOK, Finish
<1>2. /\ status' \in {"none", "armed", "firing", "done"} /\ rec' \in Recurrence
      /\ repeats' \in BOOLEAN /\ asked' \in 0 .. DayLength - 1 /\ from' \in 0 .. MaxTime
  BY DEF TypeOK, Finish
<1>. QED
  BY <1>1, <1>2, Zenon DEF TypeOK

\* An alarm that is done is held by nothing but its type and its last ring.
LEMMA FinishKeeps ==
  ASSUME IndInv, Finish, UNCHANGED <<zone, origin, now, again>>,
         up' \in BOOLEAN, over' \subseteq Nat
  PROVE  IndInv'
<1>1. /\ status' = "done" /\ from' = from /\ asked' = asked /\ zone' = zone
      /\ now' = now /\ again' = again /\ again \in BOOLEAN
  BY DEF Finish, IndInv, TypeOK
<1>2. TypeOK'
  BY <1>1, FinishKeepsTypes DEF IndInv
<1>3. AheadInv' /\ DaysInv' /\ ArmedForTheNext'
  BY <1>1 DEF IndInv, AheadInv, DaysInv, ArmedForTheNext, Pending
<1>4. NoOccurrenceTwice'
  BY <1>1 DEF IndInv, NoOccurrenceTwice, AskedInTheChange
<1>. QED
  BY <1>2, <1>3, <1>4 DEF IndInv

\* Rearming keeps the invariant where every day over is before that of the new
\* instant.
LEMMA RearmKeeps ==
  ASSUME IndInv, Pending, Rearm, UNCHANGED <<zone, origin, now, again>>,
         up' \in BOOLEAN, over' \subseteq Nat,
         ~ AskedTwice => \A day \in over' : day < Local(zone, fire').day
  PROVE  IndInv'
<1>1. TypeOK /\ AheadInv /\ again \in BOOLEAN
  BY DEF IndInv, TypeOK
<1>2. /\ fire' \in Nat
      /\ ~ AskedTwice => now < fire'
      /\ ~ AskedInTheChange =>
           /\ fire' = FirstHit(Accepted(zone, origin, rec, asked, now))
           /\ Local(zone, fire').tod = asked
  BY <1>1, RearmStores
<1>3. /\ status' = "armed" /\ from' = now /\ asked' = asked /\ rec' = rec
      /\ zone' = zone /\ origin' = origin /\ now' = now /\ again' = again
      /\ (AskedTwice' <=> AskedTwice) /\ (AskedInTheChange' <=> AskedInTheChange)
  BY DEF Rearm, AskedTwice, AskedInTheChange
<1>4. now \in Nat /\ OnTheMinute(asked) = asked
  BY <1>1, ZoneOfARun DEF AheadInv
<1>5. TypeOK'
  BY <1>1, <1>2, <1>3, RearmKeepsTypes
<1>6. AheadInv'
  <2>1. ~ AskedInTheChange' => Local(zone', fire').tod = asked' /\ ReadBack' = asked'
    BY <1>2, <1>3, <1>4, Zenon DEF ReadBack
  <2>2. from' =< now' /\ status' # "firing"
    BY <1>3, <1>4
  <2>. QED
    BY <1>2, <1>3, <1>4, <2>1, <2>2, Zenon DEF AheadInv
<1>7. DaysInv' /\ NoOccurrenceTwice'
  BY <1>3 DEF IndInv, DaysInv, NoOccurrenceTwice, Pending, Occurrence, AskedTwice
<1>8. ArmedForTheNext'
  BY <1>2, <1>3, ExpectedIsFirst DEF ArmedForTheNext
<1>. QED
  BY <1>5, <1>6, <1>7, <1>8 DEF IndInv

\* An alarm asked for in no repeated hour shows a reading that comes once, or
\* the clock only goes forward.
LEMMA PendingIsClear ==
  ASSUME TypeOK, AheadInv, Pending, ~ AskedTwice
  PROVE  zone.before =< zone.after \/ Clear(zone, WallAt(zone, fire))
<1>1. zone \in Zone /\ fire \in Nat
  BY ZoneOfARun DEF TypeOK
<1>2. CASE AskedInTheChange
  BY <1>1, <1>2, CivilAssumption DEF AskedTwice, Zone
<1>3. CASE ~ AskedInTheChange
  <2>1. Local(zone, fire) \in Reading /\ Local(zone, fire).tod \in Nat
    BY <1>1, LocalOnWall, ReadingOnWall
  <2>2. \E s \in 0 .. MinuteLength - 1 : Local(zone, fire).tod = asked + s
    BY <1>3, <2>1, MinuteOf DEF AheadInv, ReadBack
  <2>3. ~ InTheChange(zone, Local(zone, fire).tod)
    BY <1>3, <2>2 DEF AskedInTheChange
  <2>. QED
    BY <1>1, <2>1, <2>3, OutsideTheChange, LocalOnWall
<1>. QED
  BY <1>2, <1>3

\* However late it is resolved or given up, an alarm moves on to a later day:
\* the next reading is after the present one, which is not before its own.
LEMMA MovesOn ==
  ASSUME TypeOK, AheadInv, Pending, fire =< now, Rearm, ~ AskedTwice
  PROVE  Occurrence < Local(zone, fire').day
<1> DEFINE r == NextOccurrence(origin, LocalNow, ReadBack, rec)
<1>1. zone \in Zone /\ fire \in Nat /\ now \in Nat
  BY ZoneOfARun DEF TypeOK
<1>2. /\ fire' \in Nat /\ r \in Reading /\ Earlier(LocalNow, r)
      /\ r.tod = ReadBack /\ r.day =< Local(zone, fire').day
  BY RearmStores
<1> HIDE DEF r
<1>3. /\ Local(zone, fire) \in Reading /\ LocalNow \in Reading
      /\ OnWall(Local(zone, fire)) = WallAt(zone, fire) /\ WallAt(zone, fire) \in Nat
      /\ OnWall(LocalNow) = WallAt(zone, now) /\ WallAt(zone, now) \in Nat
  BY <1>1, LocalOnWall DEF LocalNow
<1>4. WallAt(zone, fire) =< WallAt(zone, now)
  <2>1. CASE fire = now
    BY <1>3, <2>1
  <2>2. CASE fire < now
    BY <1>1, <1>3, <2>2, PendingIsClear, ClockGoesOn
  <2>. QED
    BY <1>1, <2>1, <2>2
<1>5. OnWall(LocalNow) < OnWall(r) /\ OnWall(r) \in Nat
  BY <1>2, <1>3, EarlierOnWall, ReadingOnWall
<1>6. Earlier(Local(zone, fire), r)
  BY <1>2, <1>3, <1>4, <1>5, EarlierOnWall
<1>7. /\ Local(zone, fire).tod \in Nat /\ Local(zone, fire).day \in Nat
      /\ r.day \in Nat /\ Local(zone, fire').day \in Nat
  BY <1>1, <1>2, <1>3, LocalOnWall, ReadingOnWall
<1>8. r.tod \in Nat /\ r.tod =< Local(zone, fire).tod
  BY <1>2, <1>7, MinuteOf DEF ReadBack
<1>9. Local(zone, fire).day < r.day
  BY <1>6, <1>7, <1>8 DEF Earlier
<1>. QED
  BY <1>2, <1>7, <1>9 DEF Occurrence

LEMMA CloseKeeps ==
  ASSUME IndInv, Pending, fire =< now, Close, UNCHANGED <<zone, origin, now, again>>,
         up' \in BOOLEAN
  PROVE  IndInv'
<1>1. /\ TypeOK /\ AheadInv /\ DaysInv
      /\ fire \in Nat /\ zone \in Zone /\ over \subseteq Nat
      /\ over' = over \cup {Occurrence}
  BY ZoneOfARun DEF IndInv, TypeOK, Close
<1>2. Occurrence \in Nat
  BY <1>1, LocalOnWall, ReadingOnWall DEF Occurrence
<1>3. over' \subseteq Nat
  BY <1>1, <1>2
<1>4. CASE repeats
  <2>1. Rearm
    BY <1>4 DEF Close
  <2>2. ASSUME ~ AskedTwice, NEW day \in over'
        PROVE  day < Local(zone, fire').day
    <3>1. Occurrence < Local(zone, fire').day
      BY <1>1, <2>1, <2>2, MovesOn
    <3>2. Local(zone, fire').day \in Nat
      BY <1>1, <2>1, RearmStores, LocalOnWall, ReadingOnWall
    <3>3. day \in Nat /\ (day = Occurrence \/ day < Occurrence)
      BY <1>1, <1>3, <2>2 DEF DaysInv
    <3>. QED
      BY <1>2, <3>1, <3>2, <3>3
  <2>. QED
    BY <1>3, <2>1, <2>2, RearmKeeps
<1>5. CASE ~ repeats
  <2>1. Finish
    BY <1>5 DEF Close
  <2>. QED
    BY <1>3, <2>1, FinishKeeps
<1>. QED
  BY <1>4, <1>5

\* An alarm that rings, or that recover arms again, is the one it was.
LEMMA StatusKeeps ==
  ASSUME IndInv, UNCHANGED <<zone, origin, now, fire, rec, repeats, asked, said, from, over>>,
         status' \in {status, "armed", "firing"}, Pending \/ status' = status,
         status' = "firing" => fire =< now,
         up' \in BOOLEAN, again' \in BOOLEAN, AskedTwice \/ ~ again',
         Pending \/ again' = again
  PROVE  IndInv'
<1>1. /\ Pending' <=> Pending
      /\ (AskedTwice' <=> AskedTwice) /\ (AskedInTheChange' <=> AskedInTheChange)
      /\ Occurrence' = Occurrence /\ ReadBack' = ReadBack
      /\ status' = "none" => status = "none"
  BY DEF Pending, AskedTwice, AskedInTheChange, Occurrence, ReadBack
<1>2. TypeOK'
  <2>1. status' \in {"none", "armed", "firing", "done"}
    BY DEF IndInv, TypeOK
  <2>. QED
    BY <2>1, Zenon DEF IndInv, TypeOK
<1>3. AheadInv'
  BY <1>1, Zenon DEF IndInv, AheadInv
<1>4. DaysInv'
  BY <1>1 DEF IndInv, DaysInv, Pending
<1>5. NoOccurrenceTwice'
  BY <1>1, Zenon DEF NoOccurrenceTwice, AskedTwice
<1>6. ArmedForTheNext'
  BY <1>1, ExpectedIsFirst DEF IndInv, ArmedForTheNext
<1>. QED
  BY <1>2, <1>3, <1>4, <1>5, <1>6 DEF IndInv

LEMMA RingKeeps ==
  ASSUME IndInv, Ring
  PROVE  IndInv'
<1>1. /\ TypeOK /\ DaysInv /\ NoOccurrenceTwice /\ Pending
      /\ status' = "firing" /\ fire =< now /\ status = "armed"
      /\ again' = (again \/ Occurrence \in over)
      /\ UNCHANGED <<zone, origin, now, up, fire, rec, repeats, asked, said, from, over>>
      /\ fire \in Nat /\ zone \in Zone /\ over \subseteq Nat
  BY ZoneOfARun DEF IndInv, Ring, TypeOK, Pending
<1>2. up' \in BOOLEAN /\ again' \in BOOLEAN
  BY <1>1 DEF TypeOK
<1>3. AskedTwice \/ ~ again'
  <2>1. SUFFICES ASSUME ~ AskedTwice PROVE ~ again'
    OBVIOUS
  <2>2. ~ again
    BY <1>1, <2>1, Zenon DEF NoOccurrenceTwice, AskedTwice
  <2>3. Occurrence \in Nat
    BY <1>1, LocalOnWall, ReadingOnWall DEF Occurrence
  <2>4. Occurrence \notin over
    BY <1>1, <2>1, <2>3 DEF DaysInv
  <2>. QED
    BY <1>1, <2>2, <2>4, Zenon
<1>. QED
  BY <1>1, <1>2, <1>3, StatusKeeps

LEMMA ResolveKeeps ==
  ASSUME IndInv, Resolve
  PROVE  IndInv'
<1>1. Pending /\ fire =< now /\ up' \in BOOLEAN
  BY DEF Resolve, Pending, IndInv, TypeOK, AheadInv
<1>. QED
  BY <1>1, CloseKeeps DEF Resolve

\* recover gives up only what is past.
LEMMA GivenUpIsPast ==
  ASSUME TypeOK, ~ Recent
  PROVE  Pending /\ fire =< now
<1>1. fire \in Nat /\ now \in Nat /\ Grace \in Nat
  BY ZoneOfARun, AlarmAssumption DEF TypeOK
<1>2. Pending /\ ~ now - fire =< Grace
  BY DEF Recent
<1>. QED
  BY <1>1, <1>2

LEMMA ComeUpKeeps ==
  ASSUME IndInv, ComeUp
  PROVE  IndInv'
<1>1. /\ TypeOK /\ NoOccurrenceTwice /\ up' = TRUE /\ again \in BOOLEAN
      /\ UNCHANGED <<zone, origin, now, again>>
      /\ AheadInv
  BY DEF IndInv, ComeUp, TypeOK
<1>2. CASE Recent
  <2>1. /\ status' = IF status = "firing" THEN "armed" ELSE status
        /\ UNCHANGED <<fire, rec, repeats, asked, said, from, over>>
    BY <1>2, Zenon DEF ComeUp
  <2>2. /\ status' \in {status, "armed", "firing"} /\ status' # "firing"
        /\ Pending \/ status' = status
    BY <2>1 DEF Pending
  <2>3. AskedTwice \/ ~ again
    BY <1>1, Zenon DEF NoOccurrenceTwice, AskedTwice
  <2>4. /\ up' \in BOOLEAN /\ again' \in BOOLEAN /\ (AskedTwice \/ ~ again')
        /\ again' = again
    BY <1>1, <2>3
  <2>. QED
    BY <1>1, <2>1, <2>2, <2>4, StatusKeeps
<1>3. CASE ~ Recent
  <2>1. Close
    BY <1>3, Zenon DEF ComeUp
  <2>2. Pending /\ fire =< now
    BY <1>1, <1>3, GivenUpIsPast
  <2>3. up' \in BOOLEAN
    BY <1>1
  <2>. QED
    BY <1>1, <2>1, <2>2, <2>3, CloseKeeps
<1>. QED
  BY <1>2, <1>3

\* GoDown, Tick and stuttering leave the alarm alone.
LEMMA TimeKeeps ==
  ASSUME IndInv, GoDown \/ Tick \/ UNCHANGED vars
  PROVE  IndInv'
<1>1. /\ TypeOK /\ AheadInv /\ DaysInv /\ NoOccurrenceTwice /\ ArmedForTheNext
      /\ UNCHANGED <<zone, origin, alarmVars, rings>>
      /\ fire \in Nat /\ now \in Nat /\ from \in Nat
  BY ZoneOfARun DEF IndInv, GoDown, Tick, vars, TypeOK
<1>2. /\ Pending' <=> Pending
      /\ (AskedTwice' <=> AskedTwice) /\ (AskedInTheChange' <=> AskedInTheChange)
      /\ Occurrence' = Occurrence /\ ReadBack' = ReadBack
  BY <1>1 DEF Pending, AskedTwice, AskedInTheChange, Occurrence, ReadBack, alarmVars
<1>3. TypeOK'
  <2>1. up \in BOOLEAN /\ now \in 0 .. MaxTime
    BY <1>1 DEF TypeOK
  <2>2. CASE GoDown \/ UNCHANGED vars
    BY <2>1, <2>2, <1>1, Zenon DEF GoDown, vars, TypeOK, alarmVars, rings
  <2>3. CASE Tick
    <3>1. now' \in 0 .. MaxTime
      BY <1>1, <2>1, <2>3, AlarmAssumption DEF Tick
    <3>2. up' \in BOOLEAN
      BY <2>1, <2>3, Zenon DEF Tick
    <3>. QED
      BY <1>1, <3>1, <3>2, Zenon DEF TypeOK, alarmVars, rings
  <2>. QED
    BY <2>2, <2>3
<1>4. AheadInv'
  <2>1. now' \in Nat /\ now =< now'
    BY <1>1 DEF GoDown, Tick, vars
  <2>2. from' =< now' /\ (status' = "firing" => fire' =< now')
    BY <1>1, <2>1 DEF AheadInv, alarmVars, Pending
  <2>. QED
    BY <1>1, <1>2, <2>2, Zenon DEF AheadInv, alarmVars
<1>5. DaysInv' /\ NoOccurrenceTwice'
  BY <1>1, <1>2 DEF DaysInv, NoOccurrenceTwice, alarmVars, rings
<1>6. ArmedForTheNext'
  BY <1>1, <1>2, ExpectedIsFirst DEF ArmedForTheNext, alarmVars
<1>. QED
  BY <1>3, <1>4, <1>5, <1>6 DEF IndInv

-----------------------------------------------------------------------------
(* How a phrase is kept. *)

\* A phrase is of one kind.
LEMMA KindsOfPhrase ==
  ASSUME NEW p \in ClockPhrase
  PROVE  p # Unsaid /\ p \notin DurationPhrase
<1>1. DOMAIN p = {"hour", "minute", "meridiem"}
  BY DEF ClockPhrase
<1>2. p # Unsaid
  <2>1. DOMAIN Unsaid = {"rearmed"}
    BY DEF Unsaid
  <2>. QED
    BY <1>1, <2>1
<1>3. ASSUME p \in DurationPhrase PROVE FALSE
  <2>1. DOMAIN p = {"hours", "half"}
    BY <1>3 DEF DurationPhrase
  <2>. QED
    BY <1>1, <2>1
<1>. QED
  BY <1>2, <1>3

\* Setting is where the phrase matters.
LEMMA SetAtAsSaid ==
  ASSUME IndInv, SetAt
  PROVE  ArmedAsSaid'
<1>1. zone \in Zone /\ origin \in Weekday /\ now \in Nat
  BY ZoneOfARun DEF IndInv
<1>0. PICK p \in ClockPhrase : \E clock \in ParseClock(p), r \in Recurrence :
        /\ fire' = ToInstant(zone, FirstFire(origin, clock.tod, clock.explicit, r, LocalNow))
        /\ asked' = FirstFire(origin, clock.tod, clock.explicit, r, LocalNow).tod
        /\ said' = p
        /\ SetRecurrence(r)
  BY Zenon DEF SetAt
<1>2. PICK clock \in ParseClock(p), r \in Recurrence :
        /\ fire' = ToInstant(zone, FirstFire(origin, clock.tod, clock.explicit, r, LocalNow))
        /\ asked' = FirstFire(origin, clock.tod, clock.explicit, r, LocalNow).tod
        /\ said' = p
        /\ SetRecurrence(r)
  BY <1>0, Zenon
<1> DEFINE first == FirstFire(origin, clock.tod, clock.explicit, r, LocalNow)
<1>3. LocalNow \in Reading /\ OnWall(LocalNow) \in Nat
  BY <1>1, LocalOnWall, ReadingOnWall DEF LocalNow
<1>4. clock.tod \in 0 .. DayLength - 1 /\ clock.explicit \in BOOLEAN
  BY ParsedClock
<1>5. /\ IsNext(origin, r, LocalNow, first)
      /\ first.tod \in ClocksOf(clock.tod, clock.explicit)
  BY <1>1, <1>3, <1>4, FirstFireIsNext
<1>6. Shows(first.tod, p)
  BY <1>5, ClocksShow
<1>7. ASSUME p.meridiem = "none", p.hour =< HalfDayHours, ~ repeats'
      PROVE  OnWall(first) =< OnWall(LocalNow) + HalfDay
  <2>1. r = EveryDay
    BY <1>2, <1>7, Zenon DEF SetRecurrence
  <2>2. clock.explicit = FALSE /\ clock.tod \div HourLength = p.hour
    <3>1. /\ clock \in [tod : {Hour24(p) * HourLength + p.minute * MinuteLength},
                        explicit : {p.meridiem # "none"}]
          /\ p.minute < HourMinutes
      BY DEF ParseClock
    <3>2. clock.tod = Hour24(p) * HourLength + p.minute * MinuteLength /\ clock.explicit = (p.meridiem # "none")
      BY <3>1
    <3>3. p.hour \in Nat /\ p.minute * MinuteLength \in 0 .. HourLength - 1
      <4>1. p.hour \in Nat /\ p.minute \in Nat
        BY CivilAssumption, MinuteAssumption DEF ClockPhrase
      <4>. QED
        BY <3>1, <4>1, MinuteOfAnHour
    <3>4. Hour24(p) = p.hour
      BY <1>7 DEF Hour24
    <3>5. (p.hour * HourLength + p.minute * MinuteLength) \div HourLength = p.hour
      BY <3>3, HourAndMinute
    <3>. QED
      BY <1>7, <3>2, <3>4, <3>5, Zenon
  <2> DEFINE c == ResolveClock(clock.tod, FALSE, LocalNow)
  <2>3. c \in Reading
    <3>1. FALSE \in BOOLEAN
      OBVIOUS
    <3>. QED
      BY <1>3, <1>4, <3>1, ResolveClockIsReading, Zenon
  <2>4. RecurrenceMatches(origin, c.day, EveryDay)
    <3> HIDE DEF c
    <3>1. c.day \in Nat /\ origin \in Nat
      BY <1>1, <2>3 DEF Weekday, Reading
    <3>2. \A n \in Nat : n % 7 \in 0 .. 6
      OBVIOUS
    <3>3. origin + c.day \in Nat
      BY <3>1
    <3>4. (origin + c.day) % 7 \in 0 .. 6
      BY <3>2, <3>3, Zenon
    <3>. QED
      BY <3>4, Zenon DEF RecurrenceMatches, EveryDay, Weekday
  <2>5. first = c
    BY <2>1, <2>2, <2>4, Zenon DEF FirstFire
  <2>6. OnWall(c) =< OnWall(LocalNow) + HalfDay
    BY <1>3, <1>4, <1>7, <2>2, WithinHalfADay
  <2>. QED
    BY <2>5, <2>6, Zenon
<1> HIDE DEF first
<1>8. /\ first \in Reading /\ Earlier(Local(zone, now), first)
      /\ fire' = ToInstant(zone, first) /\ asked' = first.tod /\ said' = p
  BY <1>2, <1>5 DEF IsNext, LocalNow, first
<1>9. /\ zone' = zone /\ from' = now
  BY DEF SetAt
<1>10. ASSUME ~ AskedInTheChange'
       PROVE  Local(zone, fire') = first
  <2>1. ~ InTheChange(zone, first.tod)
    BY <1>8, <1>9, <1>10, ReadingOnWall, OutsideTheMinute DEF AskedInTheChange
  <2>. QED
    BY <1>1, <1>8, <2>1, Stored
<1>11. ASSUME ~ AskedInTheChange'
       PROVE  Wall(fire)' = OnWall(first) /\ Wall(from)' = OnWall(LocalNow)
  BY <1>9, <1>10, <1>11, Zenon DEF Wall, OnWall, LocalNow
<1>12. ASSUME ~ AskedInTheChange', OnWall(first) =< OnWall(LocalNow) + HalfDay
       PROVE  Wall(fire)' - Wall(from)' =< HalfDay
  <2>1. OnWall(first) \in Nat /\ HalfDay \in Nat
    BY <1>8, ReadingOnWall, DayLengthNat
  <2>. QED
    BY <1>3, <1>11, <1>12, <2>1
<1>13. /\ Shows(asked, said)'
       /\ ~ AskedInTheChange' => Local(zone, fire)'.tod = asked'
       /\ /\ said'.meridiem = "none" /\ said'.hour =< HalfDayHours /\ ~ repeats'
          /\ ~ AskedInTheChange'
          => Wall(fire)' - Wall(from)' =< HalfDay
  BY <1>6, <1>7, <1>8, <1>9, <1>10, <1>12, Zenon
<1>. QED
  BY <1>13, Zenon DEF ArmedAsSaid

LEMMA AsSaidStays ==
  ASSUME ArmedAsSaid, [Next]_vars, ~ SetAt
  PROVE  ArmedAsSaid'
<1>1. CASE UNCHANGED <<zone, fire, repeats, asked, said, from>> /\ (Pending' => Pending)
  BY <1>1, Zenon DEF ArmedAsSaid, AskedInTheChange, Wall
<1>2. CASE status' = "done"
  BY <1>2 DEF ArmedAsSaid, Pending
<1>3. CASE said' \notin ClockPhrase
  BY <1>3, Zenon DEF ArmedAsSaid
<1>4. CASE SetIn
  <2>1. said' \in DurationPhrase
    BY <1>4, Zenon DEF SetIn
  <2>. QED
    BY <1>3, <2>1, KindsOfPhrase, Zenon
<1>5. CASE Rearm
  BY <1>3, <1>5, KindsOfPhrase, Zenon DEF Rearm
<1>6. CASE Finish
  BY <1>2, <1>6 DEF Finish
<1>7. CASE Resolve
  BY <1>5, <1>6, <1>7, Zenon DEF Resolve, Close
<1>8. CASE ComeUp
  <2>1. CASE Recent
    <3>1. /\ status' = IF status = "firing" THEN "armed" ELSE status
          /\ UNCHANGED <<zone, fire, repeats, asked, said, from>>
      BY <1>8, <2>1, Zenon DEF ComeUp
    <3>. QED
      BY <1>1, <3>1 DEF Pending
  <2>2. CASE ~ Recent
    BY <1>5, <1>6, <1>8, <2>2, Zenon DEF ComeUp, Close
  <2>. QED
    BY <2>1, <2>2
<1>9. CASE Ring
  BY <1>1, <1>9 DEF Ring, Pending
<1>10. CASE GoDown \/ Tick \/ UNCHANGED vars
  <2>1. UNCHANGED <<zone, alarmVars>>
    BY <1>10 DEF GoDown, Tick, vars
  <2>. QED
    BY <1>1, <2>1 DEF alarmVars, Pending
<1>. QED
  BY <1>4, <1>7, <1>8, <1>9, <1>10 DEF Next

-----------------------------------------------------------------------------
(* How far the change of offset can move an alarm. *)

\* A reading is stored ahead, or in the first pass of the hour that the clock
\* is now going through again.
LEMMA BackInTheRepeatedHour ==
  ASSUME NEW z \in Zone, NEW n \in Nat, NEW wall \in Nat,
         WallAt(z, n) < wall, z.change >= HourLength
  PROVE  \/ n < InstantOfWall(z, wall)
         \/ /\ z.after < z.before /\ ~ Clear(z, wall)
            /\ InstantOfWall(z, wall) < z.change /\ z.change =< n
            /\ n - InstantOfWall(z, wall) < HourLength
BY CivilAssumption
   DEF Zone, WallAt, Offset, InstantOfWall, Larger, Clear, ChangeOnTheWall

\* A reading is shown again at the instant stored for it, or it is one that the
\* clock skips, and the clock shows the hour after it.
LEMMA ShownAfterTheSkippedHour ==
  ASSUME NEW z \in Zone, NEW n \in Nat, NEW wall \in Nat,
         WallAt(z, n) < wall, z.change >= HourLength
  PROVE  \/ WallAt(z, InstantOfWall(z, wall)) = wall
         \/ /\ z.before < z.after /\ ~ Clear(z, wall)
            /\ n < z.change /\ z.change =< InstantOfWall(z, wall)
            /\ WallAt(z, InstantOfWall(z, wall)) = wall + HourLength
BY CivilAssumption
   DEF Zone, WallAt, Offset, InstantOfWall, Larger, Clear, ChangeOnTheWall

LEMMA AnHourLater ==
  ASSUME NEW r \in Reading, NEW s \in Reading, OnWall(s) = OnWall(r) + HourLength
  PROVE  s.tod = (r.tod + HourLength) % DayLength
<1>1. /\ r.day \in Nat /\ r.tod \in Nat /\ r.tod < DayLength
      /\ HourLength \in Nat /\ HourLength =< DayLength /\ DayLength \in Nat \ {0}
      /\ OnWall(s) \in Nat /\ OnWall(s) % DayLength = s.tod
      /\ OnWall(s) = r.day * DayLength + r.tod + HourLength
      /\ r.day * DayLength \in Nat
  BY ReadingOnWall, DayIsPositive, CivilAssumption DEF OnWall
<1>2. CASE r.tod + HourLength < DayLength
  <2> DEFINE t == r.tod + HourLength
  <2>1. /\ t \in 0 .. DayLength - 1 /\ t \in Nat
        /\ OnWall(s) = r.day * DayLength + t
        /\ t = 0 * DayLength + t
    BY <1>1, <1>2
  <2> HIDE DEF t
  <2>2. t % DayLength = t
    BY <1>1, <2>1, DivModUnique
  <2>3. OnWall(s) % DayLength = t
    BY <1>1, <2>1, DivModUnique
  <2>. QED
    BY <1>1, <2>2, <2>3 DEF t
<1>3. CASE DayLength =< r.tod + HourLength
  <2> DEFINE t == r.tod + HourLength - DayLength
  <2>1. (r.day + 1) * DayLength = r.day * DayLength + DayLength
    BY <1>1
  <2>2. /\ t \in 0 .. DayLength - 1 /\ r.tod + HourLength \in Nat /\ r.day + 1 \in Nat
        /\ r.tod + HourLength = 1 * DayLength + t
        /\ OnWall(s) = (r.day + 1) * DayLength + t
    BY <1>1, <1>3, <2>1
  <2> HIDE DEF t
  <2>3. OnWall(s) % DayLength = t
    BY <1>1, <2>2, DivModUnique
  <2>4. (r.tod + HourLength) % DayLength = t
    BY <1>1, <2>2, DivModUnique
  <2>. QED
    BY <1>1, <2>3, <2>4
<1>. QED
  BY <1>1, <1>2, <1>3

\* What the two failing directions come to for a reading after the present one.
LEMMA StoredWithinAnHour ==
  ASSUME NEW z \in Zone, z.change >= HourLength, NEW n \in Nat,
         NEW r \in Reading, Earlier(Local(z, n), r),
         NEW f, f = ToInstant(z, r)
  PROVE  /\ f \in Nat
         /\ \/ n < f
            \/ /\ InTheChange(z, r.tod) /\ z.after < z.before
               /\ f < z.change /\ z.change =< n /\ n - f < HourLength
         /\ \/ Local(z, f).tod = r.tod
            \/ /\ InTheChange(z, r.tod) /\ z.before < z.after
               /\ n < z.change /\ z.change =< f
               /\ Local(z, f).tod = (r.tod + HourLength) % DayLength
<1>1. f = InstantOfWall(z, OnWall(r)) /\ f \in Nat
  BY Stored
<1>2. OnWall(r) \in Nat /\ WallAt(z, n) < OnWall(r)
  BY ReadingOnWall, LocalOnWall, EarlierOnWall, Zenon
<1>3. ~ Clear(z, OnWall(r)) => InTheChange(z, r.tod)
  BY OutsideTheChange
<1>4. \/ n < f
      \/ /\ InTheChange(z, r.tod) /\ z.after < z.before
         /\ f < z.change /\ z.change =< n /\ n - f < HourLength
  BY <1>1, <1>2, <1>3, BackInTheRepeatedHour
<1>5. Local(z, f) \in Reading /\ OnWall(Local(z, f)) = WallAt(z, f)
  BY <1>1, LocalOnWall
<1>6. CASE WallAt(z, f) = OnWall(r)
  BY <1>1, <1>4, <1>5, <1>6, SameOnWall
<1>7. CASE /\ z.before < z.after /\ ~ Clear(z, OnWall(r))
           /\ n < z.change /\ z.change =< f
           /\ WallAt(z, f) = OnWall(r) + HourLength
  <2>1. Local(z, f).tod = (r.tod + HourLength) % DayLength
    BY <1>5, <1>7, AnHourLater
  <2>. QED
    BY <1>1, <1>3, <1>4, <1>7, <2>1
<1>. QED
  BY <1>1, <1>2, <1>6, <1>7, ShownAfterTheSkippedHour

WithinAnHour == MovesByTheSkippedHour /\ BackLessThanAnHour

LEMMA SetAtWithinAnHour ==
  ASSUME IndInv, SetAt
  PROVE  WithinAnHour'
<1>1. /\ zone \in Zone /\ zone.change >= HourLength /\ origin \in Weekday /\ now \in Nat
      /\ zone' = zone /\ from' = now
  BY ZoneOfARun DEF IndInv, SetAt
<1>0. PICK p \in ClockPhrase : \E clock \in ParseClock(p), days \in Recurrence :
        /\ fire' = ToInstant(zone, FirstFire(origin, clock.tod, clock.explicit, days, LocalNow))
        /\ asked' = FirstFire(origin, clock.tod, clock.explicit, days, LocalNow).tod
  BY Zenon DEF SetAt
<1>2. PICK clock \in ParseClock(p), days \in Recurrence :
        /\ fire' = ToInstant(zone, FirstFire(origin, clock.tod, clock.explicit, days, LocalNow))
        /\ asked' = FirstFire(origin, clock.tod, clock.explicit, days, LocalNow).tod
  BY <1>0, Zenon
<1> DEFINE first == FirstFire(origin, clock.tod, clock.explicit, days, LocalNow)
<1>3. LocalNow \in Reading
  BY <1>1, LocalOnWall DEF LocalNow
<1>4. IsNext(origin, days, LocalNow, first)
  BY <1>1, <1>3, ParsedClock, FirstFireIsNext
<1> HIDE DEF first
<1>5. /\ first \in Reading /\ Earlier(Local(zone, now), first)
      /\ fire' = ToInstant(zone, first) /\ asked' = first.tod
  BY <1>2, <1>4 DEF IsNext, LocalNow, first
<1>6. /\ \/ now < fire'
         \/ /\ InTheChange(zone, asked') /\ zone.after < zone.before
            /\ fire' < zone.change /\ zone.change =< now /\ now - fire' < HourLength
      /\ \/ Local(zone, fire').tod = asked'
         \/ /\ InTheChange(zone, asked') /\ zone.before < zone.after
            /\ zone.change =< fire'
            /\ Local(zone, fire').tod = (asked' + HourLength) % DayLength
  BY <1>1, <1>5, StoredWithinAnHour
<1>7. /\ asked' \in 0 .. DayLength - 1 /\ OnTheMinute(asked') = asked'
      /\ InTheChange(zone, asked') => AskedInTheChange'
  <2>1. IndInv'
    BY SetAtKeeps
  <2>2. asked' \in 0 .. DayLength - 1 /\ asked' \in Nat /\ OnTheMinute(asked') = asked'
    BY <2>1, DayIsPositive DEF IndInv, TypeOK, AheadInv
  <2>. QED
    BY <1>1, <2>2, OutsideTheMinute DEF AskedInTheChange
<1>8. \/ ReadBack' = asked'
      \/ /\ InTheChange(zone, asked') /\ zone.before < zone.after
         /\ zone.change =< fire'
         /\ ReadBack' = (asked' + HourLength) % DayLength
  BY <1>1, <1>6, <1>7, MinuteAnHourLater DEF ReadBack
<1>. QED
  BY <1>1, <1>6, <1>7, <1>8, Zenon
     DEF WithinAnHour, MovesByTheSkippedHour, BackLessThanAnHour

\* An alarm that has moved stays where it is: it is rearmed after the change,
\* for a reading that the clock does not skip.
LEMMA RearmWithinAnHour ==
  ASSUME IndInv, WithinAnHour, Pending, fire =< now, Rearm,
         UNCHANGED zone
  PROVE  WithinAnHour'
<1> DEFINE r == NextOccurrence(origin, LocalNow, ReadBack, rec)
<1>1. /\ zone \in Zone /\ zone.change >= HourLength /\ now \in Nat /\ fire \in Nat
      /\ zone' = zone /\ from' = now /\ asked' = asked /\ fire' = ToInstant(zone, r)
      /\ TypeOK /\ AheadInv /\ zone.change \in Nat
  BY ZoneOfARun DEF IndInv, TypeOK, Rearm, Zone
<1>2. r \in Reading /\ Earlier(Local(zone, now), r) /\ r.tod = ReadBack
  BY <1>1, RearmStores DEF LocalNow
<1> HIDE DEF r
<1>3. /\ \/ now < fire'
         \/ /\ InTheChange(zone, r.tod) /\ zone.after < zone.before
            /\ fire' < zone.change /\ zone.change =< now /\ now - fire' < HourLength
      /\ \/ Local(zone, fire').tod = r.tod
         \/ /\ InTheChange(zone, r.tod) /\ zone.before < zone.after
            /\ now < zone.change /\ zone.change =< fire'
            /\ Local(zone, fire').tod = (r.tod + HourLength) % DayLength
      /\ fire' \in Nat
  BY <1>1, <1>2, StoredWithinAnHour
<1>4. \/ r.tod = asked
      \/ /\ AskedInTheChange /\ zone.before < zone.after /\ zone.change =< fire
         /\ r.tod = (asked + HourLength) % DayLength
  BY <1>2 DEF WithinAnHour, MovesByTheSkippedHour
<1>7. /\ asked \in 0 .. DayLength - 1 /\ OnTheMinute(asked) = asked
      /\ InTheChange(zone, asked) => AskedInTheChange
      /\ OnTheMinute((asked + HourLength) % DayLength) = (asked + HourLength) % DayLength
      /\ AskedInTheChange' <=> AskedInTheChange
  <2>1. asked \in 0 .. DayLength - 1 /\ asked \in Nat /\ OnTheMinute(asked) = asked
    BY <1>1, DayIsPositive DEF TypeOK, AheadInv
  <2>. QED
    BY <1>1, <2>1, OutsideTheMinute, MinuteAnHourLater DEF AskedInTheChange
<1>5. CASE r.tod = asked
  <2>1. \/ ReadBack' = asked'
        \/ /\ AskedInTheChange' /\ zone'.before < zone'.after
           /\ zone'.change =< fire'
           /\ ReadBack' = (asked' + HourLength) % DayLength
    BY <1>1, <1>3, <1>5, <1>7 DEF ReadBack
  <2>2. \/ from' < fire'
        \/ /\ AskedInTheChange' /\ zone'.after < zone'.before
           /\ fire' < zone'.change /\ zone'.change =< from'
           /\ from' - fire' < HourLength
    BY <1>1, <1>3, <1>5, <1>7
  <2>. QED
    BY <2>1, <2>2, Zenon DEF WithinAnHour, MovesByTheSkippedHour, BackLessThanAnHour
<1>6. CASE /\ AskedInTheChange /\ zone.before < zone.after /\ zone.change =< fire
           /\ r.tod = (asked + HourLength) % DayLength
  <2>1. zone.change =< now /\ ~ now < zone.change /\ ~ zone.after < zone.before
    BY <1>1, <1>6, CivilAssumption DEF Zone
  <2>2. now < fire' /\ Local(zone, fire').tod = r.tod
    BY <1>3, <2>1, Zenon
  <2>3. zone.change =< fire'
    BY <1>1, <1>3, <2>1, <2>2
  <2>4. ReadBack' = (asked' + HourLength) % DayLength
    BY <1>1, <1>6, <1>7, <2>2 DEF ReadBack
  <2>. QED
    BY <1>1, <1>6, <1>7, <2>2, <2>3, <2>4, Zenon
       DEF WithinAnHour, MovesByTheSkippedHour, BackLessThanAnHour
<1>. QED
  BY <1>4, <1>5, <1>6

LEMMA StaysWithinAnHour ==
  ASSUME IndInv, WithinAnHour, [Next]_vars
  PROVE  WithinAnHour'
<1>1. CASE UNCHANGED <<zone, fire, asked, from>> /\ (Pending' => Pending)
  BY <1>1, Zenon
     DEF WithinAnHour, MovesByTheSkippedHour, BackLessThanAnHour, AskedInTheChange, ReadBack
<1>2. CASE status' = "done"
  BY <1>2 DEF WithinAnHour, MovesByTheSkippedHour, BackLessThanAnHour, Pending
<1>3. CASE SetIn
  <2>1. zone \in Zone /\ now \in Nat /\ zone' = zone /\ from' = now
    BY <1>3, ZoneOfARun DEF IndInv, SetIn
  <2>2. PICK p \in DurationPhrase : \E d \in ParseDuration(p) :
          fire' = now + d /\ asked' = OnTheMinute(Local(zone, now + d).tod)
    BY <1>3, Zenon DEF SetIn
  <2>3. PICK d \in ParseDuration(p) :
          fire' = now + d /\ asked' = OnTheMinute(Local(zone, now + d).tod)
    BY <2>2, Zenon
  <2>4. now < fire' /\ asked' = ReadBack'
    BY <2>1, <2>3, ParsedDuration DEF ReadBack
  <2>. QED
    BY <2>1, <2>4, Zenon DEF WithinAnHour, MovesByTheSkippedHour, BackLessThanAnHour
<1>4. CASE Pending /\ fire =< now /\ Close /\ UNCHANGED zone
  <2>1. CASE Rearm
    BY <1>4, <2>1, RearmWithinAnHour
  <2>2. CASE Finish
    BY <1>2, <2>2 DEF Finish
  <2>. QED
    BY <1>4, <2>1, <2>2, Zenon DEF Close
<1>5. CASE Resolve
  <2>1. Pending /\ fire =< now
    BY <1>5 DEF Resolve, Pending, IndInv, AheadInv
  <2>. QED
    BY <1>4, <1>5, <2>1 DEF Resolve
<1>6. CASE ComeUp
  <2>1. CASE Recent
    <3>1. /\ status' = IF status = "firing" THEN "armed" ELSE status
          /\ UNCHANGED <<zone, fire, asked, from>>
      BY <1>6, <2>1, Zenon DEF ComeUp
    <3>. QED
      BY <1>1, <3>1 DEF Pending
  <2>2. CASE ~ Recent
    <3>1. Pending /\ fire =< now
      BY <2>2, GivenUpIsPast DEF IndInv
    <3>2. Close /\ UNCHANGED zone
      BY <1>6, <2>2, Zenon DEF ComeUp
    <3>. QED
      BY <1>4, <3>1, <3>2
  <2>. QED
    BY <2>1, <2>2
<1>7. CASE Ring
  BY <1>1, <1>7 DEF Ring, Pending
<1>8. CASE GoDown \/ Tick \/ UNCHANGED vars
  <2>1. UNCHANGED <<zone, alarmVars>>
    BY <1>8 DEF GoDown, Tick, vars
  <2>. QED
    BY <1>1, <2>1 DEF alarmVars, Pending
<1>. QED
  BY <1>3, <1>5, <1>6, <1>7, <1>8, SetAtWithinAnHour DEF Next

-----------------------------------------------------------------------------
(* The theorems. *)

\* IndInv is an invariant: it holds at first and every step keeps it.
THEOREM Inductive == Spec => []IndInv
<1>1. Init => IndInv
  <2>1. ASSUME Init PROVE TypeOK
    <3>1. DayLength - 1 \in Nat
      BY DayIsPositive
    <3>2. /\ zone \in Zones /\ origin \in Origins /\ fire \in Nat
          /\ now \in 0 .. MaxTime /\ from \in 0 .. MaxTime /\ asked \in 0 .. DayLength - 1
      BY <2>1, <3>1, AlarmAssumption DEF Init
    <3>3. /\ up \in BOOLEAN /\ status \in {"none", "armed", "firing", "done"} /\ rec \in Recurrence
          /\ repeats \in BOOLEAN /\ said \in {Unsaid} \cup ClockPhrase \cup DurationPhrase
          /\ over \subseteq Nat /\ again \in BOOLEAN
      BY <2>1 DEF Init, Recurrence
    <3>. QED
      BY <3>2, <3>3 DEF TypeOK
  <2>2. ASSUME Init PROVE AheadInv /\ DaysInv /\ ArmedForTheNext /\ NoOccurrenceTwice
    <3>1. OnTheMinute(0) = 0
      BY MinuteAssumption, WholeMinutes
    <3>. QED
      BY <2>2, <3>1 DEF Init, AheadInv, DaysInv, ArmedForTheNext, NoOccurrenceTwice, Pending
  <2>. QED
    BY <2>1, <2>2 DEF IndInv
<1>2. IndInv /\ [Next]_vars => IndInv'
  BY SetAtKeeps, SetInKeeps, RingKeeps, ResolveKeeps, ComeUpKeeps, TimeKeeps DEF Next
<1>. QED
  BY <1>1, <1>2, PTL DEF Spec

\* Every variable keeps its type: _resolve and recover always find a next
\* occurrence that can be stored.
THEOREM TypeCorrect == Spec => []TypeOK
<1>1. IndInv => TypeOK
  BY DEF IndInv
<1>. QED
  BY <1>1, Inductive, PTL

\* In every zone and whatever was said, an alarm asked for outside the changing
\* hour is armed for the first instant at which the clock shows that time on a
\* day of the recurrence (_resolve, recover, next_occurrence, resolve_clock).
THEOREM AlwaysArmedForTheNext == Spec => []ArmedForTheNext
<1>1. IndInv => ArmedForTheNext
  BY DEF IndInv
<1>. QED
  BY <1>1, Inductive, PTL

\* However late an occurrence rang, behind other timers or in its grace, and
\* however often the router went down and came up, it does not ring again once
\* it is over, but in an hour that the clock goes through twice (_resolve and
\* recover move on to a later day).
THEOREM OverIsOver == Spec => []NoOccurrenceTwice
<1>1. IndInv => NoOccurrenceTwice
  BY DEF IndInv
<1>. QED
  BY <1>1, Inductive, PTL

\* What an alarm is set for is what was said: the hands show it, in the half of
\* the day that was said, and a bare time comes within half a day (parse_clock,
\* resolve_clock).
THEOREM AlwaysArmedAsSaid == Spec => []ArmedAsSaid
<1>1. Init => ArmedAsSaid
  BY DEF Init, ArmedAsSaid, Pending
<1>2. IndInv /\ ArmedAsSaid /\ [Next]_vars => ArmedAsSaid'
  BY SetAtAsSaid, AsSaidStays
<1>. QED
  BY <1>1, <1>2, Inductive, PTL DEF Spec

\* What _resolve and recover read back from the store is the time asked for, or
\* the hour after a skipped one: rearming never moves an alarm any further.
THEOREM NeverMovesFurther == Spec => []MovesByTheSkippedHour
<1>1. Init => WithinAnHour
  BY DEF Init, WithinAnHour, MovesByTheSkippedHour, BackLessThanAnHour, Pending
<1>2. WithinAnHour => MovesByTheSkippedHour
  BY DEF WithinAnHour
<1>. QED
  BY <1>1, <1>2, StaysWithinAnHour, Inductive, PTL DEF Spec

\* next_occurrence and resolve_clock never arm an alarm for an instant gone by,
\* but in the repeated hour, and there for less than an hour back.
THEOREM NeverFurtherBack == Spec => []BackLessThanAnHour
<1>1. Init => WithinAnHour
  BY DEF Init, WithinAnHour, MovesByTheSkippedHour, BackLessThanAnHour, Pending
<1>2. WithinAnHour => BackLessThanAnHour
  BY DEF WithinAnHour
<1>. QED
  BY <1>1, <1>2, StaysWithinAnHour, Inductive, PTL DEF Spec

=============================================================================
