----------------------------- MODULE CivilTime -----------------------------
(***************************************************************************)
(* The calendar arithmetic of src/router/timeparse.py in a zone whose      *)
(* offset changes once (LOCAL_TZ around one change of daylight saving).    *)
(*                                                                         *)
(* An instant is a number of units of UTC time.  A datetime in LOCAL_TZ is *)
(* a reading of the wall clock, [day, tod]: this is all that Python looks  *)
(* at when it compares two datetimes of the same tzinfo (the offsets and   *)
(* the fold are ignored).                                                  *)
(***************************************************************************)
EXTENDS Integers

CONSTANTS
  MinuteLength, \* units in a minute
  HourMinutes,  \* minutes in an hour
  HourLength,   \* units in an hour, the amount the offset changes by
  HalfDayHours  \* hours in half a day: 12 on a real clock

ASSUME CivilAssumption ==
         HourLength \in Nat \ {0} /\ HalfDayHours \in Nat \ {0}

ASSUME MinuteAssumption ==
         /\ MinuteLength \in Nat \ {0} /\ HourMinutes \in Nat \ {0}
         /\ HourLength = HourMinutes * MinuteLength

HalfDay == HourLength * HalfDayHours

DayLength == 2 * HalfDay

\* A zone: the offset is before up to the instant change, after from then on.
Zone == [change : Nat, before : {0, HourLength}, after : {0, HourLength}]

Reading == [day : Nat, tod : 0 .. DayLength - 1]

\* d1 < d2 of two datetimes of one tzinfo
Earlier(r, s) == r.day < s.day \/ (r.day = s.day /\ r.tod < s.tod)

-----------------------------------------------------------------------------
(* Python's conversions between UTC and the zone. *)

Offset(z, i) == IF i < z.change THEN z.before ELSE z.after

Larger(a, b) == IF a < b THEN b ELSE a

\* .astimezone(LOCAL_TZ)
Local(z, i) ==
  LET wall == i + Offset(z, i)
  IN  [day |-> wall \div DayLength, tod |-> wall % DayLength]

\* .astimezone(UTC) of a datetime made by combine, whose fold is 0: the old
\* offset up to the end of a skipped hour and of the first pass through a
\* repeated one.
InstantOfWall(z, wall) ==
  IF wall < z.change + Larger(z.before, z.after) THEN wall - z.before
                                                 ELSE wall - z.after

ToInstant(z, r) == InstantOfWall(z, r.day * DayLength + r.tod)

\* datetime.combine(date, time(dt.hour, dt.minute)): the seconds of dt are gone.
OnTheMinute(tod) == tod - (tod % MinuteLength)

-----------------------------------------------------------------------------
(* Recurrences.  A recurrence is the set of weekdays it admits, 0 = Monday *)
(* (none and daily admit all of them).                                     *)

Weekday == 0 .. 6

EveryDay == Weekday

Recurrence == {EveryDay, 0 .. 4, 5 .. 6} \cup {{n} : n \in Weekday}

\* _recurrence_matches; origin is the weekday of day 0
RecurrenceMatches(origin, day, rec) == ((origin + day) % 7) \in rec

\* cand >= after, of the mutant below
NotLater(r, s) == r.day < s.day \/ (r.day = s.day /\ r.tod =< s.tod)

\* The candidates next_occurrence tries, by their distance in days.
Candidate(after, tod, days) == [day |-> after.day + days, tod |-> tod]

\* Mutant: today counts at the very minute.
HitsNow(origin, after, tod, rec) ==
  {days \in 0 .. 8 : /\ NotLater(after, Candidate(after, tod, days))
                     /\ RecurrenceMatches(origin, after.day + days, rec)}

Hits(origin, after, tod, rec) ==
  {days \in 0 .. 8 : /\ Earlier(after, Candidate(after, tod, days))
                     /\ RecurrenceMatches(origin, after.day + days, rec)}

FirstHit(hits) == CHOOSE d \in hits : \A e \in hits : d =< e

NextOccurrence(origin, after, tod, rec) ==
  Candidate(after, tod, FirstHit(Hits(origin, after, tod, rec)))

-----------------------------------------------------------------------------
(* resolve_clock *)

\* Mutant: "bare 12" gives 12:00 and 24:00.
BareClocksNoMod(tod) ==
  IF tod \div HourLength > HalfDayHours THEN {tod} ELSE {tod, tod + HalfDay}

\* "bare 7": both 7:00 and 19:00; "bare 14": only 14:00
BareClocks(tod) ==
  IF tod \div HourLength > HalfDayHours
    THEN {tod}
    ELSE {tod % HalfDay, (tod % HalfDay) + HalfDay}

ResolveClock(tod, explicit, now) ==
  LET clocks == IF explicit THEN {tod} ELSE BareClocks(tod)
      ahead  == {c \in {Candidate(now, t, d) : t \in clocks, d \in 0 .. 1} :
                   Earlier(now, c)}
  IN  CHOOSE c \in ahead : \A e \in ahead : ~ Earlier(e, c)

\* parse: an alarm or an at-reminder whose first day does not match its
\* recurrence moves on to the next one that does.
FirstFire(origin, tod, explicit, rec, now) ==
  LET fire == ResolveClock(tod, explicit, now)
  IN  IF RecurrenceMatches(origin, fire.day, rec)
        THEN fire
        ELSE NextOccurrence(origin, now, fire.tod, rec)

=============================================================================
