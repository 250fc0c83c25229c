--------------------------- MODULE RecurringAlarm ---------------------------
(***************************************************************************)
(* One alarm or reminder of src/router/timers.py over the days around a    *)
(* change of the zone's offset: set by an utterance, for a clock time or   *)
(* after a duration, rung and rearmed by the scheduler, rung late or       *)
(* rearmed by recovery when the router was down.                           *)
(*                                                                         *)
(* The store keeps the alarm's instant and nothing of the clock time that  *)
(* was asked for: _resolve and recover read hour and minute back from the  *)
(* instant.  Other timers of the store are seen in one thing only: while   *)
(* one of them rings, this alarm is due and does not ring, for any time.   *)
(***************************************************************************)
EXTENDS SpokenTime

CONSTANTS
  Zones,      \* the zones a run tries
  Origins,    \* the weekdays of day 0 it tries
  Grace,      \* MISSED_GRACE_S
  MaxTime     \* bound: the last instant of a run

ASSUME AlarmAssumption ==
         /\ Zones \subseteq Zone /\ \A z \in Zones : z.change >= HourLength
         /\ Origins \subseteq Weekday /\ Grace \in Nat /\ MaxTime \in Nat

VARIABLES
  zone, origin,
  now,
  up,         \* the router is running
  status,     \* "none" before the alarm is set, then that of the row
  fire,       \* the stored instant
  rec,        \* the stored recurrence, and whether there is one
  repeats,
  asked,      \* history: the time of day that was asked for, to the minute
  said,       \* history: the phrase that the first fire_at was computed from
  from,       \* history: the instant at which fire was computed
  over,       \* history: the days of the occurrences that are rung or given up
  again       \* history: an occurrence rang that was over

alarmVars == <<status, fire, rec, repeats, asked, said, from>>
rings == <<over, again>>
vars == <<zone, origin, now, up, alarmVars, rings>>

LocalNow == Local(zone, now)

Unsaid == [rearmed |-> TRUE]    \* said, once the alarm has been rearmed

Pending == status \in {"armed", "firing"}

\* local.hour and local.minute of the stored instant
ReadBack == OnTheMinute(Local(zone, fire).tod)

\* An occurrence goes by the local day of its instant.
Occurrence == Local(zone, fire).day

TypeOK ==
  /\ zone \in Zones /\ origin \in Origins
  /\ now \in 0 .. MaxTime
  /\ up \in BOOLEAN
  /\ status \in {"none", "armed", "firing", "done"}
  /\ fire \in Nat
  /\ rec \in Recurrence
  /\ repeats \in BOOLEAN
  /\ asked \in 0 .. DayLength - 1
  /\ said \in {Unsaid} \cup ClockPhrase \cup DurationPhrase
  /\ from \in 0 .. MaxTime
  /\ over \subseteq Nat
  /\ again \in BOOLEAN

Init ==
  /\ zone \in Zones /\ origin \in Origins
  /\ now = 0
  /\ up = TRUE
  /\ status = "none"
  /\ fire = 0 /\ rec = EveryDay /\ repeats = FALSE
  /\ asked = 0 /\ said = Unsaid /\ from = 0
  /\ over = {} /\ again = FALSE

\* Without a recurrence every day is admitted and the alarm does not repeat.
SetRecurrence(r) ==
  /\ rec' = r
  /\ repeats' \in IF r = EveryDay THEN BOOLEAN ELSE {TRUE}

\* "set an alarm for <clock> [every ...]", "remind me to ... at <clock> ..."
SetAt ==
  /\ up
  /\ status = "none"
  /\ \E p \in ClockPhrase : \E clock \in ParseClock(p), r \in Recurrence :
       LET first == FirstFire(origin, clock.tod, clock.explicit, r, LocalNow)
       IN  /\ fire' = ToInstant(zone, first)
           /\ asked' = first.tod
           /\ said' = p
           /\ SetRecurrence(r)
  /\ status' = "armed"
  /\ from' = now
  /\ UNCHANGED <<zone, origin, now, up, rings>>

\* "set a timer for <duration>", "remind me to ... in <duration> [every ...]":
\* the first time comes after the duration, whatever the day and to the second.
SetIn ==
  /\ up
  /\ status = "none"
  /\ \E p \in DurationPhrase : \E d \in ParseDuration(p), r \in Recurrence :
       /\ fire' = now + d
       /\ asked' = OnTheMinute(Local(zone, now + d).tod)
       /\ said' = p
       /\ SetRecurrence(r)
  /\ status' = "armed"
  /\ from' = now
  /\ UNCHANGED <<zone, origin, now, up, rings>>

\* Mutant: a day is 24 hours.
RearmByADay ==
  /\ status' = "armed"
  /\ fire' = fire + DayLength
  /\ from' = now
  /\ said' = Unsaid
  /\ UNCHANGED <<rec, repeats, asked>>

\* _resolve and recover: read the clock time back, find the next one, store it
Rearm ==
  /\ status' = "armed"
  /\ fire' = ToInstant(zone, NextOccurrence(origin, LocalNow, ReadBack, rec))
  /\ from' = now
  /\ said' = Unsaid
  /\ UNCHANGED <<rec, repeats, asked>>

Finish ==
  /\ status' = "done"
  /\ UNCHANGED <<fire, rec, repeats, asked, said, from>>

Close ==
  /\ over' = over \cup {Occurrence}
  /\ IF repeats THEN Rearm ELSE Finish

\* _fire, however late: the scheduler rings one timer at a time, in the order
\* of their instants.
Ring ==
  /\ up
  /\ status = "armed"
  /\ fire =< now
  /\ status' = "firing"
  /\ again' = (again \/ Occurrence \in over)
  /\ UNCHANGED <<zone, origin, now, up, fire, rec, repeats, asked, said, from, over>>

\* _resolve, when the alarm is acknowledged or has rung to the end
Resolve ==
  /\ up
  /\ status = "firing"
  /\ Close
  /\ UNCHANGED <<zone, origin, now, up, again>>

GoDown ==
  /\ up
  /\ up' = FALSE
  /\ UNCHANGED <<zone, origin, now, alarmVars, rings>>

\* recover: neither an alarm that is ahead nor one in its grace is touched
Recent == ~ Pending \/ now - fire =< Grace

\* recover(): what was firing is armed again, and an occurrence past its grace
\* is given up.
ComeUp ==
  /\ ~ up
  /\ up' = TRUE
  /\ IF Recent
       THEN /\ status' = IF status = "firing" THEN "armed" ELSE status
            /\ UNCHANGED <<fire, rec, repeats, asked, said, from, over>>
       ELSE Close
  /\ UNCHANGED <<zone, origin, now, again>>

Tick ==
  /\ now < MaxTime
  /\ now' = now + 1
  /\ UNCHANGED <<zone, origin, up, alarmVars, rings>>

Next == SetAt \/ SetIn \/ Ring \/ Resolve \/ GoDown \/ ComeUp \/ Tick

Spec == Init /\ [][Next]_vars

-----------------------------------------------------------------------------

\* What the clock shows, counted from day 0.
Wall(i) == Local(zone, i).day * DayLength + Local(zone, i).tod

\* The readings that the change of offset skips or shows twice are the hour
\* from here on; a time of day may be that of one of them.
ChangeOnTheWall(z) == z.change + (IF z.before < z.after THEN z.before ELSE z.after)

InTheChange(z, tod) ==
  /\ z.before # z.after
  /\ \E k \in 0 .. HourLength - 1 : (ChangeOnTheWall(z) + k) % DayLength = tod

\* A second of the minute that was asked for is in that hour.
AskedInTheChange == \E s \in 0 .. MinuteLength - 1 : InTheChange(zone, asked + s)

\* What a listener expects: the first instant after i at which the clock shows
\* the time asked for on a day of the recurrence.
Expected(i) ==
  LET ok == {j \in i + 1 .. i + 9 * DayLength :
               /\ Local(zone, j).tod = asked
               /\ RecurrenceMatches(origin, Local(zone, j).day, rec)}
  IN  CHOOSE j \in ok : \A k \in ok : j =< k

\* An alarm outside the changing hour is always armed for the occurrence that
\* comes first, across the change too: next_occurrence and resolve_clock work
\* on readings, the stored instant moves by the hour that the clock does.
\* Only the first time of a reminder set for "in ..." is exempt from its
\* recurrence (timeparse.py:301).
ArmedForTheNext ==
  Pending /\ said \notin DurationPhrase /\ ~ AskedInTheChange =>
    fire = Expected(from)

\* The alarm was set for what was said: a clock shows it then, in the half of
\* the day that was said; and a bare time that does not recur comes within
\* half a day ("next occurrence within 12 hours", timeparse.py:184).
ArmedAsSaid ==
  Pending /\ said \in ClockPhrase =>
    /\ Shows(asked, said)
    /\ ~ AskedInTheChange => Local(zone, fire).tod = asked
    /\ (said.meridiem = "none" /\ said.hour =< HalfDayHours /\ ~ repeats /\ ~ AskedInTheChange)
         => Wall(fire) - Wall(from) =< HalfDay

\* An occurrence that is over does not ring again: however late it rang behind
\* other timers or in its grace, past midnight too, whatever seconds it was set
\* with, and whenever the router went down and came up, _resolve and recover
\* move on to a later day.  Only an alarm asked for in an hour that the clock
\* goes through twice may be found again by next_occurrence.
NoOccurrenceTwice == (AskedInTheChange /\ zone.after < zone.before) \/ ~ again

\* "a 7 am weekday alarm stays 7 am across DST changes" (spec :86-87): on any
\* day but that of the change itself the alarm is armed for the hour and
\* minute asked.
BackOnItsTime ==
  Pending /\ Occurrence # Local(zone, zone.change).day => ReadBack = asked

\* next_occurrence: "First LOCAL_TZ datetime strictly after `after`"
\* (timeparse.py:226), so an alarm is never armed for an instant gone by.
ArmedAhead == Pending => from < fire

\* What is left of BackOnItsTime: the hour and minute that _resolve and recover
\* read back are never wrong by more than the skipped hour.  An alarm asked for
\* in that hour moves once, to the hour after it, and stays there from the
\* change on, however often it is rearmed; every other alarm keeps its time of
\* day, but for the seconds of one that was set by a duration.
MovesByTheSkippedHour ==
  Pending =>
    \/ ReadBack = asked
    \/ /\ AskedInTheChange /\ zone.before < zone.after
       /\ zone.change =< fire
       /\ ReadBack = (asked + HourLength) % DayLength

\* What is left of ArmedAhead: an alarm is armed for an instant gone by only
\* in the second pass through a repeated hour, asked for in that hour, and for
\* less than an hour back in the first pass (astimezone with fold 0).
BackLessThanAnHour ==
  Pending =>
    \/ from < fire
    \/ /\ AskedInTheChange /\ zone.after < zone.before
       /\ fire < zone.change /\ zone.change =< from
       /\ from - fire < HourLength

=============================================================================
