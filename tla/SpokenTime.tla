----------------------------- MODULE SpokenTime -----------------------------
(***************************************************************************)
(* What the times and durations of an utterance mean (parse_clock,         *)
(* parse_duration and the set branches of parse, src/router/timeparse.py). *)
(* The words are abstracted to the numbers and markers they stand for; an  *)
(* utterance that is not understood changes nothing, so an operator that   *)
(* returns None in the code returns the empty set here.                    *)
(***************************************************************************)
EXTENDS CivilTime

\* "7", "7:30", "7 am", "19:30"; "noon" is 12 pm, "midnight" 12 am.
ClockPhrase ==
  [hour : 0 .. 2 * HalfDayHours, minute : 0 .. HourMinutes,
   meridiem : {"none", "am", "pm"}]

\* Mutant: 12 am is taken for noon.
Hour24NoModulo(p) ==
  IF p.meridiem = "none" THEN p.hour
                         ELSE p.hour + (IF p.meridiem = "pm" THEN HalfDayHours ELSE 0)

\* hour % 12 + (12 if pm)
Hour24(p) ==
  IF p.meridiem = "none" THEN p.hour
                         ELSE (p.hour % HalfDayHours)
                              + (IF p.meridiem = "pm" THEN HalfDayHours ELSE 0)

\* parse_clock: a time of day, and whether am or pm was said.
ParseClock(p) ==
  {c \in [tod : {Hour24(p) * HourLength + p.minute * MinuteLength}, explicit : {p.meridiem # "none"}] :
     /\ p.hour < 2 * HalfDayHours
     /\ p.minute < HourMinutes
     /\ c.explicit => 1 =< p.hour /\ p.hour =< HalfDayHours}

\* "two hours", "an hour and a half", "half an hour"
DurationPhrase == [hours : 0 .. 2 * HalfDayHours + 1, half : BOOLEAN]

\* parse_duration with _checked: more than nothing, at most a day.
ParseDuration(p) ==
  {d \in {p.hours * HourLength + (IF p.half THEN HourLength \div 2 ELSE 0)} :
     0 < d /\ d =< DayLength}

\* A clock that shows time of day tod shows what was said: the hands of a
\* 12-hour clock in the right half of the day, or a 24-hour display.
Shows(tod, p) ==
  LET hour == tod \div HourLength
  IN  /\ tod % HourLength = p.minute * MinuteLength
      /\ IF p.hour > HalfDayHours THEN hour = p.hour
                                  ELSE hour \in {p.hour, p.hour + HalfDayHours, p.hour - HalfDayHours}
      /\ p.meridiem = "am" => tod < HalfDay
      /\ p.meridiem = "pm" => tod >= HalfDay

=============================================================================
