--------------------------- MODULE RecurringAlarmInv ---------------------------
(***************************************************************************)
(* The inductive invariant behind the safety of RecurringAlarm.            *)
(***************************************************************************)
EXTENDS RecurringAlarm

\* The alarm was asked for in an hour that the clock goes through twice.
AskedTwice == AskedInTheChange /\ zone.after < zone.before

\* A pending alarm was ahead of the moment at which it was armed; its hour and
\* minute are those asked for, and only a first time set by a duration has
\* seconds.
AheadInv ==
  /\ from =< now
  /\ OnTheMinute(asked) = asked
  /\ status = "firing" => fire =< now
  /\ Pending =>
       /\ ~ AskedTwice => from < fire
       /\ ~ AskedInTheChange => ReadBack = asked
       /\ ~ AskedInTheChange /\ said \notin DurationPhrase => Local(zone, fire).tod = asked

\* The day on which it is to ring is after those whose occurrences are over.
DaysInv ==
  /\ status = "none" => over = {} /\ ~ again
  /\ Pending /\ ~ AskedTwice => \A day \in over : day < Occurrence

IndInv == TypeOK /\ AheadInv /\ DaysInv /\ ArmedForTheNext /\ NoOccurrenceTwice

=============================================================================
