-------------------------- MODULE MCRecurringAlarm --------------------------
(* Small instances of RecurringAlarm: a day of 4 hours, an hour of 2       *)
(* minutes, a minute of 2 units; the second hour of day 1 is skipped, or   *)
(* shown twice.                                                            *)
EXTENDS RecurringAlarmInv

MCSpring == [change |-> 20, before |-> 0, after |-> HourLength]
MCFall == [change |-> 20, before |-> HourLength, after |-> 0]
MCSteady == [change |-> 20, before |-> 0, after |-> 0]

MCAllZones == {MCSpring, MCFall, MCSteady}
MCOneSpring == {MCSpring}
MCOneFall == {MCFall}

=============================================================================
