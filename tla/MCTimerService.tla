--------------------------- MODULE MCTimerService ---------------------------
(* Small instances of TimerService for TLC. *)
EXTENDS TimerRefinement, TLC

\* The wall clock without a change of offset: the first instant after n at
\* f's time of day.  (RecurringAlarm models the days and the offset changes.)
MCNextOccurrence(f, n) ==
  CHOOSE i \in n + 1 .. n + DayLength : i % DayLength = f % DayLength

CONSTANTS t1, t2, h1, h2

\* One one-shot alarm beside one daily alarm.
MCKindOf == [t \in Timer |-> "alarm"]
MCRecurring == {t2}

\* Requests are alike.
MCSymmetry == Permutations({h1, h2})

=============================================================================
