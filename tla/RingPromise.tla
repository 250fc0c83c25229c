------------------------------ MODULE RingPromise ------------------------------
(***************************************************************************)
(* What the ringing of a timer promises (Scheduler._fire of                *)
(* src/router/timers.py), told without the table, the connections and the  *)
(* satellites: it is announced until somebody acknowledges it or           *)
(* MaxRepeats announcements are out, and nothing but the end of the        *)
(* process cuts it short.                                                  *)
(*                                                                         *)
(* The repeat loop is in two of the compositions: in TimerService, with    *)
(* the table and the requests beside it, and in Announcements, with the    *)
(* push channel and the satellites.  Both implement this.                  *)
(***************************************************************************)
EXTENDS Naturals

CONSTANTS
  Timer,       \* what can ring
  NoTimer,     \* nothing rings
  MaxRepeats   \* ANNOUNCE_MAX_REPEATS

VARIABLES
  ringing,     \* the timer that rings, or NoTimer
  calls,       \* its announcements so far
  calling,     \* one of them is going out
  silenced,    \* it is acknowledged
  deaths       \* how often the process has died

ringVars == <<ringing, calls, calling, silenced>>
promiseVars == <<ringVars, deaths>>

Quiet == ringing = NoTimer /\ calls = 0 /\ ~ calling /\ ~ silenced

Init == Quiet /\ deaths = 0

Begin(t) ==
  /\ ringing = NoTimer
  /\ ringing' = t
  /\ UNCHANGED <<calls, calling, silenced, deaths>>

Call ==
  /\ ringing # NoTimer
  /\ ~ calling
  /\ calls < MaxRepeats
  /\ calls' = calls + 1
  /\ calling' = TRUE
  /\ UNCHANGED <<ringing, silenced, deaths>>

\* The loop goes on only while nobody has acknowledged: an announcement that
\* crosses an ack is the last.
Pause ==
  /\ calling
  /\ ~ silenced
  /\ calling' = FALSE
  /\ UNCHANGED <<ringing, calls, silenced, deaths>>

Silence ==
  /\ ringing # NoTimer
  /\ silenced' = TRUE
  /\ UNCHANGED <<ringing, calls, calling, deaths>>

\* Never before an ack or the last announcement.
End ==
  /\ ringing # NoTimer
  /\ silenced \/ calls = MaxRepeats
  /\ Quiet'
  /\ UNCHANGED deaths

Die == Quiet' /\ deaths' = deaths + 1

Next == (\E t \in Timer : Begin(t)) \/ Call \/ Pause \/ Silence \/ End \/ Die

Spec == Init /\ [][Next]_promiseVars

=============================================================================
