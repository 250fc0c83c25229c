---------------------------- MODULE TimerService ----------------------------
(***************************************************************************)
(* The router's timer service: the scheduler, the requests that are served *)
(* beside it, the clock, and the process that can die and be started again *)
(* (lifespan of src/router/router.py).                                     *)
(***************************************************************************)
EXTENDS TimerRequests

CONSTANT MaxCrashes    \* bound: how often the process dies in a run

ASSUME ServiceAssumption == MaxCrashes \in Nat

VARIABLE crashes

vars == <<storeVars, schedVars, requestVars, crashes>>

TypeOK ==
  /\ StoreTypeOK
  /\ SchedTypeOK
  /\ RequestsTypeOK
  /\ crashes \in 0 .. MaxCrashes

Init ==
  /\ StoreInit
  /\ SchedInit
  /\ RequestsInit
  /\ crashes = 0

-----------------------------------------------------------------------------

Tick ==
  /\ now < MaxTime
  /\ now' = now + 1
  /\ UNCHANGED <<storeVars, wake, spc, ringVars, faults, recVars,
                 requestVars, crashes>>

\* The process dies at any of its awaits (or is shut down: the lifespan
\* cancels the scheduler task where it stands and closes the connection).
Crash ==
  /\ spc # "down"
  /\ crashes < MaxCrashes
  /\ crashes' = crashes + 1
  /\ spc' = "down"
  /\ LoseUncommitted
  /\ wake' = FALSE
  /\ cur' = NoTimer /\ rep' = 0 /\ acked' = FALSE /\ late' = 0
  /\ recNow' = 0 /\ stale' = {}
  /\ DropRequests
  /\ UNCHANGED <<now, rung, missed, faults, historyVars>>

\* The lifespan opens the store and begins recover().
Restart ==
  /\ spc = "down"
  /\ spc' = "recFiring"
  /\ UNCHANGED <<storeVars, now, wake, ringVars, faults, recVars,
                 requestVars, crashes>>

-----------------------------------------------------------------------------

SchedNext == SchedStep \/ RecoverStep \/ Ack \/ SchedFault

HandlerNext(h) ==
  SetInsert(h) \/ CancelSelect(h) \/ HandlerStep(h) \/ HandlerFault(h)

Next ==
  \/ SchedNext /\ UNCHANGED <<requestVars, crashes>>
  \/ \E h \in Handler : HandlerNext(h) /\ UNCHANGED crashes
  \/ Tick
  \/ Crash
  \/ Restart

Spec == Init /\ [][Next]_vars

(***************************************************************************)
(* Fairness: the event loop resumes every coroutine whose await is over,   *)
(* and time passes.  Nobody has to speak to the router, acknowledge an     *)
(* announcement, or start the process again after it died.                 *)
(***************************************************************************)
Fairness ==
  /\ WF_vars(SchedStep /\ UNCHANGED <<requestVars, crashes>>)
  /\ WF_vars(RecoverStep /\ UNCHANGED <<requestVars, crashes>>)
  /\ \A h \in Handler : WF_vars(HandlerStep(h) /\ UNCHANGED crashes)
  /\ WF_vars(Tick)

FairSpec == Spec /\ Fairness

-----------------------------------------------------------------------------
(* What the service promises.                                              *)

\* A row that a request still has to announce to the scheduler.
WakePending(t) ==
  \E h \in Handler : t \in batch[h] /\ hpc[h] \in {"setCommit", "setReply"}

\* The scheduler never sleeps through a timer: whatever was inserted or
\* rearmed between its SELECT and its wait, either the wait ends no later
\* than the timer is due, or the event that ends it is set or about to be
\* (_tick's use of wake against the wake.set() of handle_timer).  Only a row
\* whose request failed between its INSERT and its wake is left out.
NoLostWakeup ==
  spc \in {"decide", "sleep"} =>
    \A t \in ByStatus("armed") \ orphan :
      \/ wake
      \/ WakePending(t)
      \/ cur # NoTimer /\ db[cur].fire =< db[t].fire

\* A timer the user heard confirmed is in the file and stays there, through
\* any crash, restart or failed operation (add commits before the answer).
ConfirmedIsDurable == \A t \in confirmed : disk[t].status # "absent"

\* No occurrence goes unaccounted for: a one-shot is 'done' only after it was
\* announced or recovery logged it as missed ...
DoneIsAccounted ==
  \A t \in Timer : disk[t].status = "done" => <<t, disk[t].fire>> \in Accounted

\* ... and a recurring timer moves on to another fire_at only after its old
\* occurrence was announced, or given up by recovery as past its grace, which
\* recovery does without a word in the log (_resolve, recover).
OccurrenceStep ==
  \A t \in Timer :
    disk[t].status # "absent" /\ disk'[t].fire # disk[t].fire =>
      <<t, disk[t].fire>> \in Accounted'

OccurrencesAccounted == [][OccurrenceStep]_vars

\* What is settled stays settled: no step, recovery included, brings a 'done'
\* row back to life, though the scheduler and the requests write rows by id
\* from what they read several awaits before.
SettledStep ==
  \A t \in Timer :
    disk[t].status = "done" => disk'[t].status \in {"done", "cancelled"}

SettledStaysSettled == [][SettledStep]_vars

\* A cancel that did not cross the scheduler (it wrote each row while the
\* scheduler held another one) is final: the row is 'cancelled' for good, in
\* the table and in the file.
UncontestedCancelSticks ==
  \A t \in sealed : db[t].status = "cancelled" /\ disk[t].status = "cancelled"

\* As long as no database operation fails, a row is 'firing' only while the
\* scheduler is ringing it, or until recovery has re-armed it.
NoStrandedFiring ==
  faults = 0 =>
    \A t \in ByStatus("firing") :
      \/ spc \in Ringing /\ cur = t
      \/ spc \in {"down", "recFiring"}

\* After an ack at most one more announcement goes out, the one whose
\* interval ended in the same round of the event loop.
AtMostOneAfterAck == late =< 1

\* The row of a timer that is overdue and that the scheduler was told of.
Owed(t) == db[t].status = "armed" /\ t \notin orphan /\ Due(t)

\* Every timer that is due is rung, rearmed, cancelled or given up by
\* recovery in the end, however long others ring before it.
DueTimersSettle == \A t \in Timer : Owed(t) ~> ~ Owed(t) \/ spc = "down"

\* "On ack (or repeat exhaustion): one-shots -> done; recurring -> ... armed"
\* (docs/superpowers/specs/2026-07-12-phase2-openbrain-timers-design.md:80).
FiringSettles ==
  \A t \in Timer :
    db[t].status = "firing" ~> db[t].status # "firing" \/ spc = "down"

\* "Cancelled your ...": a timer that the user was told is cancelled is not
\* armed and does not ring (handle_timer's answer, timers.py:417; the
\* scheduler may be holding the row, and writes it without looking again).
CancelSticks == \A t \in told : disk[t].status \notin {"armed", "firing"}

=============================================================================
