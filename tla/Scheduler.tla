------------------------------ MODULE Scheduler ------------------------------
(***************************************************************************)
(* The scheduler task and the restart recovery of src/router/timers.py.    *)
(*                                                                         *)
(* The router is one asyncio event loop: a coroutine runs undisturbed from *)
(* one await to the next, and other coroutines run while it awaits.  spc   *)
(* is the await the scheduler stands at:                                   *)
(*                                                                         *)
(*   "read"          about to SELECT the armed rows (next_armed)           *)
(*   "decide"        holds the answer, cur, possibly no longer true        *)
(*   "sleep"         in wake.wait(), with a timeout if cur is a timer      *)
(*   "fire"          about to UPDATE cur to 'firing'                       *)
(*   "fireCommit"    about to commit that                                  *)
(*   "announce"      about to broadcast the announcement number rep + 1    *)
(*   "sending"       inside the broadcast                                  *)
(*   "ackWait"       in wait_for(ev.wait(), interval)                      *)
(*   "resolve"       about to write what becomes of cur                    *)
(*   "resolveCommit" about to commit that                                  *)
(*   "retry"         in the sleep after a failed tick                      *)
(*   "down"          the process is not running                            *)
(*   "recFiring", "recArmed"   recover(), before the tasks are started     *)
(*                                                                         *)
(* Abstracted: the 30 s between announcements is a step that may happen    *)
(* after any amount of time (so every schedule the interval allows is      *)
(* here, and some slower and faster ones).                                 *)
(***************************************************************************)
EXTENDS TimerStore

CONSTANTS
  MaxRepeats,   \* ANNOUNCE_MAX_REPEATS
  Grace,        \* MISSED_GRACE_S
  MaxFaults     \* bound: database operations that fail in a run

ASSUME SchedulerAssumption ==
         MaxRepeats \in Nat \ {0} /\ Grace \in Nat /\ MaxFaults \in Nat

VARIABLES
  now,      \* utcnow()
  wake,     \* Scheduler.wake.is_set()
  spc,      \* the await the scheduler stands at
  cur,      \* nxt in _tick, t in _fire and _resolve
  rep,      \* announcements of this ringing that were begun
  acked,    \* the ack event of this ringing is set
  late,     \* announcements begun after the ack was set
  rung,     \* history: <<timer, fire_at>> of every occurrence announced
  missed,   \* history: <<timer, fire_at>> that recovery gave up as missed
  faults,   \* database operations that failed
  recNow,   \* recover()'s one reading of the clock
  stale     \* rows that recover() has still to write in its second loop

ringVars == <<cur, rep, acked, late, rung>>
recVars == <<missed, recNow, stale>>
schedVars == <<now, wake, spc, ringVars, faults, recVars>>

Ringing == {"fireCommit", "announce", "sending", "ackWait", "resolve"}

\* An Event for cur is in self._acks.
AckRegistered == spc \in {"announce", "sending", "ackWait"}

SchedTypeOK ==
  /\ now \in Clock
  /\ wake \in BOOLEAN
  /\ spc \in Ringing \cup {"read", "decide", "sleep", "fire", "resolveCommit",
                           "retry", "down", "recFiring", "recArmed"}
  /\ cur \in Timer \cup {NoTimer}
  /\ rep \in 0 .. MaxRepeats
  /\ acked \in BOOLEAN
  /\ late \in 0 .. MaxRepeats
  /\ rung \subseteq Timer \X Instant
  /\ missed \subseteq Timer \X Instant
  /\ faults \in 0 .. MaxFaults
  /\ recNow \in Clock
  /\ stale \subseteq Timer

SchedInit ==
  /\ now = 0
  /\ wake = FALSE
  /\ spc = "read"
  /\ cur = NoTimer /\ rep = 0 /\ acked = FALSE /\ late = 0
  /\ rung = {} /\ missed = {}
  /\ faults = 0
  /\ recNow = 0 /\ stale = {}

Due(t) == db[t].fire =< now

\* The occurrences that were announced or given up as missed.
Accounted == rung \cup missed

-----------------------------------------------------------------------------
(* _tick *)

\* Mutant: the SELECT leaves out the 'done' rows only.
SchedReadNotDone ==
  /\ spc = "read"
  /\ LET live == {t \in Timer : db[t].status \notin {"absent", "done"}}
     IN  IF live = {} THEN cur' = NoTimer ELSE cur' \in Soonest(live)
  /\ spc' = "decide"
  /\ UNCHANGED <<storeVars, now, wake, rep, acked, late, rung, faults, recVars>>

\* nxt = await self._store.next_armed()
SchedRead ==
  /\ spc = "read"
  /\ IF ByStatus("armed") = {} THEN cur' = NoTimer
                               ELSE cur' \in Soonest(ByStatus("armed"))
  /\ spc' = "decide"
  /\ UNCHANGED <<storeVars, now, wake, rep, acked, late, rung, faults, recVars>>

\* delay > 0, or there is no timer at all
MustWait == cur # NoTimer => ~ Due(cur)

\* delay <= 0: straight to _fire
SchedGoFire ==
  /\ spc = "decide"
  /\ ~ MustWait
  /\ spc' = "fire"
  /\ UNCHANGED <<storeVars, now, wake, ringVars, faults, recVars>>

\* Mutant: the event is cleared before the wait instead of after it.
SleepClearingFirst ==
  /\ spc = "decide"
  /\ MustWait
  /\ wake' = FALSE
  /\ spc' = "sleep"
  /\ UNCHANGED <<storeVars, now, ringVars, faults, recVars>>

\* wake.wait() suspends, as the event is not set
SchedSleep ==
  /\ spc = "decide"
  /\ MustWait
  /\ ~ wake
  /\ spc' = "sleep"
  /\ UNCHANGED <<storeVars, now, wake, ringVars, faults, recVars>>

\* wake.wait() returns, at once or after a sleep; the event is cleared and
\* the table is read again
SchedWake ==
  /\ \/ spc = "decide" /\ MustWait
     \/ spc = "sleep"
  /\ wake
  /\ wake' = FALSE
  /\ spc' = "read"
  /\ cur' = NoTimer
  /\ UNCHANGED <<storeVars, now, rep, acked, late, rung, faults, recVars>>

\* wait_for gives up: cur is due.  The timeout wins even over an event that
\* was set in the same round of the event loop.
SchedTimeout ==
  /\ spc = "sleep"
  /\ cur # NoTimer
  /\ Due(cur)
  /\ spc' = "fire"
  /\ UNCHANGED <<storeVars, now, wake, ringVars, faults, recVars>>

-----------------------------------------------------------------------------
(* _fire *)

FireWrite ==
  /\ spc = "fire"
  /\ SetStatus(cur, "firing")
  /\ spc' = "fireCommit"
  /\ UNCHANGED <<disk, now, wake, ringVars, faults, recVars>>

\* ... commit; a new Event for the ack is registered
FireCommit ==
  /\ spc = "fireCommit"
  /\ Commit
  /\ spc' = "announce"
  /\ rep' = 0 /\ acked' = FALSE /\ late' = 0
  /\ UNCHANGED <<db, now, wake, cur, rung, faults, recVars>>

Announce ==
  /\ spc = "announce"
  /\ spc' = "sending"
  /\ rep' = rep + 1
  /\ late' = IF acked THEN late + 1 ELSE late
  /\ rung' = rung \cup {<<cur, db[cur].fire>>}
  /\ UNCHANGED <<storeVars, now, wake, cur, acked, faults, recVars>>

\* Mutant: the loop goes on waiting although the event is set.
AnnounceSentNoLook ==
  /\ spc = "sending"
  /\ spc' = "ackWait"
  /\ UNCHANGED <<storeVars, now, wake, ringVars, faults, recVars>>

\* The broadcast returns; an ack that is already there ends the loop.
AnnounceSent ==
  /\ spc = "sending"
  /\ spc' = IF acked THEN "resolve" ELSE "ackWait"
  /\ UNCHANGED <<storeVars, now, wake, ringVars, faults, recVars>>

AckSeen ==
  /\ spc = "ackWait"
  /\ acked
  /\ spc' = "resolve"
  /\ UNCHANGED <<storeVars, now, wake, ringVars, faults, recVars>>

\* Mutant: one repeat too many.
IntervalOffByOne ==
  /\ spc = "ackWait"
  /\ spc' = IF rep =< MaxRepeats THEN "announce" ELSE "resolve"
  /\ UNCHANGED <<storeVars, now, wake, ringVars, faults, recVars>>

\* Mutant: range(1, max_repeats), one repeat too few.
IntervalTooFew ==
  /\ spc = "ackWait"
  /\ spc' = IF rep + 1 < MaxRepeats THEN "announce" ELSE "resolve"
  /\ UNCHANGED <<storeVars, now, wake, ringVars, faults, recVars>>

\* Mutant: an exhausted loop returns without _resolve.
IntervalNoResolve ==
  /\ spc = "ackWait"
  /\ spc' = IF rep < MaxRepeats THEN "announce" ELSE "read"
  /\ UNCHANGED <<storeVars, now, wake, ringVars, faults, recVars>>

\* The interval is over: announce again, unless that was the last repeat.
Interval ==
  /\ spc = "ackWait"
  /\ spc' = IF rep < MaxRepeats THEN "announce" ELSE "resolve"
  /\ UNCHANGED <<storeVars, now, wake, ringVars, faults, recVars>>

\* Scheduler.ack: an ack frame of a satellite.  The event id is the timer's
\* id, the same for each of its occurrences, so the frame may be an answer to
\* an earlier one.
Ack ==
  /\ AckRegistered
  /\ ~ acked
  /\ \E f \in Instant : <<cur, f>> \in rung
  /\ acked' = TRUE
  /\ UNCHANGED <<storeVars, now, wake, spc, cur, rep, late, rung, faults, recVars>>

-----------------------------------------------------------------------------
(* _resolve *)

Resolve ==
  /\ spc = "resolve"
  /\ IF cur \in Recurring
       THEN Rearm(cur, NextOccurrence(db[cur].fire, now))
       ELSE SetStatus(cur, "done")
  /\ spc' = "resolveCommit"
  /\ UNCHANGED <<disk, now, wake, ringVars, faults, recVars>>

\* Mutant: the next tick works on the timer of this one.
ResolveCommitKeepsTimer ==
  /\ spc = "resolveCommit"
  /\ Commit
  /\ spc' = "decide"
  /\ UNCHANGED <<db, now, wake, ringVars, faults, recVars>>

ResolveCommit ==
  /\ spc = "resolveCommit"
  /\ Commit
  /\ spc' = "read"
  /\ cur' = NoTimer /\ rep' = 0 /\ acked' = FALSE /\ late' = 0
  /\ UNCHANGED <<db, now, wake, rung, faults, recVars>>

-----------------------------------------------------------------------------
(* run: any exception of a tick is logged and the tick is tried again.     *)

\* A statement or a commit of the tick raises.  A statement that fails
\* changes nothing; a commit that fails leaves its transaction open, and the
\* connection's next commit, whoever makes it, takes it along.
SchedFault ==
  /\ spc \in {"read", "fire", "fireCommit", "resolve", "resolveCommit"}
  /\ faults < MaxFaults
  /\ faults' = faults + 1
  /\ spc' = "retry"
  /\ cur' = NoTimer /\ rep' = 0 /\ acked' = FALSE /\ late' = 0
  /\ UNCHANGED <<storeVars, now, wake, rung, recVars>>

SchedRetry ==
  /\ spc = "retry"
  /\ spc' = "read"
  /\ UNCHANGED <<storeVars, now, wake, ringVars, faults, recVars>>

-----------------------------------------------------------------------------
(* recover(), run by the lifespan before any task or request.  Nothing     *)
(* else touches the table, so a row's UPDATE and its commit are one step.  *)

\* Mutant: what was 'firing' when the process died is taken as announced.
RecoverFiringAsRung ==
  /\ spc = "recFiring"
  /\ \E t \in ByStatus("firing") :
       /\ IF t \in Recurring
            THEN Rearm(t, NextOccurrence(db[t].fire, now))
            ELSE SetStatus(t, "done")
       /\ disk' = db'
  /\ UNCHANGED schedVars

\* for t in by_status("firing"): set_status(t, "armed")
RecoverFiring ==
  /\ spc = "recFiring"
  /\ \E t \in ByStatus("firing") :
       /\ SetStatus(t, "armed")
       /\ disk' = db'
  /\ UNCHANGED schedVars

\* Mutant: the overdue rows are selected whatever their status.
RecoverScanAnyRow ==
  /\ spc = "recFiring"
  /\ ByStatus("firing") = {}
  /\ recNow' = now
  /\ stale' = {t \in Timer \ ByStatus("absent") : db[t].fire + Grace < now}
  /\ spc' = "recArmed"
  /\ UNCHANGED <<storeVars, now, wake, ringVars, faults, missed>>

\* now = utcnow(), and the rows overdue beyond the grace
RecoverScan ==
  /\ spc = "recFiring"
  /\ ByStatus("firing") = {}
  /\ recNow' = now
  /\ stale' = {t \in ByStatus("armed") : db[t].fire + Grace < now}
  /\ spc' = "recArmed"
  /\ UNCHANGED <<storeVars, now, wake, ringVars, faults, missed>>

\* one-shots -> done, recurring -> their next occurrence
RecoverMissed ==
  /\ spc = "recArmed"
  /\ \E t \in stale :
       /\ IF t \in Recurring
            THEN Rearm(t, NextOccurrence(db[t].fire, recNow))
            ELSE SetStatus(t, "done")
       /\ disk' = db'
       /\ missed' = missed \cup {<<t, db[t].fire>>}
       /\ stale' = stale \ {t}
  /\ UNCHANGED <<now, wake, spc, ringVars, faults, recNow>>

\* the lifespan goes on to start the scheduler task
RecoverDone ==
  /\ spc = "recArmed"
  /\ stale = {}
  /\ recNow' = 0
  /\ spc' = "read"
  /\ UNCHANGED <<storeVars, now, wake, ringVars, faults, missed, stale>>

-----------------------------------------------------------------------------

\* The steps the event loop owes the scheduler and the lifespan.
SchedStep ==
  \/ SchedRead \/ SchedGoFire \/ SchedSleep \/ SchedWake \/ SchedTimeout
  \/ FireWrite \/ FireCommit \/ Announce \/ AnnounceSent \/ AckSeen \/ Interval
  \/ Resolve \/ ResolveCommit \/ SchedRetry

RecoverStep == RecoverFiring \/ RecoverScan \/ RecoverMissed \/ RecoverDone

=============================================================================
