---------------------------- MODULE TimerRequests ----------------------------
(***************************************************************************)
(* handle_timer of src/router/timers.py: the set and cancel utterances,    *)
(* each served by a coroutine of its own, any number of them at a time.    *)
(*                                                                         *)
(*   "idle"          serves nothing                                        *)
(*   "setCommit"     has executed the INSERT, about to commit              *)
(*   "setReply"      has committed; wakes the scheduler and answers        *)
(*   "cancelWrite"   holds the rows it found armed; about to UPDATE one    *)
(*   "cancelCommit"  about to commit that                                  *)
(*   "cancelReply"   all are written; wakes the scheduler and answers      *)
(*                                                                         *)
(* A clarification, a query ("how long left") and a cancel that matches no *)
(* row change nothing: they are stuttering steps.                          *)
(***************************************************************************)
EXTENDS Scheduler

CONSTANTS
  Handler,    \* the requests that can be served at the same time
  Ahead,      \* bound: how far ahead of now a new timer is set
  DayLength   \* length of the wall-clock day

ASSUME RequestsAssumption == Ahead \in Nat /\ DayLength \in Nat \ {0, 1}

VARIABLES
  hpc,        \* the await each request stands at
  todo,       \* rows a cancel has still to write
  batch,      \* rows the request's answer speaks of
  clean,      \* the part of batch cancelled while the scheduler did not hold it
  confirmed,  \* history: timers whose "... set for ..." was spoken
  told,       \* history: timers whose "Cancelled ..." was spoken
  sealed,     \* history: the part of told that was clean
  orphan      \* history: rows inserted by a request that failed before its wake

requestVars == <<hpc, todo, batch, clean, confirmed, told, sealed, orphan>>
historyVars == <<confirmed, told, sealed, orphan>>

HandlerState == {"idle", "setCommit", "setReply",
                 "cancelWrite", "cancelCommit", "cancelReply"}

RequestsTypeOK ==
  /\ hpc \in [Handler -> HandlerState]
  /\ todo \in [Handler -> SUBSET Timer]
  /\ batch \in [Handler -> SUBSET Timer]
  /\ clean \in [Handler -> SUBSET Timer]
  /\ confirmed \subseteq Timer
  /\ told \subseteq Timer
  /\ sealed \subseteq Timer
  /\ orphan \subseteq Timer

RequestsInit ==
  /\ hpc = [h \in Handler |-> "idle"]
  /\ todo = [h \in Handler |-> {}]
  /\ batch = [h \in Handler |-> {}]
  /\ clean = [h \in Handler |-> {}]
  /\ confirmed = {} /\ told = {} /\ sealed = {} /\ orphan = {}

\* The lifespan lets requests in once recovery is over.
Serving == spc \notin {"down", "recFiring", "recArmed"}

\* scheduler.wake.set()
WakeScheduler ==
  /\ wake' = TRUE
  /\ UNCHANGED <<now, spc, ringVars, faults, recVars>>

\* The request is over, and with it the coroutine's local state.
Finish(h) ==
  /\ hpc' = [hpc EXCEPT ![h] = "idle"]
  /\ todo' = [todo EXCEPT ![h] = {}]
  /\ batch' = [batch EXCEPT ![h] = {}]
  /\ clean' = [clean EXCEPT ![h] = {}]

\* The process is gone, and every coroutine with it.
DropRequests ==
  /\ hpc' = [h \in Handler |-> "idle"]
  /\ todo' = [h \in Handler |-> {}]
  /\ batch' = [h \in Handler |-> {}]
  /\ clean' = [h \in Handler |-> {}]

-----------------------------------------------------------------------------
(* set: store.add, wake, answer.                                           *)

\* The INSERT of a fresh id.  The fire_at was computed ahead of now; cut to
\* whole seconds it may be now itself, and in an hour the clocks repeat it may
\* be past (module RecurringAlarm).
SetInsert(h) ==
  /\ Serving
  /\ hpc[h] = "idle"
  /\ \E t \in ByStatus("absent"), f \in {i \in Instant : i =< now + Ahead} :
       /\ Insert(t, f)
       /\ batch' = [batch EXCEPT ![h] = {t}]
  /\ hpc' = [hpc EXCEPT ![h] = "setCommit"]
  /\ UNCHANGED <<disk, schedVars, todo, clean, historyVars>>

\* Mutant: add returns without its commit.
SetNoCommit(h) ==
  /\ hpc[h] = "setCommit"
  /\ hpc' = [hpc EXCEPT ![h] = "setReply"]
  /\ UNCHANGED <<storeVars, schedVars, todo, batch, clean, historyVars>>

SetCommit(h) ==
  /\ hpc[h] = "setCommit"
  /\ Commit
  /\ hpc' = [hpc EXCEPT ![h] = "setReply"]
  /\ UNCHANGED <<db, schedVars, todo, batch, clean, historyVars>>

\* Mutant: the answer is given without wake.set().
SetReplyNoWake(h) ==
  /\ hpc[h] = "setReply"
  /\ confirmed' = confirmed \cup batch[h]
  /\ Finish(h)
  /\ UNCHANGED <<storeVars, schedVars, told, sealed, orphan>>

SetReply(h) ==
  /\ hpc[h] = "setReply"
  /\ WakeScheduler
  /\ confirmed' = confirmed \cup batch[h]
  /\ Finish(h)
  /\ UNCHANGED <<storeVars, told, sealed, orphan>>

-----------------------------------------------------------------------------
(* cancel: SELECT the armed rows, narrow them, write each, wake, answer.   *)

TimeOfDay(f) == f % DayLength

HalfDay == DayLength \div 2

\* "cancel my alarm" (<<>>), "my 7 pm alarm" (explicit: the 24-hour clock has
\* to agree) and "my 7 alarm" (the 12-hour clock has to)
Qualifier == {<<>>} \cup [tod : 0 .. DayLength - 1, explicit : BOOLEAN]

AtQualifier(f, q) ==
  \/ q = <<>>
  \/ q # <<>> /\ IF q.explicit THEN TimeOfDay(f) = q.tod
                               ELSE TimeOfDay(f) % HalfDay = q.tod % HalfDay

Matching(k, q) ==
  {t \in ByStatus("armed") : KindOf[t] = k /\ AtQualifier(db[t].fire, q)}

\* All the matching rows ("cancel all my ..."), or the soonest of them.
CancelSelect(h) ==
  /\ Serving
  /\ hpc[h] = "idle"
  /\ \E k \in Kind, q \in Qualifier :
       /\ Matching(k, q) # {}
       /\ \E rows \in {Matching(k, q)} \cup {{t} : t \in Soonest(Matching(k, q))} :
            /\ todo' = [todo EXCEPT ![h] = rows]
            /\ batch' = [batch EXCEPT ![h] = rows]
  /\ hpc' = [hpc EXCEPT ![h] = "cancelWrite"]
  /\ UNCHANGED <<storeVars, schedVars, clean, historyVars>>

\* set_status(t.id, "cancelled"), whatever the row has become meanwhile
CancelWrite(h) ==
  /\ hpc[h] = "cancelWrite"
  /\ \E t \in todo[h] :
       /\ SetStatus(t, "cancelled")
       /\ todo' = [todo EXCEPT ![h] = @ \ {t}]
       /\ clean' = IF cur = t THEN clean ELSE [clean EXCEPT ![h] = @ \cup {t}]
  /\ hpc' = [hpc EXCEPT ![h] = "cancelCommit"]
  /\ UNCHANGED <<disk, schedVars, batch, historyVars>>

CancelCommit(h) ==
  /\ hpc[h] = "cancelCommit"
  /\ Commit
  /\ hpc' = [hpc EXCEPT ![h] = IF todo[h] = {} THEN "cancelReply" ELSE "cancelWrite"]
  /\ UNCHANGED <<db, schedVars, todo, batch, clean, historyVars>>

CancelReply(h) ==
  /\ hpc[h] = "cancelReply"
  /\ WakeScheduler
  /\ told' = told \cup batch[h]
  /\ sealed' = sealed \cup clean[h]
  /\ Finish(h)
  /\ UNCHANGED <<storeVars, confirmed, orphan>>

-----------------------------------------------------------------------------

\* A statement or a commit raises: the request ends in ERROR_SPEECH, without
\* its wake.  (An INSERT or a SELECT that fails changes nothing at all.)
HandlerFault(h) ==
  /\ hpc[h] \in {"setCommit", "cancelWrite", "cancelCommit"}
  /\ faults < MaxFaults
  /\ faults' = faults + 1
  /\ orphan' = IF hpc[h] = "setCommit" THEN orphan \cup batch[h] ELSE orphan
  /\ Finish(h)
  /\ UNCHANGED <<storeVars, now, wake, spc, ringVars, recVars,
                 confirmed, told, sealed>>

\* The steps the event loop owes a request it has begun to serve.
HandlerStep(h) ==
  \/ SetCommit(h) \/ SetReply(h)
  \/ CancelWrite(h) \/ CancelCommit(h) \/ CancelReply(h)

=============================================================================
