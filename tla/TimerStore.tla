----------------------------- MODULE TimerStore -----------------------------
(***************************************************************************)
(* The SQLite table of timers (class TimerStore of src/router/timers.py).  *)
(*                                                                         *)
(* The router has ONE aiosqlite connection, shared by the scheduler task   *)
(* and by every request handler.  A statement and the commit that follows  *)
(* it are two awaits, so two steps:                                        *)
(*   - a statement changes what the connection sees (db), for everybody;   *)
(*   - a commit makes everything the connection has written durable        *)
(*     (disk), whoever wrote it;                                           *)
(*   - when the process dies, what was not committed is gone.              *)
(*                                                                         *)
(* A timer's id is a fresh UUID, and its kind and recurrence are written   *)
(* once, with the INSERT: they are constant functions of the id here.      *)
(* Instants are whole seconds, as to_utc_iso stores them.                  *)
(***************************************************************************)
EXTENDS Naturals, FiniteSets

CONSTANTS
  Timer,              \* ids of the timers a run can create
  NoTimer,            \* Python's None where a Timer is expected
  Kind,               \* "timer", "alarm", "reminder"
  KindOf,             \* the kind column of each id
  Recurring,          \* the ids whose recurrence column is not 'none'
  MaxTime,            \* bound: the last instant the clock of a run reaches
  Horizon,            \* bound: the last instant a fire_at can hold
  NextOccurrence(_, _) \* what timeparse.next_occurrence answers for the wall
                       \* clock of an old fire_at and a present instant

Clock == 0 .. MaxTime

Instant == 0 .. Horizon

Status == {"absent", "armed", "firing", "done", "cancelled"}

Row == [status : Status, fire : Instant]

ASSUME TimerAssumption == NoTimer \notin Timer
ASSUME KindAssumption == KindOf \in [Timer -> Kind]
ASSUME RecurringAssumption == Recurring \subseteq Timer
ASSUME HorizonAssumption == MaxTime \in Nat /\ Horizon \in Nat /\ MaxTime =< Horizon
ASSUME NextOccurrenceAssumption ==
         \A f \in Instant, n \in Clock : NextOccurrence(f, n) \in Instant

VARIABLES
  db,     \* the table as the router's connection sees it
  disk    \* the table as committed

storeVars == <<db, disk>>

StoreTypeOK ==
  /\ db \in [Timer -> Row]
  /\ disk \in [Timer -> Row]

StoreInit ==
  /\ db = [t \in Timer |-> [status |-> "absent", fire |-> 0]]
  /\ disk = db

-----------------------------------------------------------------------------
(* Queries. *)

ByStatus(status) == {t \in Timer : db[t].status = status}

\* ORDER BY fire_at: the rows of S that may come first (SQLite breaks ties).
Soonest(S) == {t \in S : \A u \in S : db[t].fire =< db[u].fire}

-----------------------------------------------------------------------------
(* Statements, executed but not yet committed. *)

Insert(t, fire) == db' = [db EXCEPT ![t] = [status |-> "armed", fire |-> fire]]

SetStatus(t, status) == db' = [db EXCEPT ![t].status = status]

Rearm(t, fire) == db' = [db EXCEPT ![t] = [status |-> "armed", fire |-> fire]]

Commit == disk' = db

\* Whatever the connection had not committed is lost with the process.
LoseUncommitted == db' = disk /\ UNCHANGED disk

=============================================================================
