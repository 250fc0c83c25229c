----------------------- MODULE TimerRefinementProofs -----------------------
(***************************************************************************)
(* Proof that the timer service implements TimerPromise, for every number  *)
(* of timers and requests and every bound.                                 *)
(***************************************************************************)
EXTENDS TimerRefinement, TimerServiceProofs

\* The row that rings stays in the file, with its instant.
LEMMA RingNext ==
  TypeInv /\ FileInv /\ HeldRowInv /\ RingInv /\ [Next]_vars => RingInv'
<1> SUFFICES ASSUME TypeInv /\ FileInv /\ HeldRowInv /\ RingInv, [Next]_vars PROVE RingInv'
  OBVIOUS
<1> USE TimerAssumption
    DEF TypeInv, HoldInv, TypeOK, StoreTypeOK, SchedTypeOK, RequestsTypeOK,
        Row, storeVars, schedVars, ringVars, recVars, requestVars,
        historyVars, Ringing, FileInv, HeldRowInv, RingInv
<1>1. CASE SchedNext /\ UNCHANGED <<requestVars, crashes>>
  <2>1. CASE SchedRead
    BY <1>1, <2>1 DEF SchedRead, Soonest, ByStatus
  <2>2. CASE SchedGoFire \/ SchedSleep \/ SchedWake \/ SchedTimeout
    BY <1>1, <2>2 DEF SchedGoFire, SchedSleep, SchedWake, SchedTimeout,
       MustWait
  <2>3. CASE AnnounceSent \/ AckSeen \/ Interval \/ Ack \/ SchedFault \/ SchedRetry
    BY <1>1, <2>3 DEF AnnounceSent, AckSeen, Interval, Ack, SchedFault,
       SchedRetry
  <2>4. CASE FireWrite
    BY <1>1, <2>4 DEF FireWrite, SetStatus
  <2>5. CASE FireCommit \/ ResolveCommit
    BY <1>1, <2>5 DEF FireCommit, ResolveCommit, Commit
  <2>6. CASE Announce
    BY <1>1, <2>6 DEF Announce
  <2>7. CASE Resolve
    BY <1>1, <2>7 DEF Resolve, Rearm, SetStatus
  <2>8. CASE RecoverFiring
    BY <1>1, <2>8 DEF RecoverFiring, SetStatus, ByStatus
  <2>9. CASE RecoverScan \/ RecoverDone
    BY <1>1, <2>9 DEF RecoverScan, RecoverDone, ByStatus
  <2>10. CASE RecoverMissed
    BY <1>1, <2>10 DEF RecoverMissed, Rearm, SetStatus
  <2>. QED
    BY <1>1, <2>1, <2>2, <2>3, <2>4, <2>5, <2>6, <2>7, <2>8, <2>9, <2>10 DEF SchedNext, SchedStep, RecoverStep
<1>2. ASSUME NEW h \in Handler, HandlerNext(h) /\ UNCHANGED crashes
      PROVE  RingInv'
  <2>1. CASE SetInsert(h)
    BY <1>2, <2>1 DEF SetInsert, Insert, ByStatus
  <2>2. CASE SetCommit(h) \/ CancelCommit(h)
    BY <1>2, <2>2 DEF SetCommit, CancelCommit, Commit
  <2>3. CASE SetReply(h) \/ CancelReply(h)
    BY <1>2, <2>3 DEF SetReply, CancelReply, WakeScheduler, Finish
  <2>4. CASE CancelSelect(h)
    BY <1>2, <2>4 DEF CancelSelect, Matching, Soonest, ByStatus
  <2>5. CASE CancelWrite(h)
    BY <1>2, <2>5 DEF CancelWrite, SetStatus
  <2>6. CASE HandlerFault(h)
    BY <1>2, <2>6 DEF HandlerFault, Finish
  <2>. QED
    BY <1>2, <2>1, <2>2, <2>3, <2>4, <2>5, <2>6 DEF HandlerNext, HandlerStep
<1>3. CASE Tick \/ Restart
  BY <1>3 DEF Tick, Restart
<1>4. CASE Crash
  BY <1>4 DEF Crash, LoseUncommitted, DropRequests
<1>5. CASE UNCHANGED vars
  BY <1>5 DEF vars
<1>. QED
  BY <1>1, <1>2, <1>3, <1>4, <1>5 DEF Next

\* Only _resolve and recover end a row or move its fire_at.
LEMMA RecurrenceNext ==
  TypeInv /\ FileInv /\ RecurrenceInv /\ [Next]_vars => RecurrenceInv'
<1> SUFFICES ASSUME TypeInv /\ FileInv /\ RecurrenceInv, [Next]_vars PROVE RecurrenceInv'
  OBVIOUS
<1> USE TimerAssumption
    DEF TypeInv, HoldInv, TypeOK, StoreTypeOK, SchedTypeOK, RequestsTypeOK,
        Row, storeVars, schedVars, ringVars, recVars, requestVars,
        historyVars, Ringing, FileInv, RecurrenceInv
<1>1. CASE SchedNext /\ UNCHANGED <<requestVars, crashes>>
  <2>1. CASE SchedRead
    BY <1>1, <2>1 DEF SchedRead, Soonest, ByStatus
  <2>2. CASE SchedGoFire \/ SchedSleep \/ SchedWake \/ SchedTimeout
    BY <1>1, <2>2 DEF SchedGoFire, SchedSleep, SchedWake, SchedTimeout,
       MustWait
  <2>3. CASE AnnounceSent \/ AckSeen \/ Interval \/ Ack \/ SchedFault \/ SchedRetry
    BY <1>1, <2>3 DEF AnnounceSent, AckSeen, Interval, Ack, SchedFault,
       SchedRetry
  <2>4. CASE FireWrite
    BY <1>1, <2>4 DEF FireWrite, SetStatus
  <2>5. CASE FireCommit \/ ResolveCommit
    BY <1>1, <2>5 DEF FireCommit, ResolveCommit, Commit
  <2>6. CASE Announce
    BY <1>1, <2>6 DEF Announce
  <2>7. CASE Resolve
    BY <1>1, <2>7 DEF Resolve, Rearm, SetStatus
  <2>8. CASE RecoverFiring
    BY <1>1, <2>8 DEF RecoverFiring, SetStatus, ByStatus
  <2>9. CASE RecoverScan \/ RecoverDone
    BY <1>1, <2>9 DEF RecoverScan, RecoverDone, ByStatus
  <2>10. CASE RecoverMissed
    BY <1>1, <2>10 DEF RecoverMissed, Rearm, SetStatus
  <2>. QED
    BY <1>1, <2>1, <2>2, <2>3, <2>4, <2>5, <2>6, <2>7, <2>8, <2>9, <2>10 DEF SchedNext, SchedStep, RecoverStep
<1>2. ASSUME NEW h \in Handler, HandlerNext(h) /\ UNCHANGED crashes
      PROVE  RecurrenceInv'
  <2>1. CASE SetInsert(h)
    BY <1>2, <2>1 DEF SetInsert, Insert, ByStatus
  <2>2. CASE SetCommit(h) \/ CancelCommit(h)
    BY <1>2, <2>2 DEF SetCommit, CancelCommit, Commit
  <2>3. CASE SetReply(h) \/ CancelReply(h)
    BY <1>2, <2>3 DEF SetReply, CancelReply, WakeScheduler, Finish
  <2>4. CASE CancelSelect(h)
    BY <1>2, <2>4 DEF CancelSelect, Matching, Soonest, ByStatus
  <2>5. CASE CancelWrite(h)
    BY <1>2, <2>5 DEF CancelWrite, SetStatus
  <2>6. CASE HandlerFault(h)
    BY <1>2, <2>6 DEF HandlerFault, Finish
  <2>. QED
    BY <1>2, <2>1, <2>2, <2>3, <2>4, <2>5, <2>6 DEF HandlerNext, HandlerStep
<1>3. CASE Tick \/ Restart
  BY <1>3 DEF Tick, Restart
<1>4. CASE Crash
  BY <1>4 DEF Crash, LoseUncommitted, DropRequests
<1>5. CASE UNCHANGED vars
  BY <1>5 DEF vars
<1>. QED
  BY <1>1, <1>2, <1>3, <1>4, <1>5 DEF Next

-----------------------------------------------------------------------------
(* The mapped state. *)

\* The book is the committed table: a step that leaves disk alone leaves it.
LEMMA BookSame == disk' = disk => Book' = Book
BY DEF Book, StateOf

\* A step that only the detailed specification sees.
LEMMA Hidden ==
  UNCHANGED <<disk, rung, missed, sealed>> => UNCHANGED Promise!promiseVars
BY BookSame DEF Promise!promiseVars, Accounted

\* A commit makes durable what every coroutine wrote since the last one: each
\* row moves as the promise allows, or not at all.
LEMMA CommitIsWrite ==
  ASSUME RefinementInv, RefinementInv', disk' = db, UNCHANGED <<rung, missed, sealed>>
  PROVE  Promise!Write
<1> USE DEF RefinementInv, IndInv
<1>1. Book' \in [Timer -> Promise!Entry]
  <2>1. Book' = [t \in Timer |-> [state |-> StateOf(db[t].status), at |-> db[t].fire]]
    BY DEF Book, StateOf
  <2>. QED
    BY <2>1 DEF TypeInv, TypeOK, StoreTypeOK, Row, Status, StateOf,
       Promise!Entry, Promise!State
<1>2. Accounted' = Accounted
  BY DEF Accounted
<1>3. ASSUME NEW t \in Timer PROVE Promise!Moves(t)
  <2>1. /\ Book[t] = [state |-> StateOf(disk[t].status), at |-> disk[t].fire]
        /\ Book'[t] = [state |-> StateOf(db[t].status), at |-> db[t].fire]
    BY DEF Book, StateOf
  <2>2. /\ disk[t].status \in Status /\ db[t].status \in Status
        /\ disk[t].fire \in Instant /\ db[t].fire \in Instant
    BY DEF TypeInv, TypeOK, StoreTypeOK, Row
  <2>3. disk[t].status # "absent" => db[t].status # "absent"
    BY DEF FileInv
  <2>4. disk[t].status = "done" =>
          db[t].status \in {"done", "cancelled"} /\ db[t].fire = disk[t].fire
    BY DEF SettledInv, RecurrenceInv
  <2>5. disk[t].status # "absent" /\ db[t].fire # disk[t].fire =>
          t \in Recurring /\ <<t, disk[t].fire>> \in Accounted
    BY DEF AccountInv, RecurrenceInv
  <2>6. db[t].status = "done" => t \notin Recurring /\ <<t, db[t].fire>> \in Accounted
    BY DEF AccountInv, RecurrenceInv
  <2>7. t \in sealed => db[t].status = "cancelled"
    BY DEF SealInv
  <2>. QED
    BY <1>2, <2>1, <2>2, <2>3, <2>4, <2>5, <2>6, <2>7
    DEF Promise!Moves, StateOf, Status
<1>. QED
  BY <1>1, <1>2, <1>3 DEF Promise!Write

\* An announcement: the row is in the file, at the instant it rings for.
LEMMA AnnounceIsRing ==
  ASSUME RefinementInv, Announce, UNCHANGED requestVars
  PROVE  Promise!Next
<1> USE DEF RefinementInv, IndInv
<1>1. cur \in Timer /\ disk[cur].fire = db[cur].fire
      /\ disk[cur].status \in {"firing", "cancelled"}
  BY DEF Announce, TypeInv, HoldInv, Ringing, RingInv
<1>2. cur \notin sealed
  BY <1>1 DEF SealInv
<1>3. /\ Book[cur].state \in {"open", "taken"}
      /\ Book[cur].at = db[cur].fire
  BY <1>1 DEF Book, StateOf
<1>4. Book' = Book /\ sealed' = sealed
  BY BookSame DEF Announce, storeVars, requestVars, historyVars
<1>5. Accounted' = Accounted \cup {<<cur, db[cur].fire>>}
  BY DEF Announce, Accounted, recVars
<1>6. Promise!Ring(cur)
  BY <1>2, <1>3, <1>4, <1>5 DEF Promise!Ring
<1>. QED
  BY <1>1, <1>6 DEF Promise!Next

\* Recovery gives one row up, with the write that settles it.
LEMMA MissedIsGivenUp ==
  ASSUME RefinementInv, RefinementInv', RecoverMissed, UNCHANGED requestVars
  PROVE  Promise!Next
<1> USE DEF RefinementInv, IndInv
<1>1. PICK t \in stale :
        /\ IF t \in Recurring
             THEN Rearm(t, NextOccurrence(db[t].fire, recNow))
             ELSE SetStatus(t, "done")
        /\ disk' = db'
        /\ missed' = missed \cup {<<t, db[t].fire>>}
  BY DEF RecoverMissed
<1>2. t \in Timer /\ db = disk /\ disk[t].status = "armed" /\ disk \in [Timer -> Row]
  BY <1>1 DEF RecoverMissed, TypeInv, TypeOK, StoreTypeOK, SchedTypeOK, FileInv
<1>3. Book[t].state = "open" /\ Book[t].at = disk[t].fire
  BY <1>2 DEF Book, StateOf
<1>4. Accounted' = Accounted \cup {<<t, Book[t].at>>} /\ sealed' = sealed
  BY <1>1, <1>2, <1>3 DEF RecoverMissed, Accounted, ringVars, requestVars, historyVars
<1>5. t \notin sealed
  BY <1>2 DEF SealInv
<1>6. disk' = [disk EXCEPT ![t] = disk'[t]]
  BY <1>1, <1>2 DEF Rearm, SetStatus
<1>7. \A u \in Timer \ {t} : disk'[u] = disk[u]
  BY <1>2, <1>6
<1>8. \/ t \in Recurring /\ disk'[t].status = "armed"
      \/ t \notin Recurring /\ disk'[t].status = "done" /\ disk'[t].fire = disk[t].fire
  BY <1>1, <1>2 DEF Rearm, SetStatus, Row
<1>9. Book' = [u \in Timer |-> [state |-> StateOf(disk'[u].status), at |-> disk'[u].fire]]
  BY DEF Book, StateOf
<1>10. Book' \in [Timer -> Promise!Entry]
  <2>1. disk' \in [Timer -> Row]
    BY DEF TypeInv, TypeOK, StoreTypeOK
  <2>. QED
    BY <1>9, <2>1 DEF Row, Status, StateOf, Promise!Entry, Promise!State
<1>11. \A u \in Timer \ {t} : Book'[u] = Book[u]
  BY <1>7, <1>9 DEF Book
<1>12. Promise!Moves(t)
  BY <1>2, <1>3, <1>4, <1>5, <1>8, <1>9 DEF Promise!Moves, StateOf
<1>13. Promise!GiveUp(t)
  BY <1>3, <1>4, <1>10, <1>11, <1>12 DEF Promise!GiveUp
<1>. QED
  BY <1>2, <1>13 DEF Promise!Next

\* Recovery puts an interrupted ringing back: still open, at its instant.
LEMMA RecoveryKeepsOpen ==
  ASSUME RefinementInv, RecoverFiring, UNCHANGED requestVars
  PROVE  UNCHANGED Promise!promiseVars
<1> USE DEF RefinementInv, IndInv
<1>1. PICK t \in ByStatus("firing") : SetStatus(t, "armed") /\ disk' = db'
  BY DEF RecoverFiring
<1>2. t \in Timer /\ db = disk /\ disk[t].status = "firing" /\ disk \in [Timer -> Row]
  BY <1>1 DEF RecoverFiring, ByStatus, TypeInv, TypeOK, StoreTypeOK, FileInv
<1>3. /\ disk'[t].status = "armed" /\ disk'[t].fire = disk[t].fire
      /\ \A u \in Timer \ {t} : disk'[u] = disk[u]
  BY <1>1, <1>2 DEF SetStatus, Row
<1>4. Book' = [u \in Timer |-> [state |-> StateOf(disk'[u].status), at |-> disk'[u].fire]]
  BY DEF Book, StateOf
<1>5. \A u \in Timer : StateOf(disk'[u].status) = StateOf(disk[u].status)
                       /\ disk'[u].fire = disk[u].fire
  BY <1>2, <1>3 DEF StateOf
<1>6. Book' = Book
  BY <1>4, <1>5 DEF Book
<1>. QED
  BY <1>6 DEF RecoverFiring, Promise!promiseVars, Accounted, schedVars, ringVars,
     recVars, requestVars, historyVars

\* The answer to a cancel: what it seals is cancelled in the file.
LEMMA AnswerIsSeal ==
  ASSUME RefinementInv, NEW h \in Handler, CancelReply(h)
  PROVE  Promise!Next
<1> USE DEF RefinementInv, IndInv
<1>1. clean[h] \subseteq Timer /\ \A t \in clean[h] : disk[t].status = "cancelled"
  BY DEF CancelReply, SealInv, TypeInv, TypeOK, RequestsTypeOK
<1>2. clean[h] \in SUBSET {t \in Timer : Book[t].state = "taken"}
  BY <1>1 DEF Book, StateOf
<1>3. sealed' = sealed \cup clean[h] /\ Book' = Book /\ Accounted' = Accounted
  BY BookSame DEF CancelReply, storeVars, WakeScheduler, ringVars, recVars, Accounted
<1>. QED
  BY <1>2, <1>3 DEF Promise!Next, Promise!Seal

-----------------------------------------------------------------------------
(* The refinement. *)

LEMMA RefinementInit == Init => RefinementInv /\ Promise!Init
<1> SUFFICES ASSUME Init PROVE RefinementInv /\ Promise!Init
  OBVIOUS
<1>1. IndInv
  BY IndInit
<1>2. RingInv /\ RecurrenceInv
  BY DEF Init, StoreInit, SchedInit, RingInv, RecurrenceInv
<1>3. \A t \in Timer : disk[t] = [status |-> "absent", fire |-> 0]
  BY DEF Init, StoreInit
<1>4. 0 \in Instant
  BY HorizonAssumption DEF Instant
<1>5. Book \in [Timer -> {e \in Promise!Entry : e.state = "unset"}]
  BY <1>3, <1>4 DEF Book, StateOf, Promise!Entry, Promise!State
<1>6. Accounted = {} /\ sealed = {}
  BY DEF Init, SchedInit, RequestsInit, Accounted
<1>. QED
  BY <1>1, <1>2, <1>5, <1>6 DEF RefinementInv, Promise!Init

LEMMA RefinementNext == RefinementInv /\ [Next]_vars => RefinementInv'
BY IndNext, RingNext, RecurrenceNext DEF RefinementInv, IndInv

LEMMA StepMaps ==
  RefinementInv /\ RefinementInv' /\ [Next]_vars => [Promise!Next]_(Promise!promiseVars)
<1> SUFFICES ASSUME RefinementInv, RefinementInv', [Next]_vars
             PROVE  Promise!Next \/ UNCHANGED Promise!promiseVars
  OBVIOUS
<1> USE DEF storeVars, schedVars, ringVars, recVars, requestVars, historyVars
<1>1. CASE SchedNext /\ UNCHANGED <<requestVars, crashes>>
  <2>1. CASE SchedRead \/ SchedGoFire \/ SchedSleep \/ SchedWake \/ SchedTimeout
    BY <1>1, <2>1, Hidden DEF SchedRead, SchedGoFire, SchedSleep, SchedWake, SchedTimeout
  <2>2. CASE AnnounceSent \/ AckSeen \/ Interval \/ Ack \/ SchedFault \/ SchedRetry
    BY <1>1, <2>2, Hidden DEF AnnounceSent, AckSeen, Interval, Ack, SchedFault, SchedRetry
  <2>3. CASE FireWrite \/ Resolve \/ RecoverScan \/ RecoverDone
    BY <1>1, <2>3, Hidden DEF FireWrite, Resolve, RecoverScan, RecoverDone
  <2>4. CASE FireCommit \/ ResolveCommit
    BY <1>1, <2>4, CommitIsWrite DEF FireCommit, ResolveCommit, Commit, Promise!Next
  <2>5. CASE Announce
    BY <1>1, <2>5, AnnounceIsRing
  <2>6. CASE RecoverFiring
    BY <1>1, <2>6, RecoveryKeepsOpen
  <2>7. CASE RecoverMissed
    BY <1>1, <2>7, MissedIsGivenUp
  <2>. QED
    BY <1>1, <2>1, <2>2, <2>3, <2>4, <2>5, <2>6, <2>7 DEF SchedNext, SchedStep, RecoverStep
<1>2. ASSUME NEW h \in Handler, HandlerNext(h)
      PROVE  Promise!Next \/ UNCHANGED Promise!promiseVars
  <2>1. CASE SetInsert(h) \/ CancelSelect(h) \/ CancelWrite(h)
    BY <2>1, Hidden DEF SetInsert, CancelSelect, CancelWrite
  <2>2. CASE SetCommit(h) \/ CancelCommit(h)
    BY <2>2, CommitIsWrite DEF SetCommit, CancelCommit, Commit, Promise!Next
  <2>3. CASE SetReply(h) \/ HandlerFault(h)
    BY <2>3, Hidden DEF SetReply, HandlerFault, WakeScheduler
  <2>4. CASE CancelReply(h)
    BY <2>4, AnswerIsSeal
  <2>. QED
    BY <1>2, <2>1, <2>2, <2>3, <2>4 DEF HandlerNext, HandlerStep
<1>3. CASE Tick \/ Restart \/ Crash
  BY <1>3, Hidden DEF Tick, Restart, Crash, LoseUncommitted
<1>4. CASE UNCHANGED vars
  BY <1>4, Hidden DEF vars
<1>. QED
  BY <1>1, <1>2, <1>3, <1>4 DEF Next

\* timers.py implements the promise: its initial states are states of the
\* promise, and every step of every coroutine, of recovery and of a crash is
\* a step of the promise or none.
THEOREM ServiceKeepsPromise == Spec => KeepsPromise
<1>1. Spec => []RefinementInv
  BY RefinementInit, RefinementNext, PTL DEF Spec
<1>2. Init => Promise!Init
  BY RefinementInit
<1>. QED
  BY <1>1, <1>2, StepMaps, PTL DEF Spec, KeepsPromise, Promise!Spec

-----------------------------------------------------------------------------
(* The promise is as strong as the properties of the service that speak of *)
(* the file: each of them follows from KeepsPromise alone.                 *)

Kept == INSTANCE TimerPromiseProofs WITH
          book <- Book, settled <- Accounted, final <- sealed

LEMMA SamePromise == KeepsPromise => Kept!Spec
<1>1. Promise!Init => Kept!Init
  BY DEF Promise!Init, Kept!Init, Promise!Entry, Kept!Entry, Promise!State, Kept!State
<1>2. Promise!Next => Kept!Next
  BY DEF Promise!Next, Kept!Next, Promise!Write, Kept!Write, Promise!Seal, Kept!Seal,
     Promise!Ring, Kept!Ring, Promise!GiveUp, Kept!GiveUp, Promise!Moves, Kept!Moves,
     Promise!Entry, Kept!Entry, Promise!State, Kept!State
<1>3. UNCHANGED Promise!promiseVars => UNCHANGED Kept!promiseVars
  BY DEF Promise!promiseVars, Kept!promiseVars
<1>. QED
  BY <1>1, <1>2, <1>3, PTL DEF KeepsPromise, Promise!Spec, Kept!Spec

\* The entry of a row that the file holds.
LEMMA BookOfRow ==
  ASSUME NEW t \in Timer
  PROVE  /\ Book[t].state = StateOf(disk[t].status) /\ Book[t].at = disk[t].fire
         /\ Book'[t].state = StateOf(disk'[t].status) /\ Book'[t].at = disk'[t].fire
BY DEF Book

\* Nothing the household relies on is lost between the two levels: who keeps
\* the promise has no row 'done' unsettled, skips no occurrence, revives no
\* settled row and keeps every uncontested cancel in the file.
THEOREM PromiseSuffices ==
  KeepsPromise /\ []TypeOK =>
    /\ [](DoneIsAccounted /\ \A t \in sealed : disk[t].status = "cancelled")
    /\ OccurrencesAccounted
    /\ SettledStaysSettled
<1> USE DEF StateOf
<1>1. TypeOK => \A t \in Timer : disk[t].status \in Status
  BY DEF TypeOK, StoreTypeOK, Row
<1>2. TypeOK /\ Kept!OverIsSettled => DoneIsAccounted
  BY BookOfRow DEF Kept!OverIsSettled, DoneIsAccounted
<1>3. TypeOK /\ Kept!FinalIsTaken => \A t \in sealed : disk[t].status = "cancelled"
  <2> SUFFICES ASSUME TypeOK, Kept!FinalIsTaken, NEW t \in sealed
               PROVE  disk[t].status = "cancelled"
    OBVIOUS
  <2>1. t \in Timer
    BY DEF TypeOK, RequestsTypeOK
  <2>2. StateOf(disk[t].status) = "taken" /\ disk[t].status \in Status
    BY <1>1, <2>1, BookOfRow DEF Kept!FinalIsTaken
  <2>. QED
    BY <2>2 DEF Status
<1>4. TypeOK /\ TypeOK' /\ [Kept!BookStep /\ Kept!GrowsStep]_(Kept!promiseVars)
        => OccurrenceStep /\ SettledStep
  <2> SUFFICES ASSUME TypeOK, TypeOK', [Kept!BookStep /\ Kept!GrowsStep]_(Kept!promiseVars),
                      NEW t \in Timer
               PROVE  /\ disk[t].status # "absent" /\ disk'[t].fire # disk[t].fire =>
                           <<t, disk[t].fire>> \in Accounted'
                      /\ disk[t].status = "done" => disk'[t].status \in {"done", "cancelled"}
    BY DEF OccurrenceStep, SettledStep
  <2>1. disk[t].status \in Status /\ disk'[t].status \in Status
    BY DEF TypeOK, StoreTypeOK, Row
  <2>2. CASE Kept!BookStep
    BY <2>1, <2>2, BookOfRow DEF Kept!BookStep, Status
  <2>3. CASE UNCHANGED Kept!promiseVars
    <3>1. Book'[t] = Book[t]
      BY <2>3 DEF Kept!promiseVars
    <3>. QED
      BY <2>1, <3>1, BookOfRow DEF Status
  <2>. QED
    BY <2>2, <2>3
<1>. QED
  BY <1>2, <1>3, <1>4, SamePromise, Kept!PromiseIsSafe, Kept!PromiseIsKeptByEachStep, PTL
  DEF OccurrencesAccounted, SettledStaysSettled

-----------------------------------------------------------------------------
(* The repeat loop implements RingPromise. *)

\* A step that moves neither the loop nor the process is hidden, and so is
\* one that stays outside the loop.
LEMMA LoopHidden ==
  /\ UNCHANGED crashes
  /\ \/ UNCHANGED <<spc, cur, rep, acked>>
     \/ ~ AckRegistered /\ ~ AckRegistered'
  => UNCHANGED Loop!promiseVars
<1> SUFFICES ASSUME UNCHANGED crashes,
                    \/ UNCHANGED <<spc, cur, rep, acked>>
                    \/ ~ AckRegistered /\ ~ AckRegistered'
             PROVE  UNCHANGED Loop!promiseVars
  OBVIOUS
<1>1. CASE UNCHANGED <<spc, cur, rep, acked>>
  BY <1>1 DEF Loop!promiseVars, Loop!ringVars, AckRegistered
<1>2. CASE ~ AckRegistered /\ ~ AckRegistered'
  <2>1. spc # "sending" /\ spc' # "sending"
    BY <1>2 DEF AckRegistered
  <2>. QED
    BY <1>2, <2>1 DEF Loop!promiseVars, Loop!ringVars
<1>. QED
  BY <1>1, <1>2

\* Each step of the service is one of the loop's or hidden from it.
LEMMA LoopStepMaps ==
  TypeInv /\ [Next]_vars => [Loop!Next]_(Loop!promiseVars)
<1> SUFFICES ASSUME TypeInv, [Next]_vars
             PROVE  Loop!Next \/ UNCHANGED Loop!promiseVars
  OBVIOUS
<1> USE DEF storeVars, schedVars, ringVars, recVars, requestVars, historyVars
<1>1. CASE SchedNext /\ UNCHANGED <<requestVars, crashes>>
  <2>1. CASE SchedRead \/ SchedGoFire \/ SchedSleep \/ SchedWake \/ SchedTimeout
    BY <1>1, <2>1, LoopHidden DEF SchedRead, SchedGoFire, SchedSleep,
       SchedWake, SchedTimeout, AckRegistered
  <2>2. CASE FireWrite \/ Resolve \/ ResolveCommit \/ SchedFault \/ SchedRetry
    BY <1>1, <2>2, LoopHidden DEF FireWrite, Resolve, ResolveCommit,
       SchedFault, SchedRetry, AckRegistered
  <2>3. CASE RecoverStep
    BY <1>1, <2>3, LoopHidden DEF RecoverStep, RecoverFiring, RecoverScan,
       RecoverMissed, RecoverDone, AckRegistered
  <2>4. CASE FireCommit
    <3>1. cur \in Timer
      BY <2>4 DEF FireCommit, TypeInv, HoldInv, Ringing
    <3>2. Loop!Begin(cur)
      BY <1>1, <2>4, TimerAssumption DEF FireCommit, Loop!Begin, AckRegistered
    <3>. QED
      BY <3>1, <3>2 DEF Loop!Next
  <2>5. CASE Announce
    <3>1. cur # NoTimer /\ rep < MaxRepeats
      BY <2>5, TimerAssumption DEF Announce, TypeInv, HoldInv, Ringing
    <3>2. Loop!Call
      BY <1>1, <2>5, <3>1 DEF Announce, Loop!Call, AckRegistered
    <3>. QED
      BY <3>2 DEF Loop!Next
  <2>6. CASE AnnounceSent /\ ~ acked
    <3>1. Loop!Pause
      BY <1>1, <2>6 DEF AnnounceSent, Loop!Pause, AckRegistered
    <3>. QED
      BY <3>1 DEF Loop!Next
  <2>7. CASE (AnnounceSent /\ acked) \/ AckSeen \/ (Interval /\ ~ rep < MaxRepeats)
    <3>1. cur # NoTimer /\ AckRegistered /\ spc' = "resolve" /\ crashes' = crashes
      BY <1>1, <2>7, TimerAssumption DEF AnnounceSent, AckSeen, Interval,
         AckRegistered, TypeInv, HoldInv, Ringing
    <3>2. acked \/ rep = MaxRepeats
      BY <2>7, SchedulerAssumption DEF AckSeen, Interval, TypeInv, TypeOK, SchedTypeOK
    <3>3. Loop!End
      BY <3>1, <3>2 DEF Loop!End, Loop!Quiet, AckRegistered
    <3>. QED
      BY <3>3 DEF Loop!Next
  <2>8. CASE Interval /\ rep < MaxRepeats
    <3>1. UNCHANGED Loop!promiseVars
      BY <1>1, <2>8 DEF Interval, AckRegistered, Loop!promiseVars, Loop!ringVars
    <3>. QED
      BY <3>1
  <2>9. CASE Ack
    <3>1. Loop!Silence
      BY <1>1, <2>9, TimerAssumption DEF Ack, Loop!Silence, AckRegistered,
         TypeInv, HoldInv, Ringing
    <3>. QED
      BY <3>1 DEF Loop!Next
  <2>. QED
    BY <1>1, <2>1, <2>2, <2>3, <2>4, <2>5, <2>6, <2>7, <2>8, <2>9
    DEF SchedNext, SchedStep
<1>2. ASSUME NEW h \in Handler, HandlerNext(h) /\ UNCHANGED crashes
      PROVE  UNCHANGED Loop!promiseVars
  BY <1>2, LoopHidden DEF HandlerNext, HandlerStep, SetInsert, SetCommit,
     SetReply, CancelSelect, CancelWrite, CancelCommit, CancelReply,
     HandlerFault, WakeScheduler
<1>3. CASE Tick \/ Restart
  BY <1>3, LoopHidden DEF Tick, Restart, AckRegistered
<1>4. CASE Crash
  <2>1. Loop!Die
    BY <1>4 DEF Crash, Loop!Die, Loop!Quiet, AckRegistered
  <2>. QED
    BY <2>1 DEF Loop!Next
<1>5. CASE UNCHANGED vars
  BY <1>5, LoopHidden DEF vars
<1>. QED
  BY <1>1, <1>2, <1>3, <1>4, <1>5 DEF Next

\* A ringing is never cut short: _fire announces until an ack or the last
\* repeat whatever the requests write meanwhile, and no operation that fails
\* can break it off, only the end of the process.
THEOREM RingingsEndAsPromised == Spec => RingsToTheEnd
<1>1. Init => Loop!Init
  BY DEF Init, SchedInit, AckRegistered, Loop!Init, Loop!Quiet
<1>2. TypeInv /\ [Next]_vars => TypeInv'
  BY TypeNext
<1>3. Spec => []TypeInv
  BY TypeInit, <1>2, PTL DEF Spec
<1>. QED
  BY <1>1, <1>3, LoopStepMaps, PTL DEF Spec, RingsToTheEnd, Loop!Spec

=============================================================================
