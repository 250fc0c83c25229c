------------------------- MODULE TimerServiceProofs -------------------------
(***************************************************************************)
(* Theorems about the timer service, for every set of timers and requests, *)
(* any clock, and any number of crashes and failed database operations.    *)
(***************************************************************************)
EXTENDS TimerServiceInv, TLAPS

\* The two flags, apart from the arithmetic of the rest.
LEMMA FlagsNext ==
  ASSUME wake \in BOOLEAN, acked \in BOOLEAN, [Next]_vars
  PROVE  wake' \in BOOLEAN /\ acked' \in BOOLEAN
BY Zenon DEF Next, SchedNext, SchedStep, RecoverStep, HandlerNext, HandlerStep,
     SchedRead, SchedGoFire, SchedSleep, SchedWake, SchedTimeout, FireWrite,
     FireCommit, Announce, AnnounceSent, AckSeen, Interval, Ack, Resolve,
     ResolveCommit, SchedFault, SchedRetry, RecoverFiring, RecoverScan,
     RecoverMissed, RecoverDone, SetInsert, SetCommit, SetReply, CancelSelect,
     CancelWrite, CancelCommit, CancelReply, HandlerFault, WakeScheduler,
     Tick, Crash, Restart, vars, schedVars, ringVars

\* Every state has the types the modules declare.
LEMMA TypeInit == Init => TypeInv
<1> SUFFICES ASSUME Init PROVE TypeInv
  OBVIOUS
<1> USE HorizonAssumption, SchedulerAssumption, ServiceAssumption
<1>1. wake \in BOOLEAN /\ acked \in BOOLEAN
  BY DEF Init, SchedInit
<1>. QED
  BY <1>1 DEF Init, StoreInit, SchedInit, RequestsInit, TypeInv, HoldInv, TypeOK,
         StoreTypeOK, SchedTypeOK, RequestsTypeOK, Row, Status, Instant, Clock,
         Ringing, HandlerState

LEMMA TypeNext == TypeInv /\ [Next]_vars => TypeInv'
<1> SUFFICES ASSUME TypeInv, [Next]_vars PROVE TypeInv'
  OBVIOUS
<1> USE HorizonAssumption, SchedulerAssumption, ServiceAssumption,
        TimerAssumption, RequestsAssumption, NextOccurrenceAssumption
    DEF TypeInv, HoldInv, TypeOK, StoreTypeOK, SchedTypeOK, RequestsTypeOK,
        storeVars, schedVars, ringVars, recVars, requestVars, historyVars
<1>0. wake' \in BOOLEAN /\ acked' \in BOOLEAN
  BY FlagsNext
<1>1. CASE SchedStep /\ UNCHANGED <<requestVars, crashes>>
  <2>1. CASE SchedRead
    BY <1>0, <1>1, <2>1 DEF SchedRead, Soonest, ByStatus, Ringing
  <2>2. CASE SchedGoFire
    BY <1>0, <1>1, <2>2 DEF SchedGoFire, MustWait, Ringing
  <2>3. CASE SchedSleep \/ SchedWake \/ SchedTimeout
    BY <1>0, <1>1, <2>3 DEF SchedSleep, SchedWake, SchedTimeout, Ringing
  <2>4. CASE FireWrite
    BY <1>0, <1>1, <2>4 DEF FireWrite, SetStatus, Row, Status, Ringing
  <2>5. CASE FireCommit
    BY <1>0, <1>1, <2>5 DEF FireCommit, Commit, Ringing
  <2>6. CASE Announce
    BY <1>0, <1>1, <2>6 DEF Announce, Row, Ringing
  <2>7. CASE AnnounceSent \/ AckSeen \/ Interval \/ SchedRetry
    BY <1>0, <1>1, <2>7 DEF AnnounceSent, AckSeen, Interval, SchedRetry, Ringing
  <2>8. CASE Resolve
    <3>1. NextOccurrence(db[cur].fire, now) \in Instant
      BY <2>8 DEF Resolve, Row, Ringing
    <3>. QED
      BY <1>0, <1>1, <2>8, <3>1 DEF Resolve, Rearm, SetStatus, Row, Status, Ringing
  <2>9. CASE ResolveCommit
    BY <1>0, <1>1, <2>9 DEF ResolveCommit, Commit, Ringing
  <2>. QED
    BY <1>0, <1>1, <2>1, <2>2, <2>3, <2>4, <2>5, <2>6, <2>7, <2>8, <2>9 DEF SchedStep
<1>2. CASE RecoverStep /\ UNCHANGED <<requestVars, crashes>>
  <2>1. CASE RecoverFiring
    BY <1>0, <1>2, <2>1 DEF RecoverFiring, ByStatus, SetStatus, Row, Status, Ringing
  <2>2. CASE RecoverScan \/ RecoverDone
    BY <1>0, <1>2, <2>2 DEF RecoverScan, RecoverDone, ByStatus, Clock, Ringing
  <2>3. CASE RecoverMissed
    <3>1. PICK t \in stale :
            /\ IF t \in Recurring
                 THEN Rearm(t, NextOccurrence(db[t].fire, recNow))
                 ELSE SetStatus(t, "done")
            /\ disk' = db'
            /\ missed' = missed \cup {<<t, db[t].fire>>}
            /\ stale' = stale \ {t}
      BY <2>3 DEF RecoverMissed
    <3>2. NextOccurrence(db[t].fire, recNow) \in Instant
      BY <3>1 DEF Row
    <3>3. db' \in [Timer -> Row]
      BY <3>1, <3>2 DEF Rearm, SetStatus, Row, Status
    <3>4. missed' \subseteq Timer \X Instant
      BY <3>1 DEF Row
    <3>. QED
      BY <1>0, <1>2, <2>3, <3>1, <3>3, <3>4 DEF RecoverMissed, Ringing
  <2>. QED
    BY <1>0, <1>2, <2>1, <2>2, <2>3 DEF RecoverStep
<1>3. CASE (Ack \/ SchedFault) /\ UNCHANGED <<requestVars, crashes>>
  BY <1>0, <1>3 DEF Ack, SchedFault, Ringing
<1>4. ASSUME NEW h \in Handler, HandlerNext(h) /\ UNCHANGED crashes
      PROVE  TypeInv'
  <2>1. CASE SetInsert(h)
    BY <1>0, <1>4, <2>1 DEF SetInsert, Insert, ByStatus, Row, Status, HandlerState
  <2>2. CASE SetCommit(h) \/ CancelCommit(h)
    BY <1>0, <1>4, <2>2 DEF SetCommit, CancelCommit, Commit, HandlerState
  <2>3. CASE SetReply(h) \/ CancelReply(h)
    BY <1>0, <1>4, <2>3 DEF SetReply, CancelReply, WakeScheduler, Finish, HandlerState
  <2>4. CASE CancelSelect(h)
    BY <1>0, <1>4, <2>4 DEF CancelSelect, Matching, Soonest, ByStatus, HandlerState
  <2>5. CASE CancelWrite(h)
    BY <1>0, <1>4, <2>5 DEF CancelWrite, SetStatus, Row, Status, HandlerState
  <2>6. CASE HandlerFault(h)
    BY <1>0, <1>4, <2>6 DEF HandlerFault, Finish, HandlerState
  <2>. QED
    BY <1>0, <1>4, <2>1, <2>2, <2>3, <2>4, <2>5, <2>6 DEF HandlerNext, HandlerStep
<1>5. CASE Tick \/ Restart
  BY <1>0, <1>5 DEF Tick, Restart, Clock, Ringing
<1>6. CASE Crash
  BY <1>0, <1>6 DEF Crash, LoseUncommitted, DropRequests, HandlerState, Clock, Ringing
<1>7. CASE UNCHANGED vars
  BY <1>0, <1>7 DEF vars
<1>. QED
  BY <1>0, <1>1, <1>2, <1>3, <1>4, <1>5, <1>6, <1>7 DEF Next, SchedNext

-----------------------------------------------------------------------------
\* The router's view and the file: recovery is alone, no row disappears.
LEMMA FileNext ==
  TypeInv /\ FileInv /\ [Next]_vars => FileInv'
<1> SUFFICES ASSUME TypeInv /\ FileInv, [Next]_vars PROVE FileInv'
  OBVIOUS
<1> USE TimerAssumption
    DEF TypeInv, HoldInv, TypeOK, StoreTypeOK, SchedTypeOK, RequestsTypeOK,
        Row, storeVars, schedVars, ringVars, recVars, requestVars,
        historyVars, Ringing, FileInv, Serving
<1>1. CASE SchedNext /\ UNCHANGED <<requestVars, crashes>>
  <2>1. CASE SchedRead
    BY <1>1, <2>1 DEF SchedRead, Soonest, ByStatus
  <2>2. CASE SchedGoFire \/ SchedSleep \/ SchedWake \/ SchedTimeout
    BY <1>1, <2>2 DEF SchedGoFire, SchedSleep, SchedWake, SchedTimeout,
       MustWait
  <2>3. CASE AnnounceSent \/ AckSeen \/ Interval \/ Ack \/ SchedFault \/ SchedRetry
    BY <1>1, <2>3 DEF AnnounceSent, AckSeen, Interval, Ack, SchedFault,
       SchedRetry
  <2>4. CASE FireWrite
    BY <1>1, <2>4 DEF FireWrite, SetStatus
  <2>5. CASE FireCommit \/ ResolveCommit
    BY <1>1, <2>5 DEF FireCommit, ResolveCommit, Commit
  <2>6. CASE Announce
    BY <1>1, <2>6 DEF Announce
  <2>7. CASE Resolve
    BY <1>1, <2>7 DEF Resolve, Rearm, SetStatus
  <2>8. CASE RecoverFiring
    BY <1>1, <2>8 DEF RecoverFiring, SetStatus, ByStatus
  <2>9. CASE RecoverScan \/ RecoverDone
    BY <1>1, <2>9 DEF RecoverScan, RecoverDone, ByStatus
  <2>10. CASE RecoverMissed
    BY <1>1, <2>10 DEF RecoverMissed, Rearm, SetStatus
  <2>. QED
    BY <1>1, <2>1, <2>2, <2>3, <2>4, <2>5, <2>6, <2>7, <2>8, <2>9, <2>10 DEF SchedNext, SchedStep, RecoverStep
<1>2. ASSUME NEW h \in Handler, HandlerNext(h) /\ UNCHANGED crashes
      PROVE  FileInv'
  <2>1. CASE SetInsert(h)
    BY <1>2, <2>1 DEF SetInsert, Insert, ByStatus
  <2>2. CASE SetCommit(h) \/ CancelCommit(h)
    BY <1>2, <2>2 DEF SetCommit, CancelCommit, Commit
  <2>3. CASE SetReply(h) \/ CancelReply(h)
    BY <1>2, <2>3 DEF SetReply, CancelReply, WakeScheduler, Finish
  <2>4. CASE CancelSelect(h)
    BY <1>2, <2>4 DEF CancelSelect, Matching, Soonest, ByStatus
  <2>5. CASE CancelWrite(h)
    BY <1>2, <2>5 DEF CancelWrite, SetStatus
  <2>6. CASE HandlerFault(h)
    BY <1>2, <2>6 DEF HandlerFault, Finish
  <2>. QED
    BY <1>2, <2>1, <2>2, <2>3, <2>4, <2>5, <2>6 DEF HandlerNext, HandlerStep
<1>3. CASE Tick \/ Restart
  BY <1>3 DEF Tick, Restart
<1>4. CASE Crash
  BY <1>4 DEF Crash, LoseUncommitted, DropRequests
<1>5. CASE UNCHANGED vars
  BY <1>5 DEF vars
<1>. QED
  BY <1>1, <1>2, <1>3, <1>4, <1>5 DEF Next

\* The row the scheduler holds is moved by nobody else, except to 'cancelled'.
LEMMA HeldRowNext ==
  TypeInv /\ FileInv /\ HeldRowInv /\ [Next]_vars => HeldRowInv'
<1> SUFFICES ASSUME TypeInv /\ FileInv /\ HeldRowInv, [Next]_vars PROVE HeldRowInv'
  OBVIOUS
<1> USE TimerAssumption
    DEF TypeInv, HoldInv, TypeOK, StoreTypeOK, SchedTypeOK, RequestsTypeOK,
        Row, storeVars, schedVars, ringVars, recVars, requestVars,
        historyVars, Ringing, FileInv, HeldRowInv
<1>1. CASE SchedNext /\ UNCHANGED <<requestVars, crashes>>
  <2>1. CASE SchedRead
    BY <1>1, <2>1 DEF SchedRead, Soonest, ByStatus
  <2>2. CASE SchedGoFire \/ SchedSleep \/ SchedWake \/ SchedTimeout
    BY <1>1, <2>2 DEF SchedGoFire, SchedSleep, SchedWake, SchedTimeout,
       MustWait
  <2>3. CASE AnnounceSent \/ AckSeen \/ Interval \/ Ack \/ SchedFault \/ SchedRetry
    BY <1>1, <2>3 DEF AnnounceSent, AckSeen, Interval, Ack, SchedFault,
       SchedRetry
  <2>4. CASE FireWrite
    BY <1>1, <2>4 DEF FireWrite, SetStatus
  <2>5. CASE FireCommit \/ ResolveCommit
    BY <1>1, <2>5 DEF FireCommit, ResolveCommit, Commit
  <2>6. CASE Announce
    BY <1>1, <2>6 DEF Announce
  <2>7. CASE Resolve
    BY <1>1, <2>7 DEF Resolve, Rearm, SetStatus
  <2>8. CASE RecoverFiring
    BY <1>1, <2>8 DEF RecoverFiring, SetStatus, ByStatus
  <2>9. CASE RecoverScan \/ RecoverDone
    BY <1>1, <2>9 DEF RecoverScan, RecoverDone, ByStatus
  <2>10. CASE RecoverMissed
    BY <1>1, <2>10 DEF RecoverMissed, Rearm, SetStatus
  <2>. QED
    BY <1>1, <2>1, <2>2, <2>3, <2>4, <2>5, <2>6, <2>7, <2>8, <2>9, <2>10 DEF SchedNext, SchedStep, RecoverStep
<1>2. ASSUME NEW h \in Handler, HandlerNext(h) /\ UNCHANGED crashes
      PROVE  HeldRowInv'
  <2>1. CASE SetInsert(h)
    BY <1>2, <2>1 DEF SetInsert, Insert, ByStatus
  <2>2. CASE SetCommit(h) \/ CancelCommit(h)
    BY <1>2, <2>2 DEF SetCommit, CancelCommit, Commit
  <2>3. CASE SetReply(h) \/ CancelReply(h)
    BY <1>2, <2>3 DEF SetReply, CancelReply, WakeScheduler, Finish
  <2>4. CASE CancelSelect(h)
    BY <1>2, <2>4 DEF CancelSelect, Matching, Soonest, ByStatus
  <2>5. CASE CancelWrite(h)
    BY <1>2, <2>5 DEF CancelWrite, SetStatus
  <2>6. CASE HandlerFault(h)
    BY <1>2, <2>6 DEF HandlerFault, Finish
  <2>. QED
    BY <1>2, <2>1, <2>2, <2>3, <2>4, <2>5, <2>6 DEF HandlerNext, HandlerStep
<1>3. CASE Tick \/ Restart
  BY <1>3 DEF Tick, Restart
<1>4. CASE Crash
  BY <1>4 DEF Crash, LoseUncommitted, DropRequests
<1>5. CASE UNCHANGED vars
  BY <1>5 DEF vars
<1>. QED
  BY <1>1, <1>2, <1>3, <1>4, <1>5 DEF Next

-----------------------------------------------------------------------------
\* _resolve writes the row it rang, and no other.
LEMMA ResolveRow ==
  ASSUME TypeInv, Resolve
  PROVE  /\ cur \in Timer
         /\ \A t \in Timer : t # cur => db'[t] = db[t]
         /\ db'[cur].status \in {"armed", "done"}
         /\ db'[cur].status = "done" => db'[cur].fire = db[cur].fire
<1>1. cur \in Timer /\ db \in [Timer -> Row]
  BY DEF Resolve, TypeInv, TypeOK, StoreTypeOK, HoldInv, Ringing
<1>2. CASE cur \in Recurring
  BY <1>1, <1>2 DEF Resolve, Rearm
<1>3. CASE cur \notin Recurring
  BY <1>1, <1>3 DEF Resolve, SetStatus, Row
<1>. QED
  BY <1>1, <1>2, <1>3

\* Every occurrence that leaves the table was announced or given up.
LEMMA AccountNext ==
  TypeInv /\ FileInv /\ HeldRowInv /\ AccountInv /\ [Next]_vars => AccountInv'
<1> SUFFICES ASSUME TypeInv /\ FileInv /\ HeldRowInv /\ AccountInv, [Next]_vars PROVE AccountInv'
  OBVIOUS
<1> USE TimerAssumption
    DEF TypeInv, HoldInv, TypeOK, StoreTypeOK, SchedTypeOK, RequestsTypeOK,
        Row, storeVars, schedVars, ringVars, recVars, requestVars,
        historyVars, Ringing, FileInv, HeldRowInv, AccountInv, Accounted
<1>1. CASE SchedNext /\ UNCHANGED <<requestVars, crashes>>
  <2>1. CASE SchedRead
    BY <1>1, <2>1 DEF SchedRead, Soonest, ByStatus
  <2>2. CASE SchedGoFire \/ SchedSleep \/ SchedWake \/ SchedTimeout
    BY <1>1, <2>2 DEF SchedGoFire, SchedSleep, SchedWake, SchedTimeout,
       MustWait
  <2>3. CASE AnnounceSent \/ AckSeen \/ Interval \/ Ack \/ SchedFault \/ SchedRetry
    BY <1>1, <2>3 DEF AnnounceSent, AckSeen, Interval, Ack, SchedFault,
       SchedRetry
  <2>4. CASE FireWrite
    BY <1>1, <2>4 DEF FireWrite, SetStatus
  <2>5. CASE FireCommit \/ ResolveCommit
    BY <1>1, <2>5 DEF FireCommit, ResolveCommit, Commit
  <2>6. CASE Announce
    BY <1>1, <2>6 DEF Announce
  <2>7. CASE Resolve
    BY <1>1, <2>7, ResolveRow DEF Resolve
  <2>8. CASE RecoverFiring
    BY <1>1, <2>8 DEF RecoverFiring, SetStatus, ByStatus
  <2>9. CASE RecoverScan \/ RecoverDone
    BY <1>1, <2>9 DEF RecoverScan, RecoverDone, ByStatus
  <2>10. CASE RecoverMissed
    BY <1>1, <2>10 DEF RecoverMissed, Rearm, SetStatus
  <2>. QED
    BY <1>1, <2>1, <2>2, <2>3, <2>4, <2>5, <2>6, <2>7, <2>8, <2>9, <2>10 DEF SchedNext, SchedStep, RecoverStep
<1>2. ASSUME NEW h \in Handler, HandlerNext(h) /\ UNCHANGED crashes
      PROVE  AccountInv'
  <2>1. CASE SetInsert(h)
    <3>1. PICK t \in Timer, f \in Instant :
            db[t].status = "absent" /\ Insert(t, f)
      BY <2>1 DEF SetInsert, ByStatus
    <3>2. \A u \in Timer : u # t => db'[u] = db[u]
      BY <3>1 DEF Insert
    <3>3. db'[t].status = "armed" /\ disk[t].status = "absent"
      BY <3>1 DEF Insert
    <3>4. cur # t \/ spc \notin Ringing
      BY <3>1
    <3>. QED
      BY <1>2, <2>1, <3>2, <3>3, <3>4 DEF SetInsert
  <2>2. CASE SetCommit(h) \/ CancelCommit(h)
    BY <1>2, <2>2 DEF SetCommit, CancelCommit, Commit
  <2>3. CASE SetReply(h) \/ CancelReply(h)
    BY <1>2, <2>3 DEF SetReply, CancelReply, WakeScheduler, Finish
  <2>4. CASE CancelSelect(h)
    BY <1>2, <2>4 DEF CancelSelect, Matching, Soonest, ByStatus
  <2>5. CASE CancelWrite(h)
    <3>1. \A t \in Timer : /\ db'[t].fire = db[t].fire
                        /\ db'[t].status \in {db[t].status, "cancelled"}
      BY <1>2, <2>5 DEF CancelWrite, SetStatus
    <3>. QED
      BY <1>2, <2>5, <3>1 DEF CancelWrite
  <2>6. CASE HandlerFault(h)
    BY <1>2, <2>6 DEF HandlerFault, Finish
  <2>. QED
    BY <1>2, <2>1, <2>2, <2>3, <2>4, <2>5, <2>6 DEF HandlerNext, HandlerStep
<1>3. CASE Tick \/ Restart
  BY <1>3 DEF Tick, Restart
<1>4. CASE Crash
  BY <1>4 DEF Crash, LoseUncommitted, DropRequests
<1>5. CASE UNCHANGED vars
  BY <1>5 DEF vars
<1>. QED
  BY <1>1, <1>2, <1>3, <1>4, <1>5 DEF Next

\* A settled row is out of the scheduler's reach.
LEMMA SettledNext ==
  TypeInv /\ FileInv /\ HeldRowInv /\ SettledInv /\ [Next]_vars => SettledInv'
<1> SUFFICES ASSUME TypeInv /\ FileInv /\ HeldRowInv /\ SettledInv, [Next]_vars PROVE SettledInv'
  OBVIOUS
<1> USE TimerAssumption
    DEF TypeInv, HoldInv, TypeOK, StoreTypeOK, SchedTypeOK, RequestsTypeOK,
        Row, storeVars, schedVars, ringVars, recVars, requestVars,
        historyVars, Ringing, FileInv, HeldRowInv, SettledInv
<1>1. CASE SchedNext /\ UNCHANGED <<requestVars, crashes>>
  <2>1. CASE SchedRead
    BY <1>1, <2>1 DEF SchedRead, Soonest, ByStatus
  <2>2. CASE SchedGoFire \/ SchedSleep \/ SchedWake \/ SchedTimeout
    BY <1>1, <2>2 DEF SchedGoFire, SchedSleep, SchedWake, SchedTimeout,
       MustWait
  <2>3. CASE AnnounceSent \/ AckSeen \/ Interval \/ Ack \/ SchedFault \/ SchedRetry
    BY <1>1, <2>3 DEF AnnounceSent, AckSeen, Interval, Ack, SchedFault,
       SchedRetry
  <2>4. CASE FireWrite
    BY <1>1, <2>4 DEF FireWrite, SetStatus
  <2>5. CASE FireCommit \/ ResolveCommit
    BY <1>1, <2>5 DEF FireCommit, ResolveCommit, Commit
  <2>6. CASE Announce
    BY <1>1, <2>6 DEF Announce
  <2>7. CASE Resolve
    BY <1>1, <2>7 DEF Resolve, Rearm, SetStatus
  <2>8. CASE RecoverFiring
    BY <1>1, <2>8 DEF RecoverFiring, SetStatus, ByStatus
  <2>9. CASE RecoverScan \/ RecoverDone
    BY <1>1, <2>9 DEF RecoverScan, RecoverDone, ByStatus
  <2>10. CASE RecoverMissed
    BY <1>1, <2>10 DEF RecoverMissed, Rearm, SetStatus
  <2>. QED
    BY <1>1, <2>1, <2>2, <2>3, <2>4, <2>5, <2>6, <2>7, <2>8, <2>9, <2>10 DEF SchedNext, SchedStep, RecoverStep
<1>2. ASSUME NEW h \in Handler, HandlerNext(h) /\ UNCHANGED crashes
      PROVE  SettledInv'
  <2>1. CASE SetInsert(h)
    BY <1>2, <2>1 DEF SetInsert, Insert, ByStatus
  <2>2. CASE SetCommit(h) \/ CancelCommit(h)
    BY <1>2, <2>2 DEF SetCommit, CancelCommit, Commit
  <2>3. CASE SetReply(h) \/ CancelReply(h)
    BY <1>2, <2>3 DEF SetReply, CancelReply, WakeScheduler, Finish
  <2>4. CASE CancelSelect(h)
    BY <1>2, <2>4 DEF CancelSelect, Matching, Soonest, ByStatus
  <2>5. CASE CancelWrite(h)
    BY <1>2, <2>5 DEF CancelWrite, SetStatus
  <2>6. CASE HandlerFault(h)
    BY <1>2, <2>6 DEF HandlerFault, Finish
  <2>. QED
    BY <1>2, <2>1, <2>2, <2>3, <2>4, <2>5, <2>6 DEF HandlerNext, HandlerStep
<1>3. CASE Tick \/ Restart
  BY <1>3 DEF Tick, Restart
<1>4. CASE Crash
  BY <1>4 DEF Crash, LoseUncommitted, DropRequests
<1>5. CASE UNCHANGED vars
  BY <1>5 DEF vars
<1>. QED
  BY <1>1, <1>2, <1>3, <1>4, <1>5 DEF Next

\* An answer speaks of a committed row.
LEMMA ConfirmNext ==
  TypeInv /\ FileInv /\ ConfirmInv /\ [Next]_vars => ConfirmInv'
<1> SUFFICES ASSUME TypeInv /\ FileInv /\ ConfirmInv, [Next]_vars PROVE ConfirmInv'
  OBVIOUS
<1> USE TimerAssumption
    DEF TypeInv, HoldInv, TypeOK, StoreTypeOK, SchedTypeOK, RequestsTypeOK,
        Row, storeVars, schedVars, ringVars, recVars, requestVars,
        historyVars, Ringing, FileInv, ConfirmInv, ConfirmedIsDurable
<1>1. CASE SchedNext /\ UNCHANGED <<requestVars, crashes>>
  <2>1. CASE SchedRead
    BY <1>1, <2>1 DEF SchedRead, Soonest, ByStatus
  <2>2. CASE SchedGoFire \/ SchedSleep \/ SchedWake \/ SchedTimeout
    BY <1>1, <2>2 DEF SchedGoFire, SchedSleep, SchedWake, SchedTimeout,
       MustWait
  <2>3. CASE AnnounceSent \/ AckSeen \/ Interval \/ Ack \/ SchedFault \/ SchedRetry
    BY <1>1, <2>3 DEF AnnounceSent, AckSeen, Interval, Ack, SchedFault,
       SchedRetry
  <2>4. CASE FireWrite
    BY <1>1, <2>4 DEF FireWrite, SetStatus
  <2>5. CASE FireCommit \/ ResolveCommit
    BY <1>1, <2>5 DEF FireCommit, ResolveCommit, Commit
  <2>6. CASE Announce
    BY <1>1, <2>6 DEF Announce
  <2>7. CASE Resolve
    BY <1>1, <2>7, ResolveRow DEF Resolve
  <2>8. CASE RecoverFiring
    BY <1>1, <2>8 DEF RecoverFiring, SetStatus, ByStatus
  <2>9. CASE RecoverScan \/ RecoverDone
    BY <1>1, <2>9 DEF RecoverScan, RecoverDone, ByStatus
  <2>10. CASE RecoverMissed
    BY <1>1, <2>10 DEF RecoverMissed, Rearm, SetStatus
  <2>. QED
    BY <1>1, <2>1, <2>2, <2>3, <2>4, <2>5, <2>6, <2>7, <2>8, <2>9, <2>10 DEF SchedNext, SchedStep, RecoverStep
<1>2. ASSUME NEW h \in Handler, HandlerNext(h) /\ UNCHANGED crashes
      PROVE  ConfirmInv'
  <2>1. CASE SetInsert(h)
    BY <1>2, <2>1 DEF SetInsert, Insert, ByStatus
  <2>2. CASE SetCommit(h) \/ CancelCommit(h)
    BY <1>2, <2>2 DEF SetCommit, CancelCommit, Commit
  <2>3. CASE SetReply(h) \/ CancelReply(h)
    BY <1>2, <2>3 DEF SetReply, CancelReply, WakeScheduler, Finish
  <2>4. CASE CancelSelect(h)
    BY <1>2, <2>4 DEF CancelSelect, Matching, Soonest, ByStatus
  <2>5. CASE CancelWrite(h)
    BY <1>2, <2>5 DEF CancelWrite, SetStatus
  <2>6. CASE HandlerFault(h)
    BY <1>2, <2>6 DEF HandlerFault, Finish
  <2>. QED
    BY <1>2, <2>1, <2>2, <2>3, <2>4, <2>5, <2>6 DEF HandlerNext, HandlerStep
<1>3. CASE Tick \/ Restart
  BY <1>3 DEF Tick, Restart
<1>4. CASE Crash
  BY <1>4 DEF Crash, LoseUncommitted, DropRequests
<1>5. CASE UNCHANGED vars
  BY <1>5 DEF vars
<1>. QED
  BY <1>1, <1>2, <1>3, <1>4, <1>5 DEF Next

-----------------------------------------------------------------------------
\* A row cancelled while the scheduler held another stays cancelled.
LEMMA SealNext ==
  TypeInv /\ FileInv /\ SealInv /\ [Next]_vars => SealInv'
<1> SUFFICES ASSUME TypeInv /\ FileInv /\ SealInv, [Next]_vars PROVE SealInv'
  OBVIOUS
<1> USE TimerAssumption
    DEF TypeInv, HoldInv, TypeOK, StoreTypeOK, SchedTypeOK, RequestsTypeOK,
        Row, storeVars, schedVars, ringVars, recVars, requestVars,
        historyVars, Ringing, FileInv, SealInv
<1>1. CASE SchedNext /\ UNCHANGED <<requestVars, crashes>>
  <2>1. CASE SchedRead
    BY <1>1, <2>1 DEF SchedRead, Soonest, ByStatus
  <2>2. CASE SchedGoFire \/ SchedSleep \/ SchedWake \/ SchedTimeout
    BY <1>1, <2>2 DEF SchedGoFire, SchedSleep, SchedWake, SchedTimeout,
       MustWait
  <2>3. CASE AnnounceSent \/ AckSeen \/ Interval \/ Ack \/ SchedFault \/ SchedRetry
    BY <1>1, <2>3 DEF AnnounceSent, AckSeen, Interval, Ack, SchedFault,
       SchedRetry
  <2>4. CASE FireWrite
    BY <1>1, <2>4 DEF FireWrite, SetStatus
  <2>5. CASE FireCommit \/ ResolveCommit
    BY <1>1, <2>5 DEF FireCommit, ResolveCommit, Commit
  <2>6. CASE Announce
    BY <1>1, <2>6 DEF Announce
  <2>7. CASE Resolve
    BY <1>1, <2>7 DEF Resolve, Rearm, SetStatus
  <2>8. CASE RecoverFiring
    BY <1>1, <2>8 DEF RecoverFiring, SetStatus, ByStatus
  <2>9. CASE RecoverScan \/ RecoverDone
    BY <1>1, <2>9 DEF RecoverScan, RecoverDone, ByStatus
  <2>10. CASE RecoverMissed
    BY <1>1, <2>10 DEF RecoverMissed, Rearm, SetStatus
  <2>. QED
    BY <1>1, <2>1, <2>2, <2>3, <2>4, <2>5, <2>6, <2>7, <2>8, <2>9, <2>10 DEF SchedNext, SchedStep, RecoverStep
<1>2. ASSUME NEW h \in Handler, HandlerNext(h) /\ UNCHANGED crashes
      PROVE  SealInv'
  <2>1. CASE SetInsert(h)
    BY <1>2, <2>1 DEF SetInsert, Insert, ByStatus
  <2>2. CASE SetCommit(h) \/ CancelCommit(h)
    BY <1>2, <2>2 DEF SetCommit, CancelCommit, Commit
  <2>3. CASE SetReply(h) \/ CancelReply(h)
    BY <1>2, <2>3 DEF SetReply, CancelReply, WakeScheduler, Finish
  <2>4. CASE CancelSelect(h)
    BY <1>2, <2>4 DEF CancelSelect, Matching, Soonest, ByStatus
  <2>5. CASE CancelWrite(h)
    BY <1>2, <2>5 DEF CancelWrite, SetStatus
  <2>6. CASE HandlerFault(h)
    BY <1>2, <2>6 DEF HandlerFault, Finish
  <2>. QED
    BY <1>2, <2>1, <2>2, <2>3, <2>4, <2>5, <2>6 DEF HandlerNext, HandlerStep
<1>3. CASE Tick \/ Restart
  BY <1>3 DEF Tick, Restart
<1>4. CASE Crash
  BY <1>4 DEF Crash, LoseUncommitted, DropRequests
<1>5. CASE UNCHANGED vars
  BY <1>5 DEF vars
<1>. QED
  BY <1>1, <1>2, <1>3, <1>4, <1>5 DEF Next

\* After an ack, the loop ends with the announcement under way.
LEMMA AckNext ==
  TypeInv /\ AckInv /\ [Next]_vars => AckInv'
<1> SUFFICES ASSUME TypeInv /\ AckInv, [Next]_vars PROVE AckInv'
  OBVIOUS
<1> USE TimerAssumption
    DEF TypeInv, HoldInv, TypeOK, StoreTypeOK, SchedTypeOK, RequestsTypeOK,
        Row, storeVars, schedVars, ringVars, recVars, requestVars,
        historyVars, Ringing, AckInv
<1>1. CASE SchedNext /\ UNCHANGED <<requestVars, crashes>>
  <2>1. CASE SchedRead
    BY <1>1, <2>1 DEF SchedRead, Soonest, ByStatus
  <2>2. CASE SchedGoFire \/ SchedSleep \/ SchedWake \/ SchedTimeout
    BY <1>1, <2>2 DEF SchedGoFire, SchedSleep, SchedWake, SchedTimeout,
       MustWait
  <2>3. CASE AnnounceSent \/ AckSeen \/ Interval \/ Ack \/ SchedFault \/ SchedRetry
    BY <1>1, <2>3 DEF AnnounceSent, AckSeen, Interval, Ack, SchedFault,
       SchedRetry
  <2>4. CASE FireWrite
    BY <1>1, <2>4 DEF FireWrite, SetStatus
  <2>5. CASE FireCommit \/ ResolveCommit
    BY <1>1, <2>5 DEF FireCommit, ResolveCommit, Commit
  <2>6. CASE Announce
    BY <1>1, <2>6 DEF Announce
  <2>7. CASE Resolve
    BY <1>1, <2>7 DEF Resolve, Rearm, SetStatus
  <2>8. CASE RecoverFiring
    BY <1>1, <2>8 DEF RecoverFiring, SetStatus, ByStatus
  <2>9. CASE RecoverScan \/ RecoverDone
    BY <1>1, <2>9 DEF RecoverScan, RecoverDone, ByStatus
  <2>10. CASE RecoverMissed
    BY <1>1, <2>10 DEF RecoverMissed, Rearm, SetStatus
  <2>. QED
    BY <1>1, <2>1, <2>2, <2>3, <2>4, <2>5, <2>6, <2>7, <2>8, <2>9, <2>10 DEF SchedNext, SchedStep, RecoverStep
<1>2. ASSUME NEW h \in Handler, HandlerNext(h) /\ UNCHANGED crashes
      PROVE  AckInv'
  <2>1. CASE SetInsert(h)
    BY <1>2, <2>1 DEF SetInsert, Insert, ByStatus
  <2>2. CASE SetCommit(h) \/ CancelCommit(h)
    BY <1>2, <2>2 DEF SetCommit, CancelCommit, Commit
  <2>3. CASE SetReply(h) \/ CancelReply(h)
    BY <1>2, <2>3 DEF SetReply, CancelReply, WakeScheduler, Finish
  <2>4. CASE CancelSelect(h)
    BY <1>2, <2>4 DEF CancelSelect, Matching, Soonest, ByStatus
  <2>5. CASE CancelWrite(h)
    BY <1>2, <2>5 DEF CancelWrite, SetStatus
  <2>6. CASE HandlerFault(h)
    BY <1>2, <2>6 DEF HandlerFault, Finish
  <2>. QED
    BY <1>2, <2>1, <2>2, <2>3, <2>4, <2>5, <2>6 DEF HandlerNext, HandlerStep
<1>3. CASE Tick \/ Restart
  BY <1>3 DEF Tick, Restart
<1>4. CASE Crash
  BY <1>4 DEF Crash, LoseUncommitted, DropRequests
<1>5. CASE UNCHANGED vars
  BY <1>5 DEF vars
<1>. QED
  BY <1>1, <1>2, <1>3, <1>4, <1>5 DEF Next

\* What the scheduler waits for is the earliest, or its event will end the wait.
LEMMA WakeNext ==
  TypeInv /\ HeldRowInv /\ NoLostWakeup /\ [Next]_vars => NoLostWakeup'
<1> SUFFICES ASSUME TypeInv /\ HeldRowInv /\ NoLostWakeup, [Next]_vars PROVE NoLostWakeup'
  OBVIOUS
<1> USE TimerAssumption
    DEF TypeInv, HoldInv, TypeOK, StoreTypeOK, SchedTypeOK, RequestsTypeOK,
        Row, storeVars, schedVars, ringVars, recVars, requestVars,
        historyVars, Ringing, HeldRowInv, NoLostWakeup, WakePending, ByStatus,
        Instant
<1>1. CASE SchedNext /\ UNCHANGED <<requestVars, crashes>>
  <2>1. CASE SchedRead
    BY <1>1, <2>1 DEF SchedRead, Soonest, ByStatus
  <2>2. CASE SchedGoFire \/ SchedSleep \/ SchedWake \/ SchedTimeout
    BY <1>1, <2>2 DEF SchedGoFire, SchedSleep, SchedWake, SchedTimeout,
       MustWait
  <2>3. CASE AnnounceSent \/ AckSeen \/ Interval \/ Ack \/ SchedFault \/ SchedRetry
    BY <1>1, <2>3 DEF AnnounceSent, AckSeen, Interval, Ack, SchedFault,
       SchedRetry
  <2>4. CASE FireWrite
    BY <1>1, <2>4 DEF FireWrite, SetStatus
  <2>5. CASE FireCommit \/ ResolveCommit
    BY <1>1, <2>5 DEF FireCommit, ResolveCommit, Commit
  <2>6. CASE Announce
    BY <1>1, <2>6 DEF Announce
  <2>7. CASE Resolve
    BY <1>1, <2>7 DEF Resolve, Rearm, SetStatus
  <2>8. CASE RecoverFiring
    BY <1>1, <2>8 DEF RecoverFiring, SetStatus, ByStatus
  <2>9. CASE RecoverScan \/ RecoverDone
    BY <1>1, <2>9 DEF RecoverScan, RecoverDone, ByStatus
  <2>10. CASE RecoverMissed
    BY <1>1, <2>10 DEF RecoverMissed, Rearm, SetStatus
  <2>. QED
    BY <1>1, <2>1, <2>2, <2>3, <2>4, <2>5, <2>6, <2>7, <2>8, <2>9, <2>10 DEF SchedNext, SchedStep, RecoverStep
<1>2. ASSUME NEW h \in Handler, HandlerNext(h) /\ UNCHANGED crashes
      PROVE  NoLostWakeup'
  <2>1. CASE SetInsert(h)
    BY <1>2, <2>1 DEF SetInsert, Insert, ByStatus
  <2>2. CASE SetCommit(h) \/ CancelCommit(h)
    BY <1>2, <2>2 DEF SetCommit, CancelCommit, Commit
  <2>3. CASE SetReply(h) \/ CancelReply(h)
    BY <1>2, <2>3 DEF SetReply, CancelReply, WakeScheduler, Finish
  <2>4. CASE CancelSelect(h)
    BY <1>2, <2>4 DEF CancelSelect, Matching, Soonest, ByStatus
  <2>5. CASE CancelWrite(h)
    BY <1>2, <2>5 DEF CancelWrite, SetStatus
  <2>6. CASE HandlerFault(h)
    BY <1>2, <2>6 DEF HandlerFault, Finish
  <2>. QED
    BY <1>2, <2>1, <2>2, <2>3, <2>4, <2>5, <2>6 DEF HandlerNext, HandlerStep
<1>3. CASE Tick \/ Restart
  BY <1>3 DEF Tick, Restart
<1>4. CASE Crash
  BY <1>4 DEF Crash, LoseUncommitted, DropRequests
<1>5. CASE UNCHANGED vars
  BY <1>5 DEF vars
<1>. QED
  BY <1>1, <1>2, <1>3, <1>4, <1>5 DEF Next

\* Without failures, only the row being rung is 'firing'.
LEMMA StrandNext ==
  TypeInv /\ FileInv /\ HeldRowInv /\ NoStrandedFiring /\ [Next]_vars => NoStrandedFiring'
<1> SUFFICES ASSUME TypeInv /\ FileInv /\ HeldRowInv /\ NoStrandedFiring, [Next]_vars PROVE NoStrandedFiring'
  OBVIOUS
<1> USE TimerAssumption
    DEF TypeInv, HoldInv, TypeOK, StoreTypeOK, SchedTypeOK, RequestsTypeOK,
        Row, storeVars, schedVars, ringVars, recVars, requestVars,
        historyVars, Ringing, FileInv, HeldRowInv, NoStrandedFiring, ByStatus
<1>1. CASE SchedNext /\ UNCHANGED <<requestVars, crashes>>
  <2>1. CASE SchedRead
    BY <1>1, <2>1 DEF SchedRead, Soonest, ByStatus
  <2>2. CASE SchedGoFire \/ SchedSleep \/ SchedWake \/ SchedTimeout
    BY <1>1, <2>2 DEF SchedGoFire, SchedSleep, SchedWake, SchedTimeout,
       MustWait
  <2>3. CASE AnnounceSent \/ AckSeen \/ Interval \/ Ack \/ SchedFault \/ SchedRetry
    BY <1>1, <2>3 DEF AnnounceSent, AckSeen, Interval, Ack, SchedFault,
       SchedRetry
  <2>4. CASE FireWrite
    BY <1>1, <2>4 DEF FireWrite, SetStatus
  <2>5. CASE FireCommit \/ ResolveCommit
    BY <1>1, <2>5 DEF FireCommit, ResolveCommit, Commit
  <2>6. CASE Announce
    BY <1>1, <2>6 DEF Announce
  <2>7. CASE Resolve
    BY <1>1, <2>7, ResolveRow DEF Resolve
  <2>8. CASE RecoverFiring
    BY <1>1, <2>8 DEF RecoverFiring, SetStatus, ByStatus
  <2>9. CASE RecoverScan \/ RecoverDone
    BY <1>1, <2>9 DEF RecoverScan, RecoverDone, ByStatus
  <2>10. CASE RecoverMissed
    BY <1>1, <2>10 DEF RecoverMissed, Rearm, SetStatus
  <2>. QED
    BY <1>1, <2>1, <2>2, <2>3, <2>4, <2>5, <2>6, <2>7, <2>8, <2>9, <2>10 DEF SchedNext, SchedStep, RecoverStep
<1>2. ASSUME NEW h \in Handler, HandlerNext(h) /\ UNCHANGED crashes
      PROVE  NoStrandedFiring'
  <2>1. CASE SetInsert(h)
    BY <1>2, <2>1 DEF SetInsert, Insert, ByStatus
  <2>2. CASE SetCommit(h) \/ CancelCommit(h)
    BY <1>2, <2>2 DEF SetCommit, CancelCommit, Commit
  <2>3. CASE SetReply(h) \/ CancelReply(h)
    BY <1>2, <2>3 DEF SetReply, CancelReply, WakeScheduler, Finish
  <2>4. CASE CancelSelect(h)
    BY <1>2, <2>4 DEF CancelSelect, Matching, Soonest, ByStatus
  <2>5. CASE CancelWrite(h)
    BY <1>2, <2>5 DEF CancelWrite, SetStatus
  <2>6. CASE HandlerFault(h)
    BY <1>2, <2>6 DEF HandlerFault, Finish
  <2>. QED
    BY <1>2, <2>1, <2>2, <2>3, <2>4, <2>5, <2>6 DEF HandlerNext, HandlerStep
<1>3. CASE Tick \/ Restart
  BY <1>3 DEF Tick, Restart
<1>4. CASE Crash
  BY <1>4 DEF Crash, LoseUncommitted, DropRequests
<1>5. CASE UNCHANGED vars
  BY <1>5 DEF vars
<1>. QED
  BY <1>1, <1>2, <1>3, <1>4, <1>5 DEF Next

-----------------------------------------------------------------------------
(* The steps of the two action properties. *)

\* A step that moves a row's fire_at in the file leaves its old one accounted.
LEMMA OccurrenceNext ==
  TypeInv /\ FileInv /\ AccountInv /\ [Next]_vars => OccurrenceStep
<1> SUFFICES ASSUME TypeInv /\ FileInv /\ AccountInv, [Next]_vars PROVE OccurrenceStep
  OBVIOUS
<1> USE TimerAssumption
    DEF TypeInv, HoldInv, TypeOK, StoreTypeOK, SchedTypeOK, RequestsTypeOK,
        Row, storeVars, schedVars, ringVars, recVars, requestVars,
        historyVars, Ringing, FileInv, AccountInv, OccurrenceStep, Accounted
<1>1. CASE SchedNext /\ UNCHANGED <<requestVars, crashes>>
  <2>1. CASE SchedRead
    BY <1>1, <2>1 DEF SchedRead, Soonest, ByStatus
  <2>2. CASE SchedGoFire \/ SchedSleep \/ SchedWake \/ SchedTimeout
    BY <1>1, <2>2 DEF SchedGoFire, SchedSleep, SchedWake, SchedTimeout,
       MustWait
  <2>3. CASE AnnounceSent \/ AckSeen \/ Interval \/ Ack \/ SchedFault \/ SchedRetry
    BY <1>1, <2>3 DEF AnnounceSent, AckSeen, Interval, Ack, SchedFault,
       SchedRetry
  <2>4. CASE FireWrite
    BY <1>1, <2>4 DEF FireWrite, SetStatus
  <2>5. CASE FireCommit \/ ResolveCommit
    BY <1>1, <2>5 DEF FireCommit, ResolveCommit, Commit
  <2>6. CASE Announce
    BY <1>1, <2>6 DEF Announce
  <2>7. CASE Resolve
    BY <1>1, <2>7 DEF Resolve, Rearm, SetStatus
  <2>8. CASE RecoverFiring
    BY <1>1, <2>8 DEF RecoverFiring, SetStatus, ByStatus
  <2>9. CASE RecoverScan \/ RecoverDone
    BY <1>1, <2>9 DEF RecoverScan, RecoverDone, ByStatus
  <2>10. CASE RecoverMissed
    BY <1>1, <2>10 DEF RecoverMissed, Rearm, SetStatus
  <2>. QED
    BY <1>1, <2>1, <2>2, <2>3, <2>4, <2>5, <2>6, <2>7, <2>8, <2>9, <2>10 DEF SchedNext, SchedStep, RecoverStep
<1>2. ASSUME NEW h \in Handler, HandlerNext(h) /\ UNCHANGED crashes
      PROVE  OccurrenceStep
  <2>1. CASE SetInsert(h)
    BY <1>2, <2>1 DEF SetInsert, Insert, ByStatus
  <2>2. CASE SetCommit(h) \/ CancelCommit(h)
    BY <1>2, <2>2 DEF SetCommit, CancelCommit, Commit
  <2>3. CASE SetReply(h) \/ CancelReply(h)
    BY <1>2, <2>3 DEF SetReply, CancelReply, WakeScheduler, Finish
  <2>4. CASE CancelSelect(h)
    BY <1>2, <2>4 DEF CancelSelect, Matching, Soonest, ByStatus
  <2>5. CASE CancelWrite(h)
    BY <1>2, <2>5 DEF CancelWrite, SetStatus
  <2>6. CASE HandlerFault(h)
    BY <1>2, <2>6 DEF HandlerFault, Finish
  <2>. QED
    BY <1>2, <2>1, <2>2, <2>3, <2>4, <2>5, <2>6 DEF HandlerNext, HandlerStep
<1>3. CASE Tick \/ Restart
  BY <1>3 DEF Tick, Restart
<1>4. CASE Crash
  BY <1>4 DEF Crash, LoseUncommitted, DropRequests
<1>5. CASE UNCHANGED vars
  BY <1>5 DEF vars
<1>. QED
  BY <1>1, <1>2, <1>3, <1>4, <1>5 DEF Next

\* A step leaves what is done in the file done, or cancels it.
LEMMA SettledStepNext ==
  TypeInv /\ FileInv /\ SettledInv /\ [Next]_vars => SettledStep
<1> SUFFICES ASSUME TypeInv /\ FileInv /\ SettledInv, [Next]_vars PROVE SettledStep
  OBVIOUS
<1> USE TimerAssumption
    DEF TypeInv, HoldInv, TypeOK, StoreTypeOK, SchedTypeOK, RequestsTypeOK,
        Row, storeVars, schedVars, ringVars, recVars, requestVars,
        historyVars, Ringing, FileInv, SettledInv, SettledStep
<1>1. CASE SchedNext /\ UNCHANGED <<requestVars, crashes>>
  <2>1. CASE SchedRead
    BY <1>1, <2>1 DEF SchedRead, Soonest, ByStatus
  <2>2. CASE SchedGoFire \/ SchedSleep \/ SchedWake \/ SchedTimeout
    BY <1>1, <2>2 DEF SchedGoFire, SchedSleep, SchedWake, SchedTimeout,
       MustWait
  <2>3. CASE AnnounceSent \/ AckSeen \/ Interval \/ Ack \/ SchedFault \/ SchedRetry
    BY <1>1, <2>3 DEF AnnounceSent, AckSeen, Interval, Ack, SchedFault,
       SchedRetry
  <2>4. CASE FireWrite
    BY <1>1, <2>4 DEF FireWrite, SetStatus
  <2>5. CASE FireCommit \/ ResolveCommit
    BY <1>1, <2>5 DEF FireCommit, ResolveCommit, Commit
  <2>6. CASE Announce
    BY <1>1, <2>6 DEF Announce
  <2>7. CASE Resolve
    BY <1>1, <2>7 DEF Resolve, Rearm, SetStatus
  <2>8. CASE RecoverFiring
    BY <1>1, <2>8 DEF RecoverFiring, SetStatus, ByStatus
  <2>9. CASE RecoverScan \/ RecoverDone
    BY <1>1, <2>9 DEF RecoverScan, RecoverDone, ByStatus
  <2>10. CASE RecoverMissed
    BY <1>1, <2>10 DEF RecoverMissed, Rearm, SetStatus
  <2>. QED
    BY <1>1, <2>1, <2>2, <2>3, <2>4, <2>5, <2>6, <2>7, <2>8, <2>9, <2>10 DEF SchedNext, SchedStep, RecoverStep
<1>2. ASSUME NEW h \in Handler, HandlerNext(h) /\ UNCHANGED crashes
      PROVE  SettledStep
  <2>1. CASE SetInsert(h)
    BY <1>2, <2>1 DEF SetInsert, Insert, ByStatus
  <2>2. CASE SetCommit(h) \/ CancelCommit(h)
    BY <1>2, <2>2 DEF SetCommit, CancelCommit, Commit
  <2>3. CASE SetReply(h) \/ CancelReply(h)
    BY <1>2, <2>3 DEF SetReply, CancelReply, WakeScheduler, Finish
  <2>4. CASE CancelSelect(h)
    BY <1>2, <2>4 DEF CancelSelect, Matching, Soonest, ByStatus
  <2>5. CASE CancelWrite(h)
    BY <1>2, <2>5 DEF CancelWrite, SetStatus
  <2>6. CASE HandlerFault(h)
    BY <1>2, <2>6 DEF HandlerFault, Finish
  <2>. QED
    BY <1>2, <2>1, <2>2, <2>3, <2>4, <2>5, <2>6 DEF HandlerNext, HandlerStep
<1>3. CASE Tick \/ Restart
  BY <1>3 DEF Tick, Restart
<1>4. CASE Crash
  BY <1>4 DEF Crash, LoseUncommitted, DropRequests
<1>5. CASE UNCHANGED vars
  BY <1>5 DEF vars
<1>. QED
  BY <1>1, <1>2, <1>3, <1>4, <1>5 DEF Next

-----------------------------------------------------------------------------
(* The invariant. *)

LEMMA IndInit == Init => IndInv
<1> SUFFICES ASSUME Init PROVE IndInv
  OBVIOUS
<1>1. TypeInv
  BY TypeInit
<1>. QED
  BY <1>1 DEF Init, StoreInit, SchedInit, RequestsInit, IndInv, HeldRowInv,
     FileInv, AccountInv, SettledInv, ConfirmInv, ConfirmedIsDurable, SealInv,
     AckInv, NoLostWakeup, NoStrandedFiring, ByStatus, Ringing

LEMMA IndNext == IndInv /\ [Next]_vars => IndInv'
BY TypeNext, FileNext, HeldRowNext, AccountNext, SettledNext, ConfirmNext,
   SealNext, AckNext, WakeNext, StrandNext DEF IndInv

LEMMA Inductive == Spec => []IndInv
BY IndInit, IndNext, PTL DEF Spec

-----------------------------------------------------------------------------
(* The theorems. *)

\* Every reachable state has the types the modules declare.
THEOREM TypeCorrect == Spec => []TypeOK
<1>1. IndInv => TypeOK
  BY DEF IndInv, TypeInv
<1>. QED
  BY <1>1, Inductive, PTL

\* _tick's read-then-wait never sleeps through a timer whose request was
\* answered, whatever handle_timer did between the SELECT and the wait.
THEOREM WakeupsAreNotLost == Spec => []NoLostWakeup
<1>1. IndInv => NoLostWakeup
  BY DEF IndInv
<1>. QED
  BY <1>1, Inductive, PTL

\* TimerStore.add commits before the answer, and nothing undoes it.
THEOREM ConfirmedTimersAreDurable == Spec => []ConfirmedIsDurable
<1>1. IndInv => ConfirmedIsDurable
  BY DEF IndInv, ConfirmInv
<1>. QED
  BY <1>1, Inductive, PTL

\* _resolve and recover mark a row 'done' only for an occurrence that was
\* announced or that recovery logged as missed.
THEOREM NoTimerIsDoneInSilence == Spec => []DoneIsAccounted
<1>1. IndInv => DoneIsAccounted
  BY DEF IndInv, AccountInv, DoneIsAccounted
<1>. QED
  BY <1>1, Inductive, PTL

\* A recurring row moves on only from an occurrence that was announced or
\* given up as past its grace (the rearm of _resolve and of recover).
THEOREM NoOccurrenceIsSkipped == Spec => OccurrencesAccounted
<1>1. IndInv /\ [Next]_vars => [OccurrenceStep]_vars
  BY OccurrenceNext DEF IndInv
<1>. QED
  BY <1>1, Inductive, PTL DEF Spec, OccurrencesAccounted

\* No step of the scheduler, of a request or of recovery brings a 'done' row
\* back to life.
THEOREM SettledTimersStaySettled == Spec => SettledStaysSettled
<1>1. IndInv /\ [Next]_vars => [SettledStep]_vars
  BY SettledStepNext DEF IndInv
<1>. QED
  BY <1>1, Inductive, PTL DEF Spec, SettledStaysSettled

\* A cancel that did not cross the scheduler is final (handle_timer's cancel
\* against _fire and _resolve, which write rows by id).
THEOREM UncontestedCancelsStick == Spec => []UncontestedCancelSticks
<1>1. IndInv => UncontestedCancelSticks
  BY DEF IndInv, SealInv, UncontestedCancelSticks
<1>. QED
  BY <1>1, Inductive, PTL

\* As long as no database operation fails, no row is left in 'firing'.
THEOREM FiringRowsAreRung == Spec => []NoStrandedFiring
<1>1. IndInv => NoStrandedFiring
  BY DEF IndInv
<1>. QED
  BY <1>1, Inductive, PTL

\* _fire's loop broadcasts at most once more after the ack event is set.
THEOREM AckEndsTheRepeats == Spec => []AtMostOneAfterAck
<1>1. IndInv => AtMostOneAfterAck
  BY DEF IndInv, AckInv, AtMostOneAfterAck
<1>. QED
  BY <1>1, Inductive, PTL

=============================================================================
