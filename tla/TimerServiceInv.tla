--------------------------- MODULE TimerServiceInv ---------------------------
(***************************************************************************)
(* The inductive invariant behind the theorems of TimerServiceProofs, as   *)
(* named parts.  Each part is preserved by every step given the parts      *)
(* before it.                                                              *)
(***************************************************************************)
EXTENDS TimerService

\* Where the scheduler stands in the code, what it holds is a timer and its
\* counters are within their bounds.
HoldInv ==
  /\ spc \in Ringing \cup {"fire", "resolveCommit"} => cur \in Timer
  /\ spc = "announce" => rep < MaxRepeats
  /\ late =< rep

TypeInv == TypeOK /\ HoldInv

\* Only the scheduler moves the row it holds, except for a cancel.
HeldRowInv ==
  /\ spc \in {"decide", "sleep", "fire"} /\ cur # NoTimer =>
       db[cur].status \in {"armed", "cancelled"}
  /\ spc \in Ringing => db[cur].status \in {"firing", "cancelled"}

\* recover() is alone with a freshly opened file, and a row that was ever
\* committed is never absent again.
FileInv ==
  /\ spc \in {"down", "recFiring", "recArmed"} =>
       db = disk /\ \A h \in Handler : hpc[h] = "idle"
  /\ spc = "recArmed" => \A t \in stale : db[t].status = "armed"
  /\ \A t \in Timer : disk[t].status # "absent" => db[t].status # "absent"

\* What the loop has announced, and what became of every fire_at that the
\* file no longer holds or no longer waits for.
AccountInv ==
  /\ spc \in {"sending", "ackWait", "resolve"} => <<cur, db[cur].fire>> \in rung
  /\ \A t \in Timer : db[t].status = "done" => <<t, db[t].fire>> \in Accounted
  /\ \A t \in Timer : disk[t].status = "done" => <<t, disk[t].fire>> \in Accounted
  /\ \A t \in Timer : disk[t].status # "absent" /\ db[t].fire # disk[t].fire =>
                        <<t, disk[t].fire>> \in Accounted

\* A row that is done in the file is done or cancelled in the connection's
\* view too, and the scheduler is not about to write it.
SettledInv ==
  \A t \in Timer : disk[t].status = "done" =>
    /\ db[t].status \in {"done", "cancelled"}
    /\ spc \in Ringing \cup {"decide", "sleep", "fire"} => cur # t

\* How far the row of a set request has got when the request is.
ConfirmInv ==
  /\ \A h \in Handler, t \in Timer : t \in batch[h] =>
       /\ hpc[h] = "setCommit" => db[t].status # "absent"
       /\ hpc[h] = "setReply" => disk[t].status # "absent"
  /\ ConfirmedIsDurable

\* A row cancelled behind the scheduler's back is out of its reach.
SealInv ==
  /\ \A h \in Handler : clean[h] # {} => hpc[h] # "idle"
  /\ \A h \in Handler, t \in Timer : t \in clean[h] =>
       /\ db[t].status = "cancelled" /\ cur # t
       /\ hpc[h] \in {"cancelWrite", "cancelReply"} => disk[t].status = "cancelled"
  /\ \A t \in sealed :
       db[t].status = "cancelled" /\ disk[t].status = "cancelled" /\ cur # t

\* The one announcement too many is the last one.
AckInv == late =< 1 /\ (late = 1 => acked /\ spc \in {"sending", "resolve", "resolveCommit"})

IndInv ==
  /\ TypeInv /\ HeldRowInv /\ FileInv /\ AccountInv /\ SettledInv
  /\ ConfirmInv /\ SealInv /\ AckInv /\ NoLostWakeup /\ NoStrandedFiring

=============================================================================
