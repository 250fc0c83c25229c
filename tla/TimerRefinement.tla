--------------------------- MODULE TimerRefinement ---------------------------
(***************************************************************************)
(* The timer service implements TimerPromise: the book is the committed    *)
(* table, the settled occurrences are those announced or given up, and a   *)
(* cancellation is final once it was confirmed and had not crossed the     *)
(* scheduler.                                                              *)
(***************************************************************************)
EXTENDS TimerServiceInv

\* What a row's status means to the household.
StateOf(status) ==
  CASE status = "absent"    -> "unset"
    [] status = "done"      -> "over"
    [] status = "cancelled" -> "taken"
    [] OTHER                -> "open"

Book == [t \in Timer |-> [state |-> StateOf(disk[t].status), at |-> disk[t].fire]]

Promise == INSTANCE TimerPromise WITH
             book <- Book, settled <- Accounted, final <- sealed

\* Scheduler, requests, recovery and the two-step commits of their one
\* connection, with crashes and failing operations, do nothing that the
\* promise does not allow (timers.py as a whole).
KeepsPromise == Promise!Spec

\* A ringing lasts from the commit of 'firing' to the end of the repeat loop.
Loop == INSTANCE RingPromise WITH
          ringing <- IF AckRegistered THEN cur ELSE NoTimer,
          calls <- IF AckRegistered THEN rep ELSE 0,
          calling <- spc = "sending",
          silenced <- AckRegistered /\ acked,
          deaths <- crashes

\* Whatever the requests beside it write to the row that rings, whatever
\* fails, a ringing goes on to its ack or to its last repeat; only the end of
\* the process breaks it off (timers.py:284).
RingsToTheEnd == Loop!Spec

-----------------------------------------------------------------------------
(* What the proof of KeepsPromise needs beyond IndInv.                     *)

\* While an announcement may go out, the file has the row that rings.
RingInv ==
  spc \in {"announce", "sending", "ackWait", "resolve"} =>
    /\ disk[cur].status \in {"firing", "cancelled"}
    /\ disk[cur].fire = db[cur].fire

\* Only recurring timers move on, and only one-shots end.
RecurrenceInv ==
  \A t \in Timer :
    /\ db[t].status = "done" \/ disk[t].status = "done" => t \notin Recurring
    /\ disk[t].status # "absent" /\ db[t].fire # disk[t].fire => t \in Recurring

RefinementInv == IndInv /\ RingInv /\ RecurrenceInv

=============================================================================
