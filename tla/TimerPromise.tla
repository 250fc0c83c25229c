----------------------------- MODULE TimerPromise -----------------------------
(***************************************************************************)
(* What the timer service of src/router/timers.py promises, told without   *)
(* its scheduler, its requests, its connection and its crashes: a book of  *)
(* timers, which outlives the process, the occurrences that are settled    *)
(* (they rang, or were given up as missed), and the timers whose           *)
(* cancellation is final.                                                  *)
(*                                                                         *)
(*   "unset"  no such timer yet                                            *)
(*   "open"   will ring, or is ringing                                     *)
(*   "taken"  cancelled, though a ringing under way may overrule that      *)
(*   "over"   a one-shot that has rung or was missed                       *)
(***************************************************************************)

CONSTANTS
  Timer,      \* ids of the timers
  Recurring,  \* those that come again
  Instant     \* what a timer can be set for

VARIABLES
  book,       \* state and instant of each timer
  settled,    \* <<timer, instant>> of the occurrences that are accounted for
  final       \* timers that stay cancelled

promiseVars == <<book, settled, final>>

State == {"unset", "open", "taken", "over"}

Entry == [state : State, at : Instant]

Init ==
  /\ book \in [Timer -> {e \in Entry : e.state = "unset"}]
  /\ settled = {}
  /\ final = {}

\* What a write may do to an entry: it never forgets a timer, never wakes one
\* that is over or finally cancelled, lets go of an instant only once that is
\* settled, and ends a one-shot but never a recurring timer.
Moves(t) ==
  /\ book[t].state # "unset" => book'[t].state # "unset"
  /\ book[t].state = "over" => book'[t] \in [state : {"over", "taken"}, at : {book[t].at}]
  /\ book[t].state # "unset" /\ book'[t].at # book[t].at =>
       t \in Recurring /\ <<t, book[t].at>> \in settled'
  /\ book'[t].state = "over" => t \notin Recurring /\ <<t, book'[t].at>> \in settled'
  /\ t \in final => book'[t].state = "taken"

\* One commit may move several entries: whatever every coroutine has written
\* through the shared connection.
Write ==
  /\ book' \in [Timer -> Entry]
  /\ \A t \in Timer : Moves(t)
  /\ UNCHANGED <<settled, final>>

\* An announcement goes out: of the instant that is in the book, and never
\* of a timer that is over or finally cancelled.
Ring(t) ==
  /\ book[t].state \in {"open", "taken"}
  /\ t \notin final
  /\ settled' = settled \cup {<<t, book[t].at>>}
  /\ UNCHANGED <<book, final>>

\* After a restart a timer is too late to ring: it is given up, alone.
GiveUp(t) ==
  /\ book[t].state = "open"
  /\ settled' = settled \cup {<<t, book[t].at>>}
  /\ book' \in [Timer -> Entry]
  /\ Moves(t)
  /\ \A u \in Timer \ {t} : book'[u] = book[u]
  /\ UNCHANGED final

\* The user is told of cancellations that nothing will overrule.
Seal ==
  /\ \E S \in SUBSET {t \in Timer : book[t].state = "taken"} : final' = final \cup S
  /\ UNCHANGED <<book, settled>>

Next == Write \/ Seal \/ \E t \in Timer : Ring(t) \/ GiveUp(t)

Spec == Init /\ [][Next]_promiseVars

-----------------------------------------------------------------------------
(* What a household may rely on that has the promise and nothing else. *)

BookTypeOK ==
  /\ book \in [Timer -> Entry]
  /\ settled \subseteq Timer \X Instant
  /\ final \subseteq Timer

\* What is over was settled, at its own instant, and does not come again.
OverIsSettled ==
  \A t \in Timer : book[t].state = "over" =>
    t \notin Recurring /\ <<t, book[t].at>> \in settled

\* What is finally cancelled is cancelled.
FinalIsTaken == \A t \in final : book[t].state = "taken"

\* A timer is not forgotten, what is over is neither opened nor moved again,
\* and an instant is let go of only when it is settled.
BookStep ==
  \A t \in Timer : book[t].state # "unset" =>
    /\ book'[t].state # "unset"
    /\ book[t].state = "over" => /\ book'[t].state \in {"over", "taken"}
                                 /\ book'[t].at = book[t].at
    /\ book'[t].at # book[t].at => <<t, book[t].at>> \in settled'

\* Nothing that is settled or final is taken back.
GrowsStep == settled \subseteq settled' /\ final \subseteq final'

=============================================================================
