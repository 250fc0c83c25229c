--------------------------- MODULE AnnouncementsInv ---------------------------
(***************************************************************************)
(* The inductive invariant behind the safety of Announcements: what may be *)
(* found in the queues and on the connections between an Enter and the     *)
(* scheduler's comparison.                                                 *)
(***************************************************************************)
EXTENDS Announcements

\* A session has a connection; what rings is an event, and its broadcasts are
\* counted before they begin.
PlaceInv ==
  /\ \A s \in Sat : lpc[s] = "session" => opened[s] >= 1
  /\ rpc # "idle" => ev \in Event
  /\ rpc = "announce" => rep < MaxRepeats

\* Whatever is on its way to the scheduler was queued by some Enter.
PressInv ==
  /\ \A s \in Sat :
       /\ \A i \in 1 .. Len(ackQueue[s]) : ackQueue[s][i] \in queued
       /\ held[s] \in queued \cup {NoEvent}
       /\ pump[s] # "get" => held[s] \in queued
  /\ \A c \in Conn : \A i \in 1 .. Len(toRouter[c]) : toRouter[c][i] \in queued
  /\ SilencedByAPress

\* Unless a satellite was overtaken, all the acks it has still to send are of
\* the announcement that is not acknowledged yet, and one that is out was of
\* the last announcement.
AckOf(s) ==
  /\ unheard[s] # NoEvent => pending[s] \in {unheard[s], NoEvent}
  /\ ~ overtaken[s] /\ unheard[s] # NoEvent =>
       /\ active[s]
       /\ pump[s] \notin {"sent", "clear"}
       /\ held[s] \in {unheard[s], NoEvent}
       /\ \A i \in 1 .. Len(ackQueue[s]) : ackQueue[s][i] = unheard[s]

AckInv == \A s \in Sat : AckOf(s)

IndInv == TypeOK /\ PlaceInv /\ PressInv /\ AckInv

-----------------------------------------------------------------------------
(* The repeat loop over the push channel implements RingPromise. *)

Loop == INSTANCE RingPromise WITH
          Timer <- Event,
          NoTimer <- NoEvent,
          ringing <- IF rpc = "idle" THEN NoEvent ELSE ev,
          calls <- IF rpc = "idle" THEN 0 ELSE rep,
          calling <- rpc = "sending",
          silenced <- rpc # "idle" /\ acked,
          deaths <- 0

\* However satellites come, break and go, and however their acks cross the
\* broadcasts, an alarm is announced to its ack or to its last repeat
\* (timers.py:284 over push.py:32).
RingsToTheEnd == Loop!Spec

=============================================================================
