--------------------------- MODULE Announcements ---------------------------
(***************************************************************************)
(* Ringing end to end: the repeat loop of Scheduler._fire                  *)
(* (src/router/timers.py), the push channel, and the satellites.  The      *)
(* timers ring one after the other; one that recurs rings again.           *)
(***************************************************************************)
EXTENDS EventListener

CONSTANTS
  MaxRepeats,   \* ANNOUNCE_MAX_REPEATS
  MaxRings      \* bound: occurrences of a timer in a run

ASSUME AnnouncementsAssumption == MaxRepeats \in Nat \ {0} /\ MaxRings \in Nat

VARIABLES
  rpc,     \* where _fire stands: "idle", "announce", "sending", "ackWait"
  ev,      \* the timer that rings
  rep,     \* its announcements so far
  acked,   \* its ack event is set
  left,    \* how often each timer is still to ring
  compared \* history: <<satellite, event>> of every ack handed to Scheduler.ack

ringVars == <<rpc, ev, rep, acked, left, compared>>
vars == <<channelVars, listenerVars, ringVars>>

TypeOK ==
  /\ ChannelTypeOK
  /\ ListenerTypeOK
  /\ rpc \in {"idle", "announce", "sending", "ackWait"}
  /\ ev \in Event \cup {NoEvent}
  /\ rep \in 0 .. MaxRepeats
  /\ acked \in BOOLEAN
  /\ left \in [Event -> 0 .. MaxRings]
  /\ compared \subseteq Sat \X Event

Init ==
  /\ ChannelInit
  /\ ListenerInit
  /\ rpc = "idle" /\ ev = NoEvent /\ rep = 0 /\ acked = FALSE
  /\ left = [e \in Event |-> MaxRings]
  /\ compared = {}

-----------------------------------------------------------------------------

\* Mutant: the ack event of the last ringing is still there.
RingBeginStillAcked ==
  /\ rpc = "idle"
  /\ \E e \in Event :
       left[e] > 0 /\ ev' = e /\ left' = [left EXCEPT ![e] = @ - 1]
  /\ rpc' = "announce"
  /\ rep' = 0
  /\ UNCHANGED <<acked, compared, channelVars, listenerVars>>

RingBegin ==
  /\ rpc = "idle"
  /\ \E e \in Event :
       left[e] > 0 /\ ev' = e /\ left' = [left EXCEPT ![e] = @ - 1]
  /\ rpc' = "announce"
  /\ rep' = 0 /\ acked' = FALSE
  /\ UNCHANGED <<compared, channelVars, listenerVars>>

Announce ==
  /\ rpc = "announce"
  /\ rpc' = "sending"
  /\ rep' = rep + 1
  /\ BeginBroadcast
  /\ UNCHANGED <<ev, acked, left, compared, listenerVars>>

SendOne ==
  /\ rpc = "sending"
  /\ Send(ev)
  /\ UNCHANGED <<ringVars, listenerVars>>

AnnounceSent ==
  /\ rpc = "sending"
  /\ remaining = <<>>
  /\ rpc' = IF acked THEN "idle" ELSE "ackWait"
  /\ UNCHANGED <<ev, rep, acked, left, compared, channelVars, listenerVars>>

AckSeen ==
  /\ rpc = "ackWait"
  /\ acked
  /\ rpc' = "idle"
  /\ UNCHANGED <<ev, rep, acked, left, compared, channelVars, listenerVars>>

Interval ==
  /\ rpc = "ackWait"
  /\ rpc' = IF rep < MaxRepeats THEN "announce" ELSE "idle"
  /\ UNCHANGED <<ev, rep, acked, left, compared, channelVars, listenerVars>>

\* handle: an ack frame is forwarded to Scheduler.ack
RouterReceive(c) ==
  /\ Receive(c)
  /\ acked' = (acked \/ (rpc # "idle" /\ Head(toRouter[c]) = ev))
  /\ compared' = compared \cup {<<c[1], Head(toRouter[c])>>}
  /\ UNCHANGED <<rpc, ev, rep, left, listenerVars>>

RouterStep ==
  \/ RingBegin \/ Announce \/ SendOne \/ AnnounceSent \/ AckSeen \/ Interval

ChannelStep(c) ==
  \/ RouterReceive(c)
  \/ (Register(c) \/ Leave(c)) /\ UNCHANGED <<listenerVars, ringVars>>

SatStep(s) == ListenerStep(s) /\ UNCHANGED ringVars

Environment ==
  /\ \/ \E c \in Conn : (Break(c) \/ PingFails(c)) /\ UNCHANGED listenerVars
     \/ \E s \in Sat : Enter(s) \/ Stop(s)
  /\ UNCHANGED ringVars

Next ==
  \/ RouterStep
  \/ \E c \in Conn : ChannelStep(c)
  \/ \E s \in Sat : SatStep(s)
  \/ Environment

(***************************************************************************)
(* Fairness: the router's loop, each connection's handler and each         *)
(* satellite's threads go on; speech ends; an interval ends.  Nobody has   *)
(* to press Enter, no connection has to break, none has to hold, no ping   *)
(* has to fail.                                                            *)
(***************************************************************************)
Spec ==
  /\ Init /\ [][Next]_vars
  /\ WF_vars(RouterStep)
  /\ \A c \in Conn : WF_vars(ChannelStep(c))
  /\ \A s \in Sat : WF_vars(SatStep(s))

-----------------------------------------------------------------------------

\* Nothing is silenced but by an Enter some satellite took for that timer
\* (request_ack queues the id of the moment; handle forwards it to the
\* scheduler, which compares it with what it rings).
SilencedByAPress == acked => ev \in queued

\* announcement_active "is set while an event is unacknowledged"
\* (docs/superpowers/specs/2026-07-12-phase2-openbrain-timers-design.md:118):
\* from the moment an announcement is read to the moment its ack is out.
ActiveWhileUnacknowledged ==
  \A s \in Sat : unheard[s] # NoEvent => active[s]

\* That holds, through every break and reconnect, as long as no other event
\* is announced while an ack is still on its way out.
ActiveUnlessOvertaken ==
  \A s \in Sat : unheard[s] # NoEvent /\ ~ overtaken[s] => active[s]

\* Whoever is connected when a broadcast begins plays it, while the connection
\* holds and nobody stops the satellite: a failed neighbour does not end the
\* loop before its turn, and one that is full delays it, but not for ever.
BroadcastIsHeard ==
  \A s \in Sat, e \in Event :
    (rpc = "sending" /\ ev = e /\ Link(s) \in Range(remaining)) ~>
      (<<s, e>> \in played \/ Link(s) \notin alive \/ stopping[s])

\* An ack queued in a session gets to the scheduler's comparison, unless its
\* connection breaks: pump and reader share a loop that speech blocks, and the
\* frame waits where the connection is full, but neither for ever, and no ack
\* is dropped on the way.
AcksReachTheScheduler ==
  \A s \in Sat, e \in Event :
    (lpc[s] = "session" /\ Link(s) \in alive /\ e \in Range(ackQueue[s])) ~>
      (<<s, e>> \in compared \/ Link(s) \notin alive \/ stopping[s])

\* stop() ends the listener's thread, whatever it is doing.
StopEndsTheListener == \A s \in Sat : stopping[s] ~> lpc[s] = "ended"

\* The router forgets every broken connection, also one that broke before it
\* was registered.
BrokenConnectionsLeave ==
  \A c \in Conn : (c \in conns /\ c \notin alive) ~> c \notin conns

=============================================================================
