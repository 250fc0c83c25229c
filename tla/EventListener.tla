--------------------------- MODULE EventListener ---------------------------
(***************************************************************************)
(* The satellite's end (class EventListener of                             *)
(* src/satellite/fake_satellite.py): a listener thread with an event loop  *)
(* of its own, and the foreground thread that waits for Enter.             *)
(*                                                                         *)
(* Three tasks share the listener's loop: the reader, the ack pump and the *)
(* watch for stop().  Chime and speech are blocking calls, so nothing else *)
(* of the loop moves while the reader speaks; the foreground thread may    *)
(* run between any two steps.  lpc is where _main stands:                  *)
(*   "connecting", "session", "backoff", "ended"                           *)
(* and pump where _pump_acks does:                                         *)
(*   "get"    in _ack_queue.get()                                          *)
(*   "send"   holds an event id, about to send it                          *)
(*   "sent"   in ws.send, the frame is out                                 *)
(*   "clear"  between its last two statements                              *)
(***************************************************************************)
EXTENDS PushChannel

CONSTANTS
  NoEvent,     \* Python's None where an event id is expected
  MaxPresses   \* bound: how often Enter is pressed at a satellite

ASSUME ListenerAssumption == NoEvent \notin Event /\ MaxPresses \in Nat

VARIABLES
  lpc,       \* where _main stands
  opened,    \* how many connections the satellite opened: the last is its own
  speaking,  \* the reader is in chime and speak
  pump,      \* where _pump_acks stands
  held,      \* eid in _pump_acks
  ackQueue,  \* _ack_queue
  active,    \* announcement_active
  pending,   \* _pending_event_id
  stopping,  \* _stop_async
  enter,     \* Enter was pressed while active: about to call request_ack
  presses,   \* how often that happened
  queued,    \* history: event ids some request_ack has queued
  unheard,   \* history: the event last announced here and not acknowledged since
  overtaken, \* history: an announcement was read while AckUnderway
  played     \* history: <<satellite, event>> of every announcement read

loopVars == <<lpc, opened, speaking, pump, held>>
sharedVars == <<ackQueue, active, pending, stopping>>
foreVars == <<enter, presses>>
heardVars == <<queued, unheard, overtaken, played>>
listenerVars == <<loopVars, sharedVars, foreVars, heardVars>>

ListenerTypeOK ==
  /\ lpc \in [Sat -> {"connecting", "session", "backoff", "ended"}]
  /\ opened \in [Sat -> 0 .. MaxConns]
  /\ speaking \in [Sat -> BOOLEAN]
  /\ pump \in [Sat -> {"get", "send", "sent", "clear"}]
  /\ held \in [Sat -> Event \cup {NoEvent}]
  /\ ackQueue \in [Sat -> Seq(Event)]
  /\ active \in [Sat -> BOOLEAN]
  /\ pending \in [Sat -> Event \cup {NoEvent}]
  /\ stopping \in [Sat -> BOOLEAN]
  /\ enter \in [Sat -> BOOLEAN]
  /\ presses \in [Sat -> 0 .. MaxPresses]
  /\ queued \subseteq Event
  /\ unheard \in [Sat -> Event \cup {NoEvent}]
  /\ overtaken \in [Sat -> BOOLEAN]
  /\ played \subseteq Sat \X Event

ListenerInit ==
  /\ lpc = [s \in Sat |-> "connecting"]
  /\ opened = [s \in Sat |-> 0]
  /\ speaking = [s \in Sat |-> FALSE]
  /\ pump = [s \in Sat |-> "get"]
  /\ held = [s \in Sat |-> NoEvent]
  /\ ackQueue = [s \in Sat |-> <<>>]
  /\ active = [s \in Sat |-> FALSE]
  /\ pending = [s \in Sat |-> NoEvent]
  /\ stopping = [s \in Sat |-> FALSE]
  /\ enter = [s \in Sat |-> FALSE]
  /\ presses = [s \in Sat |-> 0]
  /\ queued = {}
  /\ unheard = [s \in Sat |-> NoEvent]
  /\ overtaken = [s \in Sat |-> FALSE]
  /\ played = {}

Link(s) == <<s, opened[s]>>

\* A task of the session can take a step.
LoopFree(s) == lpc[s] = "session" /\ ~ speaking[s] /\ pump[s] # "clear"

-----------------------------------------------------------------------------
(* _main *)

\* websockets.connect: the router's handle() is accepting
Connect(s) ==
  /\ lpc[s] = "connecting"
  /\ opened[s] < MaxConns
  /\ opened' = [opened EXCEPT ![s] = @ + 1]
  /\ alive' = alive \cup {<<s, opened[s] + 1>>}
  /\ joining' = joining \cup {<<s, opened[s] + 1>>}
  /\ lpc' = [lpc EXCEPT ![s] = "session"]
  /\ pump' = [pump EXCEPT ![s] = "get"]
  /\ UNCHANGED <<conns, serving, remaining, toSat, toRouter, speaking, held,
                 sharedVars, foreVars, heardVars>>

\* ... or the attempt fails
ConnectFails(s) ==
  /\ lpc[s] = "connecting"
  /\ lpc' = [lpc EXCEPT ![s] = IF stopping[s] THEN "ended" ELSE "backoff"]
  /\ UNCHANGED <<channelVars, opened, speaking, pump, held, sharedVars,
                 foreVars, heardVars>>

\* The reader meets the end of the connection, or the pump fails to send; the
\* group cancels the others.  An event id the pump holds is lost.
SessionLost(s) ==
  /\ LoopFree(s)
  /\ Link(s) \notin alive
  /\ toSat[Link(s)] = <<>> \/ pump[s] = "send"
  /\ lpc' = [lpc EXCEPT ![s] = IF stopping[s] THEN "ended" ELSE "backoff"]
  /\ pump' = [pump EXCEPT ![s] = "get"]
  /\ held' = [held EXCEPT ![s] = NoEvent]
  /\ UNCHANGED <<channelVars, opened, speaking, sharedVars, foreVars, heardVars>>

\* wait_for(stop.wait(), backoff) times out
Reconnect(s) ==
  /\ lpc[s] = "backoff"
  /\ lpc' = [lpc EXCEPT ![s] = "connecting"]
  /\ UNCHANGED <<channelVars, opened, speaking, pump, held, sharedVars,
                 foreVars, heardVars>>

\* Mutant: a session does not watch for stop().
StopSeenInBackoff(s) ==
  /\ stopping[s]
  /\ lpc[s] = "backoff"
  /\ lpc' = [lpc EXCEPT ![s] = "ended"]
  /\ UNCHANGED <<channelVars, opened, speaking, pump, held, sharedVars, foreVars,
                 heardVars>>

\* _watch_stop unwinds the session (which closes the connection), or the
\* backoff's wait returns
StopSeen(s) ==
  /\ stopping[s]
  /\ LoopFree(s) \/ lpc[s] = "backoff"
  /\ lpc' = [lpc EXCEPT ![s] = "ended"]
  /\ alive' = alive \ {Link(s)}
  /\ pump' = [pump EXCEPT ![s] = "get"]
  /\ held' = [held EXCEPT ![s] = NoEvent]
  /\ UNCHANGED <<joining, conns, serving, remaining, toSat, toRouter, opened,
                 speaking, sharedVars, foreVars, heardVars>>

-----------------------------------------------------------------------------
(* _read *)

\* An ack of another event than e is still to be sent, or one is sent and not
\* yet finished with.
AckUnderway(s, e) ==
  \/ pump[s] = "sent"
  \/ \E f \in {held[s]} \cup Range(ackQueue[s]) : f \notin {NoEvent, e}

ReadAnnounce(s) ==
  /\ LoopFree(s)
  /\ toSat[Link(s)] # <<>>
  /\ LET e == Head(toSat[Link(s)]) IN
       /\ pending' = [pending EXCEPT ![s] = e]
       /\ unheard' = [unheard EXCEPT ![s] = e]
       /\ overtaken' = [overtaken EXCEPT ![s] = @ \/ AckUnderway(s, e)]
       /\ played' = played \cup {<<s, e>>}
  /\ active' = [active EXCEPT ![s] = TRUE]
  /\ speaking' = [speaking EXCEPT ![s] = TRUE]
  /\ toSat' = [toSat EXCEPT ![Link(s)] = Tail(@)]
  /\ UNCHANGED <<alive, joining, toRouter, conns, serving, remaining, lpc,
                 opened, pump, held, ackQueue, stopping, foreVars, queued>>

SpeechEnds(s) ==
  /\ speaking[s]
  /\ speaking' = [speaking EXCEPT ![s] = FALSE]
  /\ UNCHANGED <<channelVars, lpc, opened, pump, held, sharedVars, foreVars,
                 heardVars>>

-----------------------------------------------------------------------------
(* _pump_acks *)

\* Mutant: the pump looks up the pending event instead of the queued one.
PumpGetPending(s) ==
  /\ LoopFree(s)
  /\ pump[s] = "get"
  /\ ackQueue[s] # <<>>
  /\ held' = [held EXCEPT ![s] = pending[s]]
  /\ ackQueue' = [ackQueue EXCEPT ![s] = Tail(@)]
  /\ pump' = [pump EXCEPT ![s] = IF pending[s] = NoEvent THEN "get" ELSE "send"]
  /\ UNCHANGED <<channelVars, lpc, opened, speaking, active, pending, stopping,
                 foreVars, heardVars>>

\* Mutant: the announcement is taken as over before its ack is out.
PumpGetClearing(s) ==
  /\ LoopFree(s)
  /\ pump[s] = "get"
  /\ ackQueue[s] # <<>>
  /\ held' = [held EXCEPT ![s] = Head(ackQueue[s])]
  /\ ackQueue' = [ackQueue EXCEPT ![s] = Tail(@)]
  /\ active' = [active EXCEPT ![s] = FALSE]
  /\ pump' = [pump EXCEPT ![s] = "send"]
  /\ UNCHANGED <<channelVars, lpc, opened, speaking, pending, stopping,
                 foreVars, heardVars>>

PumpGet(s) ==
  /\ LoopFree(s)
  /\ pump[s] = "get"
  /\ ackQueue[s] # <<>>
  /\ held' = [held EXCEPT ![s] = Head(ackQueue[s])]
  /\ ackQueue' = [ackQueue EXCEPT ![s] = Tail(@)]
  /\ pump' = [pump EXCEPT ![s] = "send"]
  /\ UNCHANGED <<channelVars, lpc, opened, speaking, active, pending, stopping,
                 foreVars, heardVars>>

PumpSend(s) ==
  /\ LoopFree(s)
  /\ pump[s] = "send"
  /\ Link(s) \in alive
  /\ Len(toRouter[Link(s)]) < MaxQueue
  /\ toRouter' = [toRouter EXCEPT ![Link(s)] = Append(@, held[s])]
  /\ pump' = [pump EXCEPT ![s] = "sent"]
  /\ unheard' = [unheard EXCEPT ![s] = IF @ = held[s] THEN NoEvent ELSE @]
  /\ UNCHANGED <<alive, joining, toSat, conns, serving, remaining, lpc, opened,
                 speaking, held, sharedVars, foreVars, queued, overtaken, played>>

PumpClearActive(s) ==
  /\ LoopFree(s)
  /\ pump[s] = "sent"
  /\ active' = [active EXCEPT ![s] = FALSE]
  /\ pump' = [pump EXCEPT ![s] = "clear"]
  /\ UNCHANGED <<channelVars, lpc, opened, speaking, held, ackQueue, pending,
                 stopping, foreVars, heardVars>>

\* Mutant: the pump serves one ack of a session.
PumpClearPendingOnce(s) ==
  /\ pump[s] = "clear"
  /\ pending' = [pending EXCEPT ![s] = NoEvent]
  /\ held' = [held EXCEPT ![s] = NoEvent]
  /\ pump' = [pump EXCEPT ![s] = "sent"]
  /\ UNCHANGED <<channelVars, lpc, opened, speaking, ackQueue, active,
                 stopping, foreVars, heardVars>>

PumpClearPending(s) ==
  /\ pump[s] = "clear"
  /\ pending' = [pending EXCEPT ![s] = NoEvent]
  /\ held' = [held EXCEPT ![s] = NoEvent]
  /\ pump' = [pump EXCEPT ![s] = "get"]
  /\ UNCHANGED <<channelVars, lpc, opened, speaking, ackQueue, active,
                 stopping, foreVars, heardVars>>

-----------------------------------------------------------------------------
(* The foreground thread: Enter and exit.  An Enter outside an announcement *)
(* is a turn of push-to-talk, which touches none of this.                   *)

Enter(s) ==
  /\ ~ stopping[s]
  /\ active[s] /\ ~ enter[s]
  /\ presses[s] < MaxPresses
  /\ enter' = [enter EXCEPT ![s] = TRUE]
  /\ presses' = [presses EXCEPT ![s] = @ + 1]
  /\ UNCHANGED <<channelVars, loopVars, sharedVars, heardVars>>

\* Mutant: request_ack does not ask for None.
RequestAckUnchecked(s) ==
  /\ enter[s]
  /\ enter' = [enter EXCEPT ![s] = FALSE]
  /\ ackQueue' = [ackQueue EXCEPT ![s] = Append(@, pending[s])]
  /\ queued' = queued \cup {pending[s]}
  /\ UNCHANGED <<channelVars, loopVars, active, pending, stopping, presses,
                 unheard, overtaken, played>>

RequestAck(s) ==
  /\ enter[s]
  /\ enter' = [enter EXCEPT ![s] = FALSE]
  /\ IF pending[s] # NoEvent
       THEN /\ ackQueue' = [ackQueue EXCEPT ![s] = Append(@, pending[s])]
            /\ queued' = queued \cup {pending[s]}
       ELSE UNCHANGED <<ackQueue, queued>>
  /\ UNCHANGED <<channelVars, loopVars, active, pending, stopping, presses,
                 unheard, overtaken, played>>

\* Ctrl-C or the end of stdin: listener.stop()
Stop(s) ==
  /\ ~ stopping[s] /\ ~ enter[s]
  /\ stopping' = [stopping EXCEPT ![s] = TRUE]
  /\ UNCHANGED <<channelVars, loopVars, ackQueue, active, pending, foreVars,
                 heardVars>>

-----------------------------------------------------------------------------

\* The steps the two threads owe.
ListenerStep(s) ==
  \/ Connect(s) \/ ConnectFails(s) \/ SessionLost(s) \/ Reconnect(s) \/ StopSeen(s)
  \/ ReadAnnounce(s) \/ SpeechEnds(s)
  \/ PumpGet(s) \/ PumpSend(s) \/ PumpClearActive(s) \/ PumpClearPending(s)
  \/ RequestAck(s)

=============================================================================
