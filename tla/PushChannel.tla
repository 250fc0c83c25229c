---------------------------- MODULE PushChannel ----------------------------
(***************************************************************************)
(* The router's end of ws /events (class PushChannel of                    *)
(* src/router/push.py) and the connections under it.                       *)
(*                                                                         *)
(* A connection is <<s, k>>, the k-th that satellite s opens.  It carries  *)
(* frames in order both ways until it breaks; the router's end notices     *)
(* that only later, by a failed send or at its next receive.  A ping that  *)
(* gets through changes no state at either end, nor does its pong; one     *)
(* that fails discards the connection.                                     *)
(***************************************************************************)
EXTENDS Naturals, Sequences, FiniteSets, Functions

CONSTANTS
  Sat,        \* satellites
  Event,      \* event ids: the ids of the timers that ring
  MaxConns,   \* bound: connections a satellite opens in a run
  MaxQueue    \* bound: frames on the way in one direction

ASSUME ChannelAssumption ==
  IsFiniteSet(Sat) /\ MaxConns \in Nat \ {0} /\ MaxQueue \in Nat \ {0}

Conn == Sat \X (1 .. MaxConns)

VARIABLES
  alive,      \* connections that are not broken
  joining,    \* connections in ws.accept(), not yet in _conns
  conns,      \* PushChannel._conns
  serving,    \* connections whose handle() loop runs
  remaining,  \* what is left of list(self._conns) in the broadcast under way
  toSat,      \* announce frames on each connection: event ids
  toRouter    \* ack frames on each connection: event ids

linkVars == <<alive, joining, toSat, toRouter>>
channelVars == <<linkVars, conns, serving, remaining>>

Frames == UNION {[1 .. n -> Event] : n \in 0 .. MaxQueue}

ChannelTypeOK ==
  /\ alive \subseteq Conn /\ joining \subseteq Conn
  /\ conns \subseteq serving /\ serving \subseteq Conn
  /\ remaining \in Seq(Conn)
  /\ toSat \in [Conn -> Frames]
  /\ toRouter \in [Conn -> Frames]

ChannelInit ==
  /\ alive = {} /\ joining = {} /\ conns = {} /\ serving = {} /\ remaining = <<>>
  /\ toSat = [c \in Conn |-> <<>>]
  /\ toRouter = [c \in Conn |-> <<>>]

\* handle: accept() returns, the connection is added
Register(c) ==
  /\ c \in joining
  /\ joining' = joining \ {c}
  /\ conns' = conns \cup {c}
  /\ serving' = serving \cup {c}
  /\ UNCHANGED <<alive, remaining, toSat, toRouter>>

\* Mutant: handle has no finally.
LeaveStays(c) ==
  /\ c \in serving
  /\ c \notin alive
  /\ toRouter[c] = <<>>
  /\ serving' = serving \ {c}
  /\ UNCHANGED <<linkVars, conns, remaining>>

\* handle: receive_text raises WebSocketDisconnect once what was received is
\* used up
Leave(c) ==
  /\ c \in serving
  /\ c \notin alive
  /\ toRouter[c] = <<>>
  /\ serving' = serving \ {c}
  /\ conns' = conns \ {c}
  /\ UNCHANGED <<linkVars, remaining>>

\* The orders in which list() may return the members of a set.
Listings(set) == Bijection(1 .. Cardinality(set), set)

\* broadcast_announce: the connections of this moment, in some order
BeginBroadcast ==
  /\ remaining' \in Listings(conns)
  /\ UNCHANGED <<linkVars, conns, serving>>

\* Mutant: the loop ends at the first connection that fails.
SendStopsAtFailure(frame) ==
  /\ remaining # <<>>
  /\ LET c == Head(remaining) IN
       \/ /\ c \in alive
          /\ Len(toSat[c]) < MaxQueue
          /\ toSat' = [toSat EXCEPT ![c] = Append(@, frame)]
          /\ remaining' = Tail(remaining)
          /\ UNCHANGED conns
       \/ /\ c \notin alive
          /\ conns' = conns \ {c}
          /\ remaining' = <<>>
          /\ UNCHANGED toSat
  /\ UNCHANGED <<alive, joining, toRouter, serving>>

\* One turn of _send_all's loop.  A broken connection may swallow the frame or
\* raise; then it is discarded.  A live one that is full makes the loop wait,
\* and with it the connections that come after.
Send(frame) ==
  /\ remaining # <<>>
  /\ remaining' = Tail(remaining)
  /\ LET c == Head(remaining) IN
       \/ /\ c \in alive
          /\ Len(toSat[c]) < MaxQueue
          /\ toSat' = [toSat EXCEPT ![c] = Append(@, frame)]
          /\ UNCHANGED conns
       \/ /\ c \notin alive
          /\ conns' \in {conns, conns \ {c}}
          /\ UNCHANGED toSat
  /\ UNCHANGED <<alive, joining, toRouter, serving>>

\* ping_loop: a ping meets a broken connection and raises
PingFails(c) ==
  /\ c \in conns
  /\ c \notin alive
  /\ conns' = conns \ {c}
  /\ UNCHANGED <<linkVars, serving, remaining>>

\* The next ack frame of c is taken off the connection.
Receive(c) ==
  /\ c \in serving
  /\ toRouter[c] # <<>>
  /\ toRouter' = [toRouter EXCEPT ![c] = Tail(@)]
  /\ UNCHANGED <<alive, joining, toSat, conns, serving, remaining>>

\* The connection breaks, with or without the frames under way.
Break(c) ==
  /\ c \in alive
  /\ alive' = alive \ {c}
  /\ toSat' \in {toSat, [toSat EXCEPT ![c] = <<>>]}
  /\ toRouter' \in {toRouter, [toRouter EXCEPT ![c] = <<>>]}
  /\ UNCHANGED <<joining, conns, serving, remaining>>

=============================================================================
