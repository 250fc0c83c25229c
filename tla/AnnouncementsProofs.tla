-------------------------- MODULE AnnouncementsProofs --------------------------
(***************************************************************************)
(* Theorems about ringing end to end, for every number of satellites,      *)
(* timers, connections, presses and repeats, and every length of queue.    *)
(***************************************************************************)
EXTENDS AnnouncementsInv, SequenceTheorems, FiniteSetTheorems, TLAPS

\* What a connection may carry one way is a sequence that is not too long.
LEMMA FramesAreSequences ==
  /\ \A f \in Frames : f \in Seq(Event) /\ Len(f) =< MaxQueue
  /\ \A f \in Seq(Event) : Len(f) =< MaxQueue => f \in Frames
<1>1. ASSUME NEW f \in Frames PROVE f \in Seq(Event) /\ Len(f) =< MaxQueue
  <2>1. PICK n \in 0 .. MaxQueue : f \in [1 .. n -> Event]
    BY DEF Frames
  <2>2. n \in Nat
    BY <2>1, ChannelAssumption
  <2>. QED
    BY <2>1, <2>2, ChannelAssumption
<1>2. ASSUME NEW f \in Seq(Event), Len(f) =< MaxQueue PROVE f \in Frames
  <2>1. Len(f) \in 0 .. MaxQueue /\ f \in [1 .. Len(f) -> Event]
    BY <1>2, LenProperties, ChannelAssumption
  <2>. QED
    BY <2>1 DEF Frames
<1>. QED
  BY <1>1, <1>2

LEMMA FramesAppend ==
  ASSUME NEW f \in Frames, Len(f) < MaxQueue, NEW e \in Event
  PROVE  Append(f, e) \in Frames
<1>1. f \in Seq(Event) /\ Len(f) \in Nat
  BY FramesAreSequences
<1>2. Append(f, e) \in Seq(Event) /\ Len(Append(f, e)) = Len(f) + 1
  BY <1>1
<1>3. Len(Append(f, e)) =< MaxQueue
  BY <1>1, <1>2, ChannelAssumption
<1>. QED
  BY <1>2, <1>3, FramesAreSequences

LEMMA FramesTail ==
  ASSUME NEW f \in Frames, f # <<>>
  PROVE  /\ Tail(f) \in Frames /\ Head(f) \in Event
         /\ \A i \in 1 .. Len(Tail(f)) : i + 1 \in 1 .. Len(f) /\ Tail(f)[i] = f[i + 1]
<1>1. f \in Seq(Event) /\ Len(f) =< MaxQueue
  BY FramesAreSequences
<1>2. /\ Tail(f) \in Seq(Event) /\ Head(f) \in Event /\ Len(Tail(f)) = Len(f) - 1
      /\ Len(f) \in Nat
  BY <1>1, HeadTailProperties, LenProperties
<1>3. Tail(f) \in Frames
  <2>1. Len(Tail(f)) =< MaxQueue
    BY <1>1, <1>2, ChannelAssumption
  <2>. QED
    BY <1>2, <2>1, FramesAreSequences
<1>. QED
  BY <1>1, <1>2, <1>3

LEMMA EmptyFrames == <<>> \in Frames
<1>1. <<>> \in Seq(Event) /\ Len(<<>>) =< MaxQueue
  BY ChannelAssumption
<1>. QED
  BY <1>1, FramesAreSequences

\* However list() orders the connections, it returns a sequence of them.
LEMMA ListingsAreSequences ==
  ASSUME NEW set \in SUBSET Conn, NEW f \in Listings(set)
  PROVE  f \in Seq(Conn)
<1>1. IsFiniteSet(1 .. MaxConns)
  BY FS_Interval, ChannelAssumption
<1>2. IsFiniteSet(Conn)
  BY <1>1, FS_Product, ChannelAssumption DEF Conn
<1>3. Cardinality(set) \in Nat
  BY <1>2, FS_Subset, FS_CardinalityType
<1>4. f \in [1 .. Cardinality(set) -> Conn]
  BY DEF Listings, Bijection, Injection, IsInjective
<1>. QED
  BY <1>3, <1>4

-----------------------------------------------------------------------------
(* Types. *)

TypeInv == TypeOK /\ PlaceInv

LEMMA LinkIsConn ==
  ASSUME TypeInv, NEW s \in Sat, lpc[s] = "session"
  PROVE  Link(s) \in Conn
BY ChannelAssumption DEF TypeInv, TypeOK, ListenerTypeOK, PlaceInv, Link, Conn

\* The router's side of the types.
RouterTypes ==
  /\ ChannelTypeOK
  /\ rpc \in {"idle", "announce", "sending", "ackWait"}
  /\ ev \in Event \cup {NoEvent}
  /\ rep \in 0 .. MaxRepeats
  /\ left \in [Event -> 0 .. MaxRings]
  /\ rpc # "idle" => ev \in Event
  /\ rpc = "announce" => rep < MaxRepeats
  /\ compared \subseteq Sat \X Event

\* Actions that are not of the listener.
RouterAction ==
  \/ RouterStep
  \/ \E c \in Conn : ChannelStep(c)
  \/ \E c \in Conn : (Break(c) \/ PingFails(c)) /\ UNCHANGED <<listenerVars, ringVars>>

LEMMA RouterTypesNext ==
  ASSUME RouterTypes, RouterAction
  PROVE  RouterTypes' /\ UNCHANGED listenerVars
<1> USE AnnouncementsAssumption DEF RouterTypes, ChannelTypeOK, channelVars, linkVars, ringVars
<1>1. CASE RingBegin
  BY <1>1 DEF RingBegin
<1>2. CASE Announce
  <2>1. rep + 1 \in 0 .. MaxRepeats
    BY <1>2 DEF Announce
  <2>2. remaining' \in Seq(Conn)
    BY <1>2, ListingsAreSequences DEF Announce, BeginBroadcast
  <2>. QED
    BY <1>2, <2>1, <2>2 DEF Announce, BeginBroadcast
<1>3. CASE SendOne
  <2> DEFINE c == Head(remaining)
  <2>1. Send(ev) /\ UNCHANGED <<ringVars, listenerVars>>
    BY <1>3 DEF SendOne
  <2>2. c \in Conn /\ Tail(remaining) \in Seq(Conn) /\ ev \in Event
    BY <1>3, <2>1 DEF SendOne, Send
  <2>3. Len(toSat[c]) < MaxQueue => Append(toSat[c], ev) \in Frames
    BY <2>2, FramesAppend
  <2>4. toSat' \in [Conn -> Frames] /\ conns' \subseteq conns
    BY <2>1, <2>2, <2>3 DEF Send
  <2>5. ChannelTypeOK'
    BY <2>1, <2>2, <2>4 DEF Send
  <2>. QED
    BY <2>1, <2>5
<1>4. CASE AnnounceSent \/ AckSeen \/ Interval
  BY <1>4 DEF AnnounceSent, AckSeen, Interval
<1>5. ASSUME NEW c \in Conn, ChannelStep(c)
      PROVE  RouterTypes' /\ UNCHANGED listenerVars
  <2>1. CASE RouterReceive(c)
    <3>1. Head(toRouter[c]) \in Event /\ Tail(toRouter[c]) \in Frames
      BY <2>1, FramesTail DEF RouterReceive, Receive
    <3>2. compared' \subseteq Sat \X Event
      BY <2>1, <3>1 DEF RouterReceive, Conn
    <3>. QED
      BY <2>1, <3>1, <3>2 DEF RouterReceive, Receive
  <2>2. CASE Register(c) /\ UNCHANGED <<listenerVars, ringVars>>
    BY <2>2 DEF Register
  <2>3. CASE Leave(c) /\ UNCHANGED <<listenerVars, ringVars>>
    BY <2>3 DEF Leave
  <2>. QED
    BY <1>5, <2>1, <2>2, <2>3 DEF ChannelStep
<1>6. ASSUME NEW c \in Conn, Break(c) \/ PingFails(c), UNCHANGED <<listenerVars, ringVars>>
      PROVE  RouterTypes' /\ UNCHANGED listenerVars
  BY <1>6, EmptyFrames DEF Break, PingFails
<1>. QED
  BY <1>1, <1>2, <1>3, <1>4, <1>5, <1>6 DEF RouterAction, RouterStep

\* The listener's side: what the threads share, and where they stand.
ListenerTypes == ListenerTypeOK /\ \A s \in Sat : lpc[s] = "session" => opened[s] >= 1

\* The listener's actions, with what the user does.
ListenerAction ==
  \E s \in Sat : (ListenerStep(s) \/ Enter(s) \/ Stop(s)) /\ UNCHANGED ringVars

LEMMA ListenerTypesNext ==
  ASSUME ListenerTypes, RouterTypes, PressInv, ListenerAction
  PROVE  ListenerTypes' /\ RouterTypes'
<1> USE ChannelAssumption, ListenerAssumption
    DEF ListenerTypes, ListenerTypeOK, RouterTypes, ChannelTypeOK, channelVars, linkVars,
        listenerVars, loopVars, sharedVars, foreVars, heardVars, ringVars
<1> SUFFICES ASSUME NEW s \in Sat, ListenerStep(s) \/ Enter(s) \/ Stop(s), UNCHANGED ringVars
             PROVE  ListenerTypes' /\ RouterTypes'
  BY DEF ListenerAction
<1>0. lpc[s] = "session" => Link(s) \in Conn
  BY DEF Link, Conn
<1>1. CASE Connect(s)
  <2>1. opened[s] + 1 \in 1 .. MaxConns /\ <<s, opened[s] + 1>> \in Conn
    BY <1>1 DEF Connect, Conn
  <2>2. opened' \in [Sat -> 0 .. MaxConns] /\ opened'[s] >= 1
    BY <1>1, <2>1 DEF Connect
  <2>3. lpc' \in [Sat -> {"connecting", "session", "backoff", "ended"}]
    BY <1>1 DEF Connect
  <2>4. pump' \in [Sat -> {"get", "send", "sent", "clear"}]
    BY <1>1 DEF Connect
  <2>5. \A r \in Sat : lpc'[r] = "session" => opened'[r] >= 1
    BY <1>1, <2>2 DEF Connect
  <2>6. ListenerTypes'
    BY <1>1, <2>2, <2>3, <2>4, <2>5 DEF Connect
  <2>7. RouterTypes'
    BY <1>1, <2>1 DEF Connect
  <2>. QED
    BY <2>6, <2>7
<1>2. CASE ConnectFails(s)
  BY <1>2 DEF ConnectFails
<1>3. CASE SessionLost(s)
  BY <1>3 DEF SessionLost
<1>4. CASE Reconnect(s)
  BY <1>4 DEF Reconnect
<1>5. CASE StopSeen(s)
  BY <1>5 DEF StopSeen
<1>6. CASE ReadAnnounce(s)
  <2>1. Link(s) \in Conn /\ toSat[Link(s)] \in Frames /\ toSat[Link(s)] # <<>>
    BY <1>0, <1>6 DEF ReadAnnounce, LoopFree
  <2>2. Head(toSat[Link(s)]) \in Event /\ Tail(toSat[Link(s)]) \in Frames
    BY <2>1, FramesTail
  <2>3. overtaken' \in [Sat -> BOOLEAN]
    BY <1>6 DEF ReadAnnounce
  <2>4. played' \subseteq Sat \X Event
    BY <1>6, <2>2 DEF ReadAnnounce
  <2>5. toSat' \in [Conn -> Frames]
    BY <1>6, <2>1, <2>2 DEF ReadAnnounce
  <2>. QED
    BY <1>6, <2>2, <2>3, <2>4, <2>5 DEF ReadAnnounce
<1>7. CASE SpeechEnds(s)
  BY <1>7 DEF SpeechEnds
<1>8. CASE PumpGet(s)
  <2>1. Head(ackQueue[s]) \in Event /\ Tail(ackQueue[s]) \in Seq(Event)
    BY <1>8, HeadTailProperties DEF PumpGet
  <2>. QED
    BY <1>8, <2>1 DEF PumpGet
<1>9. CASE PumpSend(s)
  <2>0. held[s] \in Event
    BY <1>9 DEF PumpSend, PressInv
  <2>1. Link(s) \in Conn /\ toRouter[Link(s)] \in Frames /\ Len(toRouter[Link(s)]) < MaxQueue
    BY <1>0, <1>9 DEF PumpSend, LoopFree
  <2>2. toRouter' \in [Conn -> Frames]
    BY <1>9, <2>0, <2>1, FramesAppend DEF PumpSend
  <2>. QED
    BY <1>9, <2>2 DEF PumpSend
<1>10. CASE PumpClearActive(s)
  BY <1>10 DEF PumpClearActive
<1>11. CASE PumpClearPending(s)
  BY <1>11 DEF PumpClearPending
<1>12. CASE RequestAck(s)
  <2>2. CASE pending[s] # NoEvent
    <3>1. pending[s] \in Event /\ Append(ackQueue[s], pending[s]) \in Seq(Event)
      BY <2>2
    <3>2. /\ ackQueue' = [ackQueue EXCEPT ![s] = Append(@, pending[s])]
          /\ queued' = queued \cup {pending[s]}
      BY <1>12, <2>2 DEF RequestAck
    <3>3. ackQueue' \in [Sat -> Seq(Event)]
      BY ONLY <3>1, <3>2, ackQueue \in [Sat -> Seq(Event)]
    <3>4. queued' \subseteq Event
      BY <3>1, <3>2
    <3>. QED
      BY <1>12, <3>3, <3>4 DEF RequestAck
  <2>3. CASE pending[s] = NoEvent
    BY <1>12, <2>3 DEF RequestAck
  <2>. QED
    BY <2>2, <2>3
<1>13. CASE Enter(s)
  BY <1>13 DEF Enter
<1>14. CASE Stop(s)
  BY <1>14 DEF Stop
<1>. QED
  BY <1>1, <1>2, <1>3, <1>4, <1>5, <1>6, <1>7, <1>8, <1>9, <1>10, <1>11, <1>12, <1>13, <1>14
     DEF ListenerStep

-----------------------------------------------------------------------------
(* Only what an Enter queued is on its way. *)

LEMMA PressNext ==
  ASSUME TypeInv, PressInv, [Next]_vars
  PROVE  PressInv'
<1> USE DEF TypeInv, TypeOK, ChannelTypeOK, ListenerTypeOK, PressInv, SilencedByAPress,
            channelVars, linkVars, listenerVars, loopVars, sharedVars, foreVars, heardVars,
            ringVars
<1>1. CASE RingBegin
  BY <1>1 DEF RingBegin
<1>2. CASE Announce \/ AnnounceSent \/ AckSeen \/ Interval
  BY <1>2 DEF Announce, BeginBroadcast, AnnounceSent, AckSeen, Interval
<1>3. CASE SendOne
  BY <1>3 DEF SendOne, Send
<1>4. ASSUME NEW c \in Conn, RouterReceive(c) PROVE PressInv'
  <2>1. toRouter[c] \in Frames /\ toRouter[c] # <<>>
    BY <1>4 DEF RouterReceive, Receive
  <2>2. toRouter[c] \in Seq(Event)
    BY <2>1, FramesAreSequences
  <2>3. Head(toRouter[c]) \in queued
    BY <2>1, <2>2
  <2>4. \A i \in 1 .. Len(Tail(toRouter[c])) : Tail(toRouter[c])[i] \in queued
    BY <2>1, FramesTail
  <2>5. \A d \in Conn : \A i \in 1 .. Len(toRouter'[d]) : toRouter'[d][i] \in queued
    BY <1>4, <2>4 DEF RouterReceive, Receive
  <2>6. acked' => ev \in queued
    BY <1>4, <2>3 DEF RouterReceive
  <2>. QED
    BY <1>4, <2>5, <2>6 DEF RouterReceive, Receive
<1>5. ASSUME NEW c \in Conn, Register(c) \/ Leave(c) \/ PingFails(c),
             UNCHANGED <<listenerVars, ringVars>>
      PROVE  PressInv'
  BY <1>5 DEF Register, Leave, PingFails
<1>6. ASSUME NEW c \in Conn, Break(c), UNCHANGED <<listenerVars, ringVars>> PROVE PressInv'
  <2>1. \A d \in Conn : toRouter'[d] = toRouter[d] \/ toRouter'[d] = <<>>
    BY <1>6 DEF Break
  <2>. QED
    BY <1>6, <2>1
<1>7. ASSUME NEW s \in Sat, UNCHANGED ringVars,
             Connect(s) \/ ConnectFails(s) \/ SessionLost(s) \/ Reconnect(s) \/ StopSeen(s)
               \/ ReadAnnounce(s) \/ SpeechEnds(s) \/ PumpClearActive(s)
               \/ PumpClearPending(s) \/ Enter(s) \/ Stop(s)
      PROVE  PressInv'
  BY <1>7 DEF Connect, ConnectFails, SessionLost, Reconnect, StopSeen, ReadAnnounce,
     SpeechEnds, PumpClearActive, PumpClearPending, Enter, Stop
<1>8. ASSUME NEW s \in Sat, UNCHANGED ringVars, PumpGet(s) PROVE PressInv'
  <2>1. ackQueue[s] \in Seq(Event) /\ ackQueue[s] # <<>>
    BY <1>8 DEF PumpGet
  <2>2. Head(ackQueue[s]) \in queued
    BY <2>1
  <2>3. \A i \in 1 .. Len(Tail(ackQueue[s])) : Tail(ackQueue[s])[i] \in queued
    BY <2>1
  <2>. QED
    BY <1>8, <2>2, <2>3 DEF PumpGet
<1>9. ASSUME NEW s \in Sat, UNCHANGED ringVars, PumpSend(s) PROVE PressInv'
  <2>1. Link(s) \in Conn /\ held[s] \in queued
    BY <1>9, LinkIsConn DEF PumpSend, LoopFree
  <2>2. toRouter[Link(s)] \in Seq(Event) /\ held[s] \in Event
    BY <2>1, FramesAreSequences
  <2>3. \A i \in 1 .. Len(Append(toRouter[Link(s)], held[s])) :
          Append(toRouter[Link(s)], held[s])[i] \in queued
    BY <2>1, <2>2
  <2>4. \A d \in Conn : \A i \in 1 .. Len(toRouter'[d]) : toRouter'[d][i] \in queued
    BY <1>9, <2>1, <2>3 DEF PumpSend
  <2>. QED
    BY <1>9, <2>1, <2>4 DEF PumpSend
<1>10. ASSUME NEW s \in Sat, UNCHANGED ringVars, RequestAck(s) PROVE PressInv'
  <2>1. CASE pending[s] # NoEvent
    <3>1. /\ queued \subseteq queued' /\ pending[s] \in queued'
          /\ ackQueue'[s] = Append(ackQueue[s], pending[s])
          /\ \A r \in Sat \ {s} : ackQueue'[r] = ackQueue[r]
          /\ UNCHANGED <<held, pump, toRouter, ev, acked>>
      BY <1>10, <2>1 DEF RequestAck
    <3>2. \A i \in 1 .. Len(ackQueue'[s]) : ackQueue'[s][i] \in queued'
      BY <2>1, <3>1
    <3>. QED
      BY <3>1, <3>2
  <2>2. CASE pending[s] = NoEvent
    BY <1>10, <2>2 DEF RequestAck
  <2>. QED
    BY <2>1, <2>2
<1>11. CASE UNCHANGED vars
  BY <1>11 DEF vars
<1>. QED
  BY <1>1, <1>2, <1>3, <1>4, <1>5, <1>6, <1>7, <1>8, <1>9, <1>10, <1>11
     DEF Next, RouterStep, ChannelStep, SatStep, ListenerStep, Environment

-----------------------------------------------------------------------------
(* The flag stays up until the ack is out. *)

LEMMA AckNext ==
  ASSUME TypeInv, PressInv, AckInv, [Next]_vars
  PROVE  AckInv'
<1> USE DEF TypeInv, TypeOK, ListenerTypeOK, listenerVars, loopVars, sharedVars,
            foreVars, heardVars
<1> SUFFICES ASSUME NEW r \in Sat PROVE AckOf(r)'
  BY DEF AckInv
<1>0. AckOf(r)
  BY DEF AckInv
<1>1. ASSUME UNCHANGED <<unheard[r], pending[r], overtaken[r], active[r], pump[r], held[r],
                         ackQueue[r]>>
      PROVE  AckOf(r)'
  BY <1>0, <1>1 DEF AckOf
<1>2. CASE UNCHANGED listenerVars
  BY <1>1, <1>2
<1>3. ASSUME NEW s \in Sat,
             Connect(s) \/ ConnectFails(s) \/ SessionLost(s) \/ Reconnect(s) \/ StopSeen(s)
               \/ SpeechEnds(s) \/ PumpClearPending(s) \/ Enter(s) \/ Stop(s)
      PROVE  AckOf(r)'
  BY <1>0, <1>3 DEF AckOf, Connect, ConnectFails, SessionLost, Reconnect, StopSeen, SpeechEnds,
     PumpClearPending, Enter, Stop
<1>4. ASSUME NEW s \in Sat, ReadAnnounce(s) PROVE AckOf(r)'
  <2>1. CASE s # r
    BY <1>1, <1>4, <2>1 DEF ReadAnnounce
  <2>2. CASE s = r
    <3>1. PICK e \in Event :
            /\ pending'[r] = e /\ unheard'[r] = e /\ active'[r]
            /\ overtaken'[r] = (overtaken[r] \/ AckUnderway(r, e))
      <4>1. Link(r) \in Conn /\ toSat[Link(r)] \in Frames /\ toSat[Link(r)] # <<>>
        BY <1>4, <2>2, LinkIsConn DEF ReadAnnounce, LoopFree, ChannelTypeOK
      <4>2. Head(toSat[Link(r)]) \in Event
        BY <4>1, FramesTail
      <4>. QED
        BY <1>4, <2>2, <4>2 DEF ReadAnnounce
    <3>2. UNCHANGED <<pump[r], held[r], ackQueue[r]>> /\ pump[r] # "clear"
      BY <1>4, <2>2 DEF ReadAnnounce, LoopFree
    <3>3. CASE AckUnderway(r, e)
      BY <3>1, <3>3 DEF AckOf
    <3>4. CASE ~ AckUnderway(r, e)
      <4>1. pump[r] # "sent" /\ held[r] \in {e, NoEvent}
        BY <3>4 DEF AckUnderway
      <4>2. ASSUME NEW i \in 1 .. Len(ackQueue[r]) PROVE ackQueue[r][i] = e
        <5>1. ackQueue[r] \in Seq(Event)
          OBVIOUS
        <5>2. ackQueue[r][i] \in Event /\ i \in DOMAIN ackQueue[r]
          BY <5>1
        <5>3. ackQueue[r][i] \in Range(ackQueue[r])
          BY <5>2 DEF Range
        <5>. QED
          BY <3>4, <5>2, <5>3, ListenerAssumption DEF AckUnderway
      <4>. QED
        BY <3>1, <3>2, <4>1, <4>2 DEF AckOf
    <3>. QED
      BY <3>3, <3>4
  <2>. QED
    BY <2>1, <2>2
<1>5. ASSUME NEW s \in Sat, PumpGet(s) PROVE AckOf(r)'
  <2>1. CASE s # r
    BY <1>1, <1>5, <2>1 DEF PumpGet
  <2>2. CASE s = r
    <3>1. ackQueue[r] \in Seq(Event) /\ ackQueue[r] # <<>>
      BY <1>5, <2>2 DEF PumpGet
    <3>2. /\ held'[r] = Head(ackQueue[r]) /\ ackQueue'[r] = Tail(ackQueue[r])
          /\ pump'[r] = "send"
          /\ UNCHANGED <<pending[r], unheard[r], active[r], overtaken[r]>>
      BY <1>5, <2>2 DEF PumpGet
    <3>3. SUFFICES ASSUME ~ overtaken[r], unheard[r] # NoEvent
                   PROVE  /\ Head(ackQueue[r]) = unheard[r]
                          /\ \A i \in 1 .. Len(Tail(ackQueue[r])) :
                               Tail(ackQueue[r])[i] = unheard[r]
      BY <1>0, <3>2 DEF AckOf
    <3>4. \A i \in 1 .. Len(ackQueue[r]) : ackQueue[r][i] = unheard[r]
      BY <1>0, <3>3 DEF AckOf
    <3>. QED
      BY <3>1, <3>4
  <2>. QED
    BY <2>1, <2>2
<1>6. ASSUME NEW s \in Sat, PumpSend(s) PROVE AckOf(r)'
  <2>1. held[s] # NoEvent
    BY <1>6, ListenerAssumption DEF PumpSend, PressInv
  <2>. QED
    BY <1>0, <1>6, <2>1 DEF PumpSend, AckOf
<1>7. ASSUME NEW s \in Sat, PumpClearActive(s) PROVE AckOf(r)'
  BY <1>0, <1>7 DEF PumpClearActive, AckOf
<1>8. ASSUME NEW s \in Sat, RequestAck(s) PROVE AckOf(r)'
  <2>1. CASE s # r \/ pending[s] = NoEvent
    BY <1>1, <1>8, <2>1 DEF RequestAck
  <2>2. CASE s = r /\ pending[r] # NoEvent
    <3>1. /\ ackQueue'[r] = Append(ackQueue[r], pending[r])
          /\ UNCHANGED <<held[r], pump[r], pending[r], unheard[r], active[r], overtaken[r]>>
      BY <1>8, <2>2 DEF RequestAck
    <3>2. ackQueue[r] \in Seq(Event) /\ pending[r] \in Event
      BY <2>2
    <3>3. SUFFICES ASSUME ~ overtaken[r], unheard[r] # NoEvent
                   PROVE  \A i \in 1 .. Len(Append(ackQueue[r], pending[r])) :
                            Append(ackQueue[r], pending[r])[i] = unheard[r]
      BY <1>0, <3>1 DEF AckOf
    <3>4. /\ pending[r] = unheard[r]
          /\ \A i \in 1 .. Len(ackQueue[r]) : ackQueue[r][i] = unheard[r]
      BY <1>0, <2>2, <3>3 DEF AckOf
    <3>. QED
      BY <3>2, <3>4
  <2>. QED
    BY <2>1, <2>2
<1>9. ASSUME NEW c \in Conn, ChannelStep(c) PROVE AckOf(r)'
  BY <1>2, <1>9 DEF ChannelStep, RouterReceive
<1>10. CASE RouterStep
  BY <1>2, <1>10 DEF RouterStep, RingBegin, Announce, SendOne, AnnounceSent, AckSeen, Interval
<1>11. CASE UNCHANGED vars
  BY <1>2, <1>11 DEF vars
<1>. QED
  BY <1>2, <1>3, <1>4, <1>5, <1>6, <1>7, <1>8, <1>9, <1>10, <1>11
     DEF Next, SatStep, ListenerStep, Environment

-----------------------------------------------------------------------------
(* The invariant. *)

LEMMA TypesNext ==
  ASSUME TypeInv, PressInv, [Next]_vars
  PROVE  TypeInv'
<1>1. RouterTypes /\ ListenerTypes
  BY DEF TypeInv, TypeOK, PlaceInv, RouterTypes, ListenerTypes
<1>2. CASE UNCHANGED vars
  BY <1>2 DEF vars, TypeInv, TypeOK, PlaceInv, ChannelTypeOK, ListenerTypeOK, channelVars,
     linkVars, listenerVars, loopVars, sharedVars, foreVars, heardVars, ringVars, Link
<1>3. ASSUME Next PROVE acked' \in BOOLEAN
  <2>1. CASE UNCHANGED ringVars
    BY <2>1 DEF ringVars, TypeInv, TypeOK
  <2>2. CASE RouterStep
    BY <2>2 DEF RouterStep, RingBegin, Announce, SendOne, AnnounceSent, AckSeen, Interval,
       ringVars, TypeInv, TypeOK
  <2>3. ASSUME NEW c \in Conn, RouterReceive(c) PROVE acked' \in BOOLEAN
    BY <2>3 DEF RouterReceive
  <2>. QED
    BY <1>3, <2>1, <2>2, <2>3 DEF Next, ChannelStep, SatStep, Environment
<1>4. ASSUME Next PROVE RouterAction \/ ListenerAction
  BY <1>4 DEF Next, SatStep, Environment, RouterAction, ListenerAction
<1>5. ASSUME Next, RouterAction PROVE TypeInv'
  <2>1. RouterTypes' /\ UNCHANGED listenerVars
    BY <1>1, <1>5, RouterTypesNext
  <2>2. ListenerTypes'
    BY <1>1, <2>1 DEF ListenerTypes, ListenerTypeOK, listenerVars, loopVars, sharedVars,
       foreVars, heardVars
  <2>. QED
    BY <1>3, <1>5, <2>1, <2>2 DEF TypeInv, TypeOK, PlaceInv, RouterTypes, ListenerTypes
<1>6. ASSUME Next, ListenerAction PROVE TypeInv'
  <2>1. RouterTypes' /\ ListenerTypes'
    BY <1>1, <1>6, ListenerTypesNext
  <2>. QED
    BY <1>3, <1>6, <2>1 DEF TypeInv, TypeOK, PlaceInv, RouterTypes, ListenerTypes
<1>. QED
  BY <1>2, <1>4, <1>5, <1>6

LEMMA InitIsOK == Init => IndInv
<1> SUFFICES ASSUME Init PROVE IndInv
  OBVIOUS
<1> USE ChannelAssumption, ListenerAssumption, AnnouncementsAssumption
    DEF Init, ChannelInit, ListenerInit
<1>1. ChannelTypeOK
  BY EmptyFrames DEF ChannelTypeOK
<1>2. ListenerTypeOK
  BY DEF ListenerTypeOK
<1>3. TypeOK
  <2>1. acked \in BOOLEAN
    OBVIOUS
  <2>2. rep \in 0 .. MaxRepeats /\ left \in [Event -> 0 .. MaxRings]
    OBVIOUS
  <2>3. rpc \in {"idle", "announce", "sending", "ackWait"} /\ ev \in Event \cup {NoEvent}
    OBVIOUS
  <2>. QED
    BY ONLY <1>1, <1>2, <2>1, <2>2, <2>3, compared = {} DEF TypeOK
<1>4. PlaceInv
  BY DEF PlaceInv
<1>5. PressInv
  BY DEF PressInv, SilencedByAPress
<1>6. AckInv
  BY DEF AckInv, AckOf
<1>. QED
  BY <1>3, <1>4, <1>5, <1>6 DEF IndInv

\* Every reachable state satisfies IndInv.
THEOREM Inductive == Spec => []IndInv
<1>1. Init => IndInv
  BY InitIsOK
<1>2. IndInv /\ [Next]_vars => IndInv'
  BY TypesNext, PressNext, AckNext DEF IndInv, TypeInv
<1>. QED
  BY <1>1, <1>2, PTL DEF Spec

\* The state of ringing has its type: whatever is queued, held, sent or
\* pending at a satellite is the id of a timer (src/router/push.py,
\* src/satellite/fake_satellite.py).
THEOREM TypeCorrect == Spec => []TypeOK
<1>1. IndInv => TypeOK
  BY DEF IndInv
<1>. QED
  BY <1>1, Inductive, PTL

\* Nothing is silenced but by an Enter that meant that timer: no break, no
\* reconnect and no late ack of another timer ends a ringing (request_ack,
\* _pump_acks and handle, up to the comparison in Scheduler.ack).
THEOREM OnlyAPressSilences == Spec => []SilencedByAPress
<1>1. IndInv => SilencedByAPress
  BY DEF IndInv, PressInv
<1>. QED
  BY <1>1, Inductive, PTL

\* A satellite that was not overtaken stays in announcement_active until its
\* ack is out, so that Enter there means "acknowledge" and nothing else.
THEOREM FlagStaysUntilAcked == Spec => []ActiveUnlessOvertaken
<1>1. IndInv => ActiveUnlessOvertaken
  BY DEF IndInv, AckInv, AckOf, ActiveUnlessOvertaken
<1>. QED
  BY <1>1, Inductive, PTL

-----------------------------------------------------------------------------
(* The repeat loop over the push channel implements RingPromise. *)

LEMMA LoopHidden ==
  UNCHANGED ringVars => UNCHANGED Loop!promiseVars
BY DEF ringVars, Loop!promiseVars, Loop!ringVars

\* Each step of router, channel and satellites is one of the loop's or hidden
\* from it.
LEMMA LoopStepMaps ==
  TypeOK /\ PlaceInv /\ [Next]_vars => [Loop!Next]_(Loop!promiseVars)
<1> SUFFICES ASSUME TypeOK, PlaceInv, [Next]_vars
             PROVE  Loop!Next \/ UNCHANGED Loop!promiseVars
  OBVIOUS
<1>0. rpc # "idle" => ev \in Event /\ ev # NoEvent
  BY ListenerAssumption DEF PlaceInv
<1>1. CASE RingBegin
  <2>1. PICK e \in Event : ev' = e
    BY <1>1 DEF RingBegin
  <2>2. Loop!Begin(e)
    BY <1>1, <2>1, ListenerAssumption DEF RingBegin, Loop!Begin
  <2>. QED
    BY <2>2 DEF Loop!Next
<1>2. CASE Announce
  <2>1. Loop!Call
    BY <1>0, <1>2 DEF Announce, PlaceInv, Loop!Call
  <2>. QED
    BY <2>1 DEF Loop!Next
<1>3. CASE AnnounceSent /\ ~ acked
  <2>1. Loop!Pause
    BY <1>3 DEF AnnounceSent, Loop!Pause
  <2>. QED
    BY <2>1 DEF Loop!Next
<1>4. CASE (AnnounceSent /\ acked) \/ AckSeen \/ (Interval /\ ~ rep < MaxRepeats)
  <2>1. rpc # "idle" /\ rpc' = "idle"
    BY <1>4 DEF AnnounceSent, AckSeen, Interval
  <2>2. acked \/ rep = MaxRepeats
    BY <1>4, AnnouncementsAssumption DEF AckSeen, Interval, TypeOK
  <2>3. Loop!End
    BY <1>0, <2>1, <2>2 DEF Loop!End, Loop!Quiet
  <2>. QED
    BY <2>3 DEF Loop!Next
<1>5. CASE Interval /\ rep < MaxRepeats
  <2>1. UNCHANGED Loop!promiseVars
    BY <1>5 DEF Interval, Loop!promiseVars, Loop!ringVars
  <2>. QED
    BY <2>1
<1>6. CASE SendOne
  BY <1>6, LoopHidden DEF SendOne
<1>7. ASSUME NEW c \in Conn, RouterReceive(c)
      PROVE  Loop!Next \/ UNCHANGED Loop!promiseVars
  <2>1. CASE acked' = acked
    BY <1>7, <2>1 DEF RouterReceive, Loop!promiseVars, Loop!ringVars
  <2>2. CASE acked' # acked
    <3>1. rpc # "idle" /\ acked'
      BY <1>7, <2>2 DEF RouterReceive, TypeOK
    <3>2. Loop!Silence
      BY <1>0, <1>7, <3>1 DEF RouterReceive, Loop!Silence
    <3>. QED
      BY <3>2 DEF Loop!Next
  <2>. QED
    BY <2>1, <2>2
<1>8. ASSUME NEW c \in Conn, ChannelStep(c)
      PROVE  Loop!Next \/ UNCHANGED Loop!promiseVars
  BY <1>7, <1>8, LoopHidden DEF ChannelStep
<1>9. CASE (\E s \in Sat : SatStep(s)) \/ Environment
  BY <1>9, LoopHidden DEF SatStep, Environment
<1>10. CASE UNCHANGED vars
  BY <1>10, LoopHidden DEF vars
<1>. QED
  BY <1>1, <1>2, <1>3, <1>4, <1>5, <1>6, <1>8, <1>9, <1>10 DEF Next, RouterStep

\* A ringing is never cut short by what happens on the channel: connections
\* that break or fill up, satellites that come and go, and late acks of other
\* timers leave it its repeats (Scheduler._fire over PushChannel).
THEOREM RingingsEndAsPromised == Spec => RingsToTheEnd
<1>1. Init => Loop!Init
  BY DEF Init, Loop!Init, Loop!Quiet
<1>2. IndInv => TypeOK /\ PlaceInv
  BY DEF IndInv
<1>. QED
  BY <1>1, <1>2, Inductive, LoopStepMaps, PTL DEF Spec, RingsToTheEnd, Loop!Spec

=============================================================================
