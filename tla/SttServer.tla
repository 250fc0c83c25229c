------------------------------ MODULE SttServer ------------------------------
(***************************************************************************)
(* The websocket handler of src/server/stt_server.py and the client's end  *)
(* of its connection (transcribe of src/satellite/pipeline.py): one        *)
(* connection per turn.                                                    *)
(*                                                                         *)
(*   "none"     not opened                                                 *)
(*   "waiting"  the client connects, the server has not accepted yet       *)
(*   "reading"  the server receives chunks until "END"                     *)
(*   "thread"   get_model().transcribe runs in a worker thread             *)
(*   "decode"   " ".join(...) draws the segments out of the model.  They   *)
(*              are a generator, so this is the transcription itself, and  *)
(*              it runs on the event loop: nothing else does meanwhile     *)
(*   "closed"   the server is done with it                                 *)
(*                                                                         *)
(* What the client has sent and the server not yet received is in the      *)
(* connection, which neither loses nor reorders.  A transcription may      *)
(* fail, or take for ever.                                                 *)
(***************************************************************************)
EXTENDS Recording

CONSTANT ChunkFrames    \* frames of one chunk: 10 in the code

ASSUME ChunkAssumption == ChunkFrames \in Nat \ {0}

VARIABLE conn    \* the connection of each turn

Reply == {"none", "text", "blank", "error"}

Connection ==
  [at : {"none", "waiting", "reading", "thread", "decode", "closed"},
   need : Nat,          \* chunks of the whole recording
   sent : Nat,          \* chunks the client has sent
   client : {"sending", "ended", "cut", "left"},  \* see Ended and Gone
   got : Nat,           \* chunks in buf
   reply : Reply]       \* what the server has sent back

Idle == [at |-> "none", need |-> 0, sent |-> 0, client |-> "sending",
         got |-> 0, reply |-> "none"]

SttTypeOK == conn \in [Turn -> Connection]

SttInit == conn = [k \in Turn |-> Idle]

\* The client has sent "END"; it has closed its end of the connection.
Ended(k) == conn[k].client \in {"ended", "left"}
Gone(k) == conn[k].client \in {"cut", "left"}

\* The event loop of the server is not inside a transcription.
LoopFree == \A k \in Turn : conn[k].at # "decode"

-----------------------------------------------------------------------------
(* The handler. *)

Accept(k) ==
  /\ conn[k].at = "waiting"
  /\ LoopFree
  /\ conn' = [conn EXCEPT ![k].at = IF Gone(k) THEN "closed" ELSE "reading"]

ReceiveChunk(k) ==
  /\ conn[k].at = "reading"
  /\ LoopFree
  /\ conn[k].got < conn[k].sent
  /\ conn' = [conn EXCEPT ![k].got = @ + 1]

ReceiveEnd(k) ==
  /\ conn[k].at = "reading"
  /\ LoopFree
  /\ conn[k].got = conn[k].sent
  /\ Ended(k)
  /\ conn' = [conn EXCEPT ![k].at = "thread"]

\* Mutant: a disconnect ends the receive loop as "END" does.
ReceiveDisconnectBreaks(k) ==
  /\ conn[k].at = "reading"
  /\ LoopFree
  /\ conn[k].got = conn[k].sent
  /\ conn[k].client = "cut"
  /\ conn' = [conn EXCEPT ![k].at = "thread"]

\* Mutant: a disconnect is ignored, and the loop waits for more.
ReceiveDisconnectIgnored(k) ==
  /\ conn[k].at = "reading"
  /\ LoopFree
  /\ conn[k].got = conn[k].sent
  /\ conn[k].client = "cut"
  /\ UNCHANGED conn

\* The client left in the middle of its utterance: nothing is transcribed.
ReceiveDisconnect(k) ==
  /\ conn[k].at = "reading"
  /\ LoopFree
  /\ conn[k].got = conn[k].sent
  /\ conn[k].client = "cut"
  /\ conn' = [conn EXCEPT ![k].at = "closed"]

ThreadDone(k) ==
  /\ conn[k].at = "thread"
  /\ LoopFree
  /\ conn' = [conn EXCEPT ![k].at = "decode"]

Working(k) == conn[k].at \in {"thread", "decode"}

\* Mutant: the exception ends the handler, which closes with no reply.
TranscriptionFailsSilently(k) ==
  /\ Working(k)
  /\ conn[k].at = "thread" => LoopFree
  /\ conn' = [conn EXCEPT ![k].at = "closed"]

\* What the handler sends goes nowhere when the client has left.
Sends(k, reply) ==
  conn' = [conn EXCEPT ![k].at = "closed",
                       ![k].reply = IF Gone(k) THEN "none" ELSE reply]

\* Either half of the transcription raises: an error reply, then close.
TranscriptionFails(k) ==
  /\ Working(k)
  /\ conn[k].at = "thread" => LoopFree
  /\ Sends(k, "error")

\* The text of what was received, which is blank for silence (vad_filter).
Transcribed(k) ==
  /\ conn[k].at = "decode"
  /\ \E reply \in {"text", "blank"} :
       /\ conn[k].got = 0 => reply = "blank"
       /\ Sends(k, reply)

\* The steps the server takes unless a transcription takes for ever.
ReceiveStep(k) ==
  Accept(k) \/ ReceiveChunk(k) \/ ReceiveEnd(k) \/ ReceiveDisconnect(k)

WorkStep(k) == ThreadDone(k) \/ TranscriptionFails(k) \/ Transcribed(k)

-----------------------------------------------------------------------------
(* transcribe: what the client does to its connection. *)

\* ceil(len(audio) / chunk)
Chunks(seq) == (Len(seq) + ChunkFrames - 1) \div ChunkFrames

Connect(k, seq) ==
  conn' = [conn EXCEPT ![k].at = "waiting", ![k].need = Chunks(seq)]

Accepted(k) == conn[k].at \notin {"none", "waiting"}

SendChunk(k) ==
  /\ Accepted(k)
  /\ conn[k].sent < conn[k].need
  /\ conn' = [conn EXCEPT ![k].sent = @ + 1]

SendEnd(k) ==
  /\ Accepted(k)
  /\ conn[k].sent = conn[k].need
  /\ ~ Ended(k)
  /\ conn' = [conn EXCEPT ![k].client = "ended"]

\* async with ... connect: leaving it closes the connection.
Leave(k) ==
  conn' = [conn EXCEPT ![k].client = IF Ended(k) THEN "left" ELSE "cut"]

=============================================================================
