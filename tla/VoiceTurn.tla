------------------------------ MODULE VoiceTurn ------------------------------
(***************************************************************************)
(* The turns of the house: each satellite records, has its recording       *)
(* transcribed, posts the text to the router and speaks the answer (main   *)
(* of src/satellite/satellite.py and of src/satellite/fake_satellite.py),  *)
(* beside the other satellites, and beside what the speech server and the  *)
(* router are still doing for turns that were given up.                    *)
(*                                                                         *)
(*   "stt"     in transcribe             "speak"   in speak                *)
(*   "route"   in requests.post          "exited"  the process has ended   *)
(*                                                                         *)
(* The two loops differ in what an exception does: fake_satellite.py logs  *)
(* it and listens again, satellite.py ends.                                *)
(***************************************************************************)
EXTENDS Dispatch

VARIABLE quit    \* satellites ended by the user (Ctrl-C, closed stdin)

vars == <<pc, turn, micVars, conn, request, brainUrl, quit>>

Current(s) == <<s, turn[s]>>

Where == {"listen", "record", "recorded", "stt", "route", "speak", "exited"}

TypeOK ==
  /\ pc \in [Satellite -> Where]
  /\ MicTypeOK
  /\ SttTypeOK
  /\ DispatchTypeOK
  /\ quit \subseteq Satellite

Init == MicInit /\ SttInit /\ DispatchInit /\ quit = {}

\* What an exception of a turn does to the satellite.
Fails(s) == Goes(s, IF s \in Pi THEN "exited" ELSE "listen")

-----------------------------------------------------------------------------
(* After the recording. *)

\* "(no speech - listening again)": satellite.py only.
SkipTurn(s) ==
  /\ pc[s] = "recorded"
  /\ s \in Pi
  /\ audio[s] = <<>>
  /\ Goes(s, "listen")
  /\ DropAudio(s)
  /\ UNCHANGED <<turn, conn, request, brainUrl, quit>>

\* The audio goes to the speech server; from fake_satellite.py even when
\* there is none.
OpenSession(s) ==
  /\ pc[s] = "recorded"
  /\ s \in Pi => audio[s] # <<>>
  /\ Goes(s, "stt")
  /\ Connect(Current(s), audio[s])
  /\ DropAudio(s)
  /\ UNCHANGED <<turn, request, brainUrl, quit>>

-----------------------------------------------------------------------------
(* In transcribe. *)

Send(s) ==
  /\ pc[s] = "stt"
  /\ SendChunk(Current(s)) \/ SendEnd(Current(s))
  /\ UNCHANGED <<pc, turn, micVars, request, brainUrl, quit>>

\* Mutant: a blank text is routed too.
TakeReplyBlankToo(s) ==
  /\ pc[s] = "stt"
  /\ conn[Current(s)].reply # "none"
  /\ Leave(Current(s))
  /\ \/ /\ conn[Current(s)].reply \in {"text", "blank"}
        /\ Goes(s, "route")
        /\ Post(Current(s))
     \/ /\ conn[Current(s)].reply = "error"
        /\ Fails(s)
        /\ UNCHANGED request
  /\ UNCHANGED <<turn, micVars, brainUrl, quit>>

\* The reply is read and the connection is over: a text goes to the router, a
\* blank one ends the turn, an error reply raises.
TakeReply(s) ==
  /\ pc[s] = "stt"
  /\ conn[Current(s)].reply # "none"
  /\ Leave(Current(s))
  /\ \/ /\ conn[Current(s)].reply = "text"
        /\ Goes(s, "route")
        /\ Post(Current(s))
     \/ /\ conn[Current(s)].reply = "blank"
        /\ Goes(s, "listen")
        /\ UNCHANGED request
     \/ /\ conn[Current(s)].reply = "error"
        /\ Fails(s)
        /\ UNCHANGED request
  /\ UNCHANGED <<turn, micVars, brainUrl, quit>>

\* Mutant: no deadline; only a connection closed without a reply raises.
SttNoDeadline(s) ==
  /\ pc[s] = "stt"
  /\ conn[Current(s)].at = "closed" /\ conn[Current(s)].reply = "none"
  /\ Leave(Current(s))
  /\ Fails(s)
  /\ UNCHANGED <<turn, micVars, request, brainUrl, quit>>

\* asyncio.timeout(STT_TIMEOUT_S) expires, or the connection cannot be made
\* or breaks: at any point, also when the reply is already there.
SttGivesUp(s) ==
  /\ pc[s] = "stt"
  /\ Leave(Current(s))
  /\ Fails(s)
  /\ UNCHANGED <<turn, micVars, request, brainUrl, quit>>

-----------------------------------------------------------------------------
(* In requests.post, and after it. *)

TakeAnswer(s) ==
  /\ pc[s] = "route"
  /\ request[Current(s)].at = "answered"
  /\ Goes(s, IF request[Current(s)].speech = "blank" THEN "listen" ELSE "speak")
  /\ UNCHANGED <<turn, micVars, conn, request, brainUrl, quit>>

\* timeout=60 expires, the connection fails or the response is none the
\* satellite can read.  The router goes on.
RouteGivesUp(s) ==
  /\ pc[s] = "route"
  /\ Fails(s)
  /\ UNCHANGED <<turn, micVars, conn, request, brainUrl, quit>>

\* speak returns.
Spoke(s) ==
  /\ pc[s] = "speak"
  /\ Goes(s, "listen")
  /\ UNCHANGED <<turn, micVars, conn, request, brainUrl, quit>>

-----------------------------------------------------------------------------
(* What may go wrong with the satellite's own sound, and its end. *)

\* sd.InputStream or stream.read raises: while it records, and on the Pi while
\* it waits for the wake word.
MicFails(s) ==
  /\ pc[s] = "record" \/ (pc[s] = "listen" /\ s \in Pi)
  /\ Fails(s)
  /\ DropAudio(s)
  /\ UNCHANGED <<turn, conn, request, brainUrl, quit>>

\* speak raises: its programs do not start, or the pipe between them breaks.
SpeakFails(s) ==
  /\ pc[s] = "speak"
  /\ Fails(s)
  /\ UNCHANGED <<turn, micVars, conn, request, brainUrl, quit>>

\* Ctrl-C anywhere in the loop, or stdin closed.
Quit(s) ==
  /\ pc[s] # "exited"
  /\ Goes(s, "exited")
  /\ quit' = quit \cup {s}
  /\ DropAudio(s)
  /\ IF pc[s] = "stt" THEN Leave(Current(s)) ELSE UNCHANGED conn
  /\ UNCHANGED <<turn, request, brainUrl>>

-----------------------------------------------------------------------------

\* The satellite's own steps, from the recording to the end of the turn.
TurnStep(s) ==
  \/ RecordStep(s) /\ UNCHANGED <<conn, request, brainUrl, quit>>
  \/ SkipTurn(s) \/ OpenSession(s)
  \/ Send(s) \/ TakeReply(s) \/ SttGivesUp(s)
  \/ TakeAnswer(s) \/ RouteGivesUp(s) \/ Spoke(s)

Listen(s) ==
  /\ WakeFrame(s) \/ Enter(s)
  /\ UNCHANGED <<conn, request, brainUrl, quit>>

ServerReceives(k) ==
  /\ ReceiveStep(k)
  /\ UNCHANGED <<pc, turn, micVars, request, brainUrl, quit>>

ServerWorks(k) ==
  /\ WorkStep(k)
  /\ UNCHANGED <<pc, turn, micVars, request, brainUrl, quit>>

RouterStep(k) ==
  /\ RouteStep(k)
  /\ UNCHANGED <<pc, turn, micVars, conn, brainUrl, quit>>

Next ==
  \/ \E s \in Satellite :
       TurnStep(s) \/ Listen(s) \/ MicFails(s) \/ SpeakFails(s) \/ Quit(s)
  \/ \E k \in Turn : ServerReceives(k) \/ ServerWorks(k) \/ RouterStep(k)

Spec == Init /\ [][Next]_vars

(***************************************************************************)
(* Fairness: the microphone delivers frames or fails, deadlines expire,    *)
(* speech ends (speak waits for its player without a timeout), and the     *)
(* server's loop serves its connections when it is free.  Nobody has to    *)
(* speak, a transcription need not end (so the server may hang), and the   *)
(* router owes no answer.                                                  *)
(***************************************************************************)
FairSpec ==
  /\ Spec
  /\ \A s \in Satellite : WF_vars(TurnStep(s))
  /\ \A k \in Turn : WF_vars(ServerReceives(k))

-----------------------------------------------------------------------------
(* What the turns promise. *)

\* count frames of turn n, from the first-th on.
LiveFrames(n, first, count) == [i \in 1 .. count |-> <<n, first + i - 1>>]

\* The declarative form of record_utterance, of what its loop has heard: with
\* no loud frame in the onset window there is no audio; else the pre-roll and
\* everything from the first loud frame to the end of the first quiet run
\* that is long enough, or to the length limit.
IsUtterance(pre, sounds, n, seq) ==
  LET len == Len(sounds)
      loud == {i \in 1 .. len : sounds[i] = "loud"}
      QuietAt(i) == i >= QuietNeeded /\ \A j \in i - QuietNeeded + 1 .. i : sounds[j] = "quiet"
  IN  \/ loud = {} /\ len = OnsetFrames + 1 /\ seq = <<>>
      \/ \E first \in loud :
           /\ \A i \in loud : first =< i
           /\ first =< OnsetFrames + 1
           /\ seq = pre \o LiveFrames(n, first, len - first + 1)
           /\ len = MaxFrames \/ QuietAt(len)
           /\ \A i \in first .. len - 1 : ~ (i >= first + QuietNeeded /\ QuietAt(i))

\* record_utterance returns the user's utterance: neither cut at a pause
\* shorter than the quiet run, nor longer than it, nor begun by the pre-roll
\* alone (pipeline.py:71, at the boundaries of its three frame counts).
RecordsTheUtterance ==
  \A s \in Satellite :
    pc[s] = "recorded" => IsUtterance(recent[s], heard[s], turn[s], audio[s])

\* No frame of an earlier turn gets into a recording (satellite.py:149, the
\* deque outlives the turn).
NoStaleAudio ==
  \A s \in Satellite : \A i \in 1 .. Len(audio[s]) : audio[s][i][1] = turn[s]

\* The server transcribes only complete recordings, however a client leaves,
\* and the Pi never has silence transcribed (stt_server.py:52 with
\* pipeline.py:103; satellite.py:151).
TranscribesWholeUtterances ==
  \A k \in Turn :
    Working(k) => /\ Ended(k) /\ conn[k].got = conn[k].need
                  /\ k[1] \in Pi => conn[k].need > 0

\* What is routed is the text of the turn's whole recording, and somebody
\* spoke in it: however chunks, "END", replies, deadlines and disconnects of
\* the satellites interleave at the server, a part of an utterance is never
\* acted on, nor is the silence that fake_satellite.py has transcribed
\* (fake_satellite.py:184-188, stt_server.py:50-62, pipeline.py:97-118).
RoutesWhatWasSaid ==
  \A k \in Turn :
    request[k].at # "none" => conn[k].need > 0 /\ conn[k].got = conn[k].need

\* Every turn ends although the speech server may hang and the router never
\* answer: the fake satellite listens again unless the user quits, the Pi
\* listens again or ends (transcribe's deadline, requests' timeout).
TurnsEnd ==
  \A s \in Satellite :
    pc[s] # "listen" ~> pc[s] = "listen" \/ (pc[s] = "exited" /\ s \in Pi \cup quit)

\* "never close with no reply" (stt_server.py:64): a client that is still
\* there when the server closes its connection has a reply, if only an error.
NeverClosesSilently ==
  \A k \in Turn : conn[k].at = "closed" /\ ~ Gone(k) => conn[k].reply # "none"

\* As long as no transcription takes for ever, the server gets rid of every
\* connection whose client has sent "END" or has left at any point, though
\* the transcriptions of others hold its event loop before it.
SessionsEnd ==
  (\A j \in Turn : []<>(~ Working(j))) =>
    \A k \in Turn : Ended(k) \/ Gone(k) ~> conn[k].at \in {"none", "closed"}

=============================================================================
