----------------------------- MODULE VoiceTurnInv -----------------------------
(***************************************************************************)
(* The inductive invariant behind the safety of VoiceTurn.  None of the    *)
(* properties there is inductive: each rests on where the satellite stands *)
(* when its recording, its connection and its request are touched.         *)
(***************************************************************************)
EXTENDS VoiceTurn

Recording(s) == pc[s] \in {"record", "recorded"}

\* A turn is numbered, and record_utterance's variables are its own.
MicInv ==
  \A s \in Satellite :
    /\ pc[s] \notin {"listen", "exited"} => turn[s] >= 1
    /\ ~ Recording(s) => heard[s] = <<>> /\ quiet[s] = 0 /\ audio[s] = <<>>
    /\ pc[s] = "record" => quiet[s] < QuietNeeded
    /\ Len(heard[s]) =< MaxFrames

\* The pre-roll is of the turn that is next, or that has just begun.
RecentInv ==
  \A s \in Satellite :
    /\ ~ Recording(s) /\ pc[s] # "listen" => recent[s] = <<>>
    /\ \A i \in 1 .. Len(recent[s]) :
         recent[s][i][1] = IF pc[s] = "listen" THEN turn[s] + 1 ELSE turn[s]
    /\ \A i \in 1 .. Len(audio[s]) : audio[s][i][1] = turn[s]

\* record_utterance's loop, once it has heard speech: first is the onset, the
\* last quiet[s] frames are the run of silence so far.
Speaking(s, first) ==
  LET len == Len(heard[s]) IN
    /\ first \in 1 .. len
    /\ heard[s][first] = "loud"
    /\ \A i \in 1 .. first - 1 : heard[s][i] = "quiet"
    /\ first =< OnsetFrames + 1
    /\ audio[s] = recent[s] \o LiveFrames(turn[s], first, len - first + 1)
    /\ quiet[s] =< len - first
    /\ heard[s][len - quiet[s]] = "loud"
    /\ \A i \in len - quiet[s] + 1 .. len : heard[s][i] = "quiet"
    /\ \A i \in first + QuietNeeded .. len :
         \E j \in i - QuietNeeded + 1 .. i : heard[s][j] = "loud"

\* ... and before: nothing but silence, for no longer than the onset window.
Waiting(s) ==
  /\ audio[s] = <<>> /\ quiet[s] = 0
  /\ Len(heard[s]) =< OnsetFrames
  /\ \A i \in 1 .. Len(heard[s]) : heard[s][i] = "quiet"

LoopInv ==
  \A s \in Satellite :
    pc[s] = "record" => Waiting(s) \/ \E first \in 1 .. Len(heard[s]) : Speaking(s, first)

\* A connection is used once; the server has no more than was sent, the
\* client sends no more than there is, and says "END" after all of it.
ConnInv ==
  \A k \in Turn :
    /\ conn[k].at = "none" => conn[k] = Idle
    /\ conn[k].got =< conn[k].sent /\ conn[k].sent =< conn[k].need
    /\ Ended(k) => conn[k].sent = conn[k].need
    /\ Working(k) => Ended(k) /\ conn[k].got = conn[k].need
    /\ k[1] \in Pi /\ conn[k].at # "none" => conn[k].need > 0
    /\ conn[k].at = "closed" /\ ~ Gone(k) => conn[k].reply # "none"
    /\ conn[k].reply = "text" => conn[k].got > 0 /\ conn[k].got = conn[k].need
    /\ conn[k].reply # "none" => conn[k].at = "closed"

\* What a turn has done so far, and what later turns have not.
TurnOK(s) ==
  /\ \A n \in 1 .. MaxTurns :
       n > turn[s] \/ (n = turn[s] /\ Recording(s)) =>
         conn[<<s, n>>].at = "none" /\ request[<<s, n>>].at = "none"
  /\ pc[s] = "stt" => /\ conn[Current(s)].at # "none" /\ ~ Gone(Current(s))
                      /\ request[Current(s)].at = "none"
  /\ pc[s] = "speak" => request[Current(s)].at = "answered"

TurnInv == \A s \in Satellite : TurnOK(s)

\* What was posted is a text the server has sent.
RequestInv ==
  \A k \in Turn :
    /\ request[k].at = "none" => request[k] = NoRequest
    /\ request[k].at # "none" => conn[k].reply = "text"

IndInv ==
  TypeOK /\ MicInv /\ RecentInv /\ LoopInv /\ RecordsTheUtterance
  /\ ConnInv /\ TurnInv /\ RequestInv

=============================================================================
