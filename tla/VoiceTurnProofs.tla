---------------------------- MODULE VoiceTurnProofs ----------------------------
(***************************************************************************)
(* Theorems about the turns of the house, for every number of satellites   *)
(* and turns, every length of the recording's frame counts, of the         *)
(* pre-roll and of a chunk.                                                *)
(***************************************************************************)
EXTENDS VoiceTurnInv, SequenceTheorems, TLAPS

-----------------------------------------------------------------------------
(* What a step does to the microphone's side of a satellite. *)

\* The steps between a recording and the next wait for the user: the
\* recording's variables are dropped already.
AfterRecording(s) ==
  /\ pc[s] \in {"stt", "route", "speak"}
  /\ \E where \in {"listen", "stt", "route", "speak", "exited"} :
       /\ Goes(s, where)
       /\ where = "stt" => pc[s] = "stt"
  /\ UNCHANGED <<turn, micVars>>

\* The ends of a recording, and the end of the process.
Drops(s) ==
  /\ \/ pc[s] = "recorded" /\ \E where \in {"listen", "stt"} : Goes(s, where)
     \/ pc[s] = "record" /\ Goes(s, "listen")
     \/ Goes(s, "exited")
  /\ DropAudio(s)
  /\ UNCHANGED turn

MicStep ==
  \/ \E s \in Satellite :
       \/ WakeFrame(s) \/ Enter(s) \/ RecordStep(s)
       \/ AfterRecording(s) \/ Drops(s)
  \/ UNCHANGED <<pc, turn, micVars>>

LEMMA StepIsMicStep ==
  ASSUME pc \in [Satellite -> Where], [Next]_vars
  PROVE  MicStep
<1>1. ASSUME NEW s \in Satellite, TurnStep(s) PROVE MicStep
  <2>1. CASE SkipTurn(s) \/ OpenSession(s)
    BY <2>1 DEF SkipTurn, OpenSession, MicStep, Drops
  <2>2. CASE Send(s)
    <3>1. UNCHANGED <<pc, turn, micVars>>
      BY <2>2 DEF Send
    <3>. QED
      BY <3>1 DEF MicStep
  <2>3. CASE TakeReply(s)
    BY <2>3 DEF TakeReply, Fails, Goes, MicStep, AfterRecording
  <2>4. CASE SttGivesUp(s) \/ RouteGivesUp(s)
    BY <2>4 DEF SttGivesUp, RouteGivesUp, Fails, Goes, MicStep, AfterRecording
  <2>5. CASE TakeAnswer(s)
    BY <2>5 DEF TakeAnswer, Goes, MicStep, AfterRecording
  <2>6. CASE Spoke(s)
    BY <2>6 DEF Spoke, Goes, MicStep, AfterRecording
  <2>. QED
    BY <1>1, <2>1, <2>2, <2>3, <2>4, <2>5, <2>6 DEF TurnStep, MicStep
<1>2. ASSUME NEW s \in Satellite, Listen(s) \/ Quit(s) \/ MicFails(s) \/ SpeakFails(s)
      PROVE  MicStep
  <2>1. CASE MicFails(s)
    BY <2>1 DEF MicFails, Fails, MicStep, Drops
  <2>2. CASE SpeakFails(s)
    BY <2>2 DEF SpeakFails, Fails, Goes, MicStep, AfterRecording
  <2>. QED
    BY <1>2, <2>1, <2>2 DEF Listen, Quit, MicStep, Drops
<1>3. ASSUME NEW k \in Turn, ServerReceives(k) \/ ServerWorks(k) \/ RouterStep(k)
      PROVE  MicStep
  BY <1>3 DEF ServerReceives, ServerWorks, RouterStep, MicStep
<1>4. CASE UNCHANGED vars
  BY <1>4 DEF vars, MicStep
<1>. QED
  BY <1>1, <1>2, <1>3, <1>4 DEF Next

\* The part of the type invariant that is about the microphone's side.
MicTypes == pc \in [Satellite -> Where] /\ MicTypeOK /\ MicInv

LEMMA LiveFrameIsFrame ==
  ASSUME MicTypes, NEW s \in Satellite, InLoop(s)
  PROVE  LiveFrame(s) \in Frame /\ LiveFrame(s)[1] = turn[s]
<1>1. turn[s] >= 1 /\ turn[s] \in 0 .. MaxTurns
  BY DEF InLoop, MicTypes, MicTypeOK, MicInv
<1>2. heard[s] \in Seq(Sound)
  BY DEF MicTypes, MicTypeOK
<1>3. Len(heard[s]) + 1 \in 0 .. MaxFrames
  BY <1>2, LenProperties, FramesAssumption DEF InLoop
<1>. QED
  BY <1>1, <1>3, SatelliteAssumption DEF LiveFrame, Frame

LEMMA MicTypesNext ==
  ASSUME MicTypes, MicStep
  PROVE  MicTypes'
<1> USE FramesAssumption, SatelliteAssumption
    DEF MicTypes, MicTypeOK, MicInv, Where, Recording, micVars
<1>1. ASSUME NEW s \in Satellite, WakeFrame(s) PROVE MicTypes'
  <2>1. turn[s] + 1 \in 1 .. MaxTurns
    BY <1>1 DEF WakeFrame, TurnsLeft
  <2>2. <<turn[s] + 1, 0>> \in Frame
    BY <2>1 DEF Frame
  <2>3. Push(recent[s], <<turn[s] + 1, 0>>) \in Seq(Frame)
    BY <2>2, HeadTailProperties DEF Push
  <2>4. recent' \in [Satellite -> Seq(Frame)]
    BY <1>1, <2>3 DEF WakeFrame
  <2>5. pc' \in [Satellite -> Where] /\ turn' \in [Satellite -> 0 .. MaxTurns]
    <3>1. CASE UNCHANGED <<pc, turn>>
      BY <3>1
    <3>2. CASE Goes(s, "record") /\ turn' = [turn EXCEPT ![s] = @ + 1]
      BY <2>1, <3>2 DEF Goes
    <3>. QED
      BY <1>1, <3>1, <3>2 DEF WakeFrame
  <2>. QED
    BY <1>1, <2>1, <2>4, <2>5 DEF WakeFrame, Goes
<1>2. ASSUME NEW s \in Satellite, Enter(s) PROVE MicTypes'
  BY <1>2 DEF Enter, TurnsLeft, Goes
<1>3. ASSUME NEW s \in Satellite, RecordStep(s) PROVE MicTypes'
  <2>1. CASE LengthLimit(s)
    BY <1>3, <2>1 DEF LengthLimit, Goes
  <2>2. InLoop(s) => LiveFrame(s) \in Frame
    BY LiveFrameIsFrame
  <2>3. ASSUME NEW sound \in Sound, InLoop(s), Read(s, sound)
        PROVE  /\ heard' \in [Satellite -> Seq(Sound)]
               /\ \A r \in Satellite : Len(heard'[r]) =< MaxFrames
               /\ \A r \in Satellite \ {s} : heard'[r] = heard[r]
    BY <2>3 DEF InLoop, Read
  <2>4. CASE Onset(s)
    <3>1. audio' \in [Satellite -> Seq(Frame)]
      BY <2>2, <2>4 DEF Onset
    <3>. QED
      BY <2>3, <2>4, <3>1 DEF Onset, InLoop, Sound
  <2>5. CASE StillSilent(s)
    BY <2>3, <2>5 DEF StillSilent, InLoop, Sound, Goes
  <2>6. CASE Speech(s)
    <3>1. audio' \in [Satellite -> Seq(Frame)]
      BY <2>2, <2>6 DEF Speech
    <3>. QED
      BY <2>3, <2>6, <3>1 DEF Speech, InLoop, Sound
  <2>7. CASE Pause(s)
    <3>1. audio' \in [Satellite -> Seq(Frame)]
      BY <2>2, <2>7 DEF Pause
    <3>2. quiet' \in [Satellite -> 0 .. QuietNeeded]
      BY <2>7 DEF Pause, InLoop
    <3>3. pc' \in [Satellite -> Where]
      BY <2>7 DEF Pause, Goes
    <3>. QED
      BY <2>3, <2>7, <3>1, <3>2, <3>3 DEF Pause, InLoop, Sound, Goes
  <2>. QED
    BY <1>3, <2>1, <2>4, <2>5, <2>6, <2>7 DEF RecordStep
<1>4. ASSUME NEW s \in Satellite, AfterRecording(s) PROVE MicTypes'
  BY <1>4 DEF AfterRecording, Goes
<1>5. ASSUME NEW s \in Satellite, Drops(s) PROVE MicTypes'
  <2>1. PICK where \in {"listen", "stt", "exited"} :
          Goes(s, where) /\ (where = "stt" => pc[s] = "recorded")
    BY <1>5 DEF Drops
  <2>2. MicTypeOK' /\ pc' \in [Satellite -> Where]
    BY <1>5, <2>1 DEF Drops, DropAudio, Goes
  <2>. QED
    BY <1>5, <2>1, <2>2 DEF Drops, DropAudio, Goes
<1>6. CASE UNCHANGED <<pc, turn, micVars>>
  BY <1>6
<1>. QED
  BY <1>1, <1>2, <1>3, <1>4, <1>5, <1>6 DEF MicStep

-----------------------------------------------------------------------------
(* No stale audio. *)

\* All frames of a sequence are of turn n.
AllOf(seq, n) == \A i \in 1 .. Len(seq) : seq[i][1] = n

LEMMA EmptyIsAllOf == ASSUME NEW n PROVE AllOf(<<>>, n)
BY DEF AllOf

LEMMA AllOfAppend ==
  ASSUME NEW seq \in Seq(Frame), NEW n, NEW frame \in Frame,
         AllOf(seq, n), frame[1] = n
  PROVE  AllOf(Append(seq, frame), n) /\ AllOf(Push(seq, frame), n)
<1>1. AllOf(Append(seq, frame), n)
  BY DEF AllOf
<1>2. CASE Len(seq) < PrerollFrames
  BY <1>1, <1>2 DEF Push
<1>3. CASE ~ (Len(seq) < PrerollFrames)
  <2>1. seq # <<>>
    BY <1>3, FramesAssumption
  <2>2. Tail(seq) \in Seq(Frame) /\ AllOf(Tail(seq), n)
    BY <2>1, HeadTailProperties DEF AllOf
  <2>3. AllOf(Append(Tail(seq), frame), n)
    BY <2>2 DEF AllOf
  <2>. QED
    BY <1>1, <1>3, <2>3 DEF Push
<1>. QED
  BY <1>2, <1>1, <1>3

LEMMA RecentNext ==
  ASSUME MicTypes, RecentInv, MicStep
  PROVE  RecentInv'
<1> USE DEF MicTypes, MicTypeOK, MicInv, Recording, micVars
<1> DEFINE Good(s) ==
      /\ ~ Recording(s) /\ pc[s] # "listen" => recent[s] = <<>>
      /\ AllOf(recent[s], IF pc[s] = "listen" THEN turn[s] + 1 ELSE turn[s])
      /\ AllOf(audio[s], turn[s])
<1>0. /\ \A s \in Satellite : Good(s)
      /\ (\A s \in Satellite : Good(s)') => RecentInv'
  BY DEF RecentInv, AllOf
<1>1. ASSUME NEW s \in Satellite, WakeFrame(s) PROVE Good(s)'
  <2>1. <<turn[s] + 1, 0>> \in Frame
    BY <1>1, SatelliteAssumption, FramesAssumption DEF WakeFrame, TurnsLeft, Frame
  <2>2. AllOf(recent'[s], turn[s] + 1)
    BY <1>0, <1>1, <2>1, AllOfAppend DEF WakeFrame
  <2>3. audio'[s] = <<>>
    BY <1>1 DEF WakeFrame
  <2>4. \/ pc'[s] = "listen" /\ turn'[s] = turn[s]
        \/ pc'[s] = "record" /\ turn'[s] = turn[s] + 1
    BY <1>1 DEF WakeFrame, Goes
  <2>. QED
    BY <2>2, <2>3, <2>4, EmptyIsAllOf
<1>2. ASSUME NEW s \in Satellite, Enter(s) PROVE Good(s)'
  <2>1. audio'[s] = <<>>
    BY <1>2 DEF Enter
  <2>. QED
    BY <1>0, <1>2, <2>1, EmptyIsAllOf DEF Enter, Goes
<1>3. ASSUME NEW s \in Satellite, RecordStep(s) PROVE Good(s)'
  <2>1. /\ pc[s] = "record" /\ turn'[s] = turn[s] /\ recent'[s] = recent[s]
        /\ pc'[s] \in {"record", "recorded"}
    BY <1>3 DEF RecordStep, Onset, StillSilent, Speech, Pause, LengthLimit, InLoop, Goes
  <2>2. InLoop(s) => LiveFrame(s) \in Frame /\ LiveFrame(s)[1] = turn[s]
    BY LiveFrameIsFrame
  <2>3. AllOf(audio'[s], turn[s])
    <3>1. \/ audio'[s] = audio[s]
          \/ InLoop(s) /\ \/ audio'[s] = Append(recent[s], LiveFrame(s))
                          \/ audio'[s] = Append(audio[s], LiveFrame(s))
      BY <1>3 DEF RecordStep, Onset, StillSilent, Speech, Pause, LengthLimit
    <3>2. AllOf(recent[s], turn[s]) /\ AllOf(audio[s], turn[s])
      BY <1>0, <2>1
    <3>. QED
      BY <2>2, <3>1, <3>2, AllOfAppend
  <2>. QED
    BY <1>0, <2>1, <2>3
<1>4. ASSUME NEW s \in Satellite, AfterRecording(s) PROVE Good(s)'
  <2>1. recent'[s] = <<>> /\ audio'[s] = <<>>
    BY <1>0, <1>4 DEF AfterRecording
  <2>. QED
    BY <2>1, EmptyIsAllOf
<1>5. ASSUME NEW s \in Satellite, Drops(s) PROVE Good(s)'
  <2>1. recent'[s] = <<>> /\ audio'[s] = <<>>
    BY <1>5 DEF Drops, DropAudio
  <2>. QED
    BY <2>1, EmptyIsAllOf
<1>6. ASSUME NEW s \in Satellite, NEW r \in Satellite \ {s},
             WakeFrame(s) \/ Enter(s) \/ RecordStep(s) \/ AfterRecording(s) \/ Drops(s)
      PROVE  Good(r)'
  <2>1. UNCHANGED <<pc[r], turn[r], recent[r], audio[r]>>
    BY <1>6 DEF WakeFrame, Enter, RecordStep, Onset, StillSilent, Speech, Pause,
         LengthLimit, AfterRecording, Drops, DropAudio, Goes
  <2>. QED
    BY <1>0, <2>1
<1>7. CASE UNCHANGED <<pc, turn, micVars>>
  BY <1>0, <1>7
<1>. QED
  BY <1>0, <1>1, <1>2, <1>3, <1>4, <1>5, <1>6, <1>7 DEF MicStep

-----------------------------------------------------------------------------
(* record_utterance returns the utterance. *)

LEMMA AppendAfter ==
  ASSUME NEW S, NEW pre \in Seq(S), NEW a \in Seq(S), NEW b \in Seq(S),
         Len(b) = Len(a) + 1, \A i \in 1 .. Len(a) : b[i] = a[i]
  PROVE  Append(pre \o a, b[Len(b)]) = pre \o b
<1> DEFINE last == b[Len(b)]
<1>1. last \in S
  BY LenProperties
<1>2. pre \o a \in Seq(S) /\ pre \o b \in Seq(S)
  OBVIOUS
<1>3. Append(pre \o a, last) \in Seq(S) /\ Len(Append(pre \o a, last)) = Len(pre \o b)
  BY <1>1, <1>2
<1>4. ASSUME NEW i \in 1 .. Len(Append(pre \o a, last))
      PROVE  Append(pre \o a, last)[i] = (pre \o b)[i]
  <2>1. CASE i = Len(pre) + Len(b)
    BY <1>1, <1>2, <2>1
  <2>2. CASE i =< Len(pre) + Len(a)
    BY <1>1, <1>2, <2>2
  <2>. QED
    BY <1>3, <2>1, <2>2
<1>. QED
  BY <1>2, <1>3, <1>4, SeqEqual

LEMMA LiveFramesGrow ==
  ASSUME NEW pre \in Seq(Frame), NEW n \in Nat, NEW first \in Nat, NEW count \in Nat
  PROVE  Append(pre \o LiveFrames(n, first, count), <<n, first + count>>)
           = pre \o LiveFrames(n, first, count + 1)
<1> DEFINE a == LiveFrames(n, first, count)
           b == LiveFrames(n, first, count + 1)
<1>1. /\ a \in Seq(Nat \X Nat) /\ Len(a) = count
      /\ b \in Seq(Nat \X Nat) /\ Len(b) = count + 1
  BY DEF LiveFrames
<1>2. \A i \in 1 .. count : b[i] = a[i]
  BY DEF LiveFrames
<1>3. b[count + 1] = <<n, first + count>>
  BY DEF LiveFrames
<1>4. pre \in Seq(Nat \X Nat)
  <2>1. Frame \subseteq Nat \X Nat
    BY FramesAssumption, SatelliteAssumption DEF Frame
  <2>. QED
    BY <2>1
<1> HIDE DEF a, b
<1>5. Append(pre \o a, b[Len(b)]) = pre \o b
  BY <1>1, <1>2, <1>4, AppendAfter
<1>. QED
  BY <1>1, <1>3, <1>5 DEF a, b

\* The frames that one pass of the loop adds.
LEMMA OnsetKeepsLoop ==
  ASSUME MicTypes, NEW s \in Satellite, Waiting(s), Onset(s),
         NEW first \in Nat, first = Len(heard[s]) + 1
  PROVE  Speaking(s, first)'
<1>1. heard[s] \in Seq(Sound) /\ recent[s] \in Seq(Frame) /\ turn[s] \in Nat
  BY SatelliteAssumption DEF MicTypes, MicTypeOK
<1>2. /\ heard'[s] = Append(heard[s], "loud")
      /\ audio'[s] = Append(recent[s], <<turn[s], first>>)
      /\ turn'[s] = turn[s] /\ recent'[s] = recent[s] /\ quiet'[s] = 0
  BY DEF Onset, Read, LiveFrame, Waiting, MicTypes, MicTypeOK
<1>3. audio'[s] = recent[s] \o LiveFrames(turn[s], first, 1)
  <2>1. PICK none \in Nat : none = 0
    OBVIOUS
  <2>2. LiveFrames(turn[s], first, none) = <<>>
    BY <2>1 DEF LiveFrames
  <2>3. recent[s] \o LiveFrames(turn[s], first, none) = recent[s]
    BY <1>1, <2>2, ConcatEmptySeq
  <2>4. first + none = first /\ none + 1 = 1
    BY <2>1
  <2>5. Append(recent[s] \o LiveFrames(turn[s], first, none), <<turn[s], first + none>>)
          = recent[s] \o LiveFrames(turn[s], first, none + 1)
    BY <1>1, LiveFramesGrow
  <2>. QED
    BY <1>2, <2>3, <2>4, <2>5
<1>4. /\ Len(heard'[s]) = first /\ heard'[s][first] = "loud"
      /\ \A i \in 1 .. first - 1 : heard'[s][i] = "quiet"
  BY <1>1, <1>2 DEF Waiting
<1>5. audio'[s] = recent'[s] \o LiveFrames(turn'[s], first, Len(heard'[s]) - first + 1)
  <2>1. Len(heard'[s]) - first + 1 = 1
    BY <1>4
  <2>. QED
    BY <1>2, <1>3, <2>1
<1>6. first =< OnsetFrames + 1
  BY <1>1, FramesAssumption DEF Waiting
<1>7. /\ first \in 1 .. first /\ 0 =< first - first /\ first - 0 = first
      /\ \A i : i \notin first - 0 + 1 .. first /\ i \notin first + QuietNeeded .. first
  BY <1>1, FramesAssumption
<1>. QED
  BY <1>2, <1>4, <1>5, <1>6, <1>7 DEF Speaking

\* A frame that is kept after the onset, whatever its sound.
LEMMA KeptFrameIsNext ==
  ASSUME MicTypes, NEW s \in Satellite, NEW sound \in Sound,
         NEW first \in Nat, Speaking(s, first), Read(s, sound),
         audio' = [audio EXCEPT ![s] = Append(@, LiveFrame(s))],
         UNCHANGED <<turn, recent>>
  PROVE  /\ heard'[s] = Append(heard[s], sound)
         /\ Len(heard'[s]) = Len(heard[s]) + 1
         /\ heard'[s][Len(heard[s]) + 1] = sound
         /\ \A i \in 1 .. Len(heard[s]) : heard'[s][i] = heard[s][i]
         /\ audio'[s] = recent'[s] \o LiveFrames(turn'[s], first, Len(heard'[s]) - first + 1)
<1> DEFINE len == Len(heard[s])
           count == len - first + 1
<1>1. heard[s] \in Seq(Sound) /\ recent[s] \in Seq(Frame) /\ turn[s] \in Nat
  BY SatelliteAssumption DEF MicTypes, MicTypeOK
<1>2. heard'[s] = Append(heard[s], sound)
  BY DEF Read, MicTypes, MicTypeOK
<1>3. /\ Len(heard'[s]) = len + 1 /\ heard'[s][len + 1] = sound
      /\ \A i \in 1 .. len : heard'[s][i] = heard[s][i]
  BY <1>1, <1>2
<1>4. len \in Nat /\ count \in Nat /\ first + count = len + 1
  <2>1. first \in 1 .. Len(heard[s])
    BY DEF Speaking
  <2>2. Len(heard[s]) \in Nat
    BY <1>1
  <2>. QED
    BY <2>1, <2>2
<1>5. audio'[s] = Append(recent[s] \o LiveFrames(turn[s], first, count), <<turn[s], len + 1>>)
  BY DEF Speaking, LiveFrame, MicTypes, MicTypeOK
<1>6. audio'[s] = recent[s] \o LiveFrames(turn[s], first, count + 1)
  <2>1. Append(recent[s] \o LiveFrames(turn[s], first, count), <<turn[s], first + count>>)
          = recent[s] \o LiveFrames(turn[s], first, count + 1)
    <3> HIDE DEF count, len
    <3>. QED
      BY <1>1, <1>4, LiveFramesGrow
  <2>. QED
    BY <1>4, <1>5, <2>1
<1>7. Len(heard'[s]) - first + 1 = count + 1
  BY <1>1, <1>3, <1>4
<1>. QED
  BY <1>2, <1>3, <1>6, <1>7

\* ... and before the next, a loud one leaves the loop as it was, with no run
\* of silence;
LEMMA SpeechKeepsLoop ==
  ASSUME MicTypes, NEW s \in Satellite, NEW first \in Nat, Speaking(s, first), Speech(s)
  PROVE  Speaking(s, first)'
<1>1. heard[s] \in Seq(Sound) /\ Len(heard[s]) \in Nat
  BY DEF MicTypes, MicTypeOK
<1>2. /\ Len(heard'[s]) = Len(heard[s]) + 1
      /\ heard'[s][Len(heard[s]) + 1] = "loud"
      /\ \A i \in 1 .. Len(heard[s]) : heard'[s][i] = heard[s][i]
      /\ audio'[s] = recent'[s] \o LiveFrames(turn'[s], first, Len(heard'[s]) - first + 1)
  BY KeptFrameIsNext DEF Speech, Sound
<1>3. quiet'[s] = 0
  BY DEF Speech, MicTypes, MicTypeOK
<1>4. ASSUME NEW i \in first + QuietNeeded .. Len(heard'[s])
      PROVE  \E j \in i - QuietNeeded + 1 .. i : heard'[s][j] = "loud"
  <2>1. CASE i = Len(heard[s]) + 1
    <3>1. i \in i - QuietNeeded + 1 .. i
      BY ONLY <1>1, <2>1, FramesAssumption
    <3>2. heard'[s][i] = "loud"
      BY <1>2, <2>1
    <3>. QED
      BY <3>1, <3>2
  <2>2. CASE i =< Len(heard[s])
    <3>1. PICK j \in i - QuietNeeded + 1 .. i : heard[s][j] = "loud"
      BY <1>1, <2>2, FramesAssumption DEF Speaking
    <3>. QED
      BY <1>1, <1>2, <2>2, <3>1, FramesAssumption
  <2>. QED
    BY <1>1, <1>2, <2>1, <2>2, FramesAssumption
<1>5. /\ first \in 1 .. Len(heard[s]) /\ heard[s][first] = "loud"
      /\ \A i \in 1 .. first - 1 : heard[s][i] = "quiet"
      /\ first =< OnsetFrames + 1
  BY DEF Speaking
<1>6. /\ first \in 1 .. Len(heard'[s]) /\ heard'[s][first] = "loud"
      /\ \A i \in 1 .. first - 1 : heard'[s][i] = "quiet"
  <2>1. first \in 1 .. Len(heard'[s]) /\ heard'[s][first] = "loud"
    BY <1>1, <1>2, <1>5
  <2>2. ASSUME NEW i \in 1 .. first - 1 PROVE heard'[s][i] = "quiet"
    <3>1. i \in 1 .. Len(heard[s])
      BY <1>1, <1>5
    <3>. QED
      BY <1>2, <1>5, <3>1
  <2>. QED
    BY <2>1, <2>2
<1>7. Len(heard'[s]) - 0 = Len(heard[s]) + 1 /\ 0 =< Len(heard'[s]) - first
  BY <1>1, <1>2, <1>5
<1>8. \A i : i \notin Len(heard'[s]) - 0 + 1 .. Len(heard'[s])
  BY <1>1, <1>2
<1>. QED
  BY <1>2, <1>3, <1>4, <1>5, <1>6, <1>7, <1>8 DEF Speaking

\* ... a quiet one that does not end the recording makes the run longer;
LEMMA PauseKeepsLoop ==
  ASSUME MicTypes, NEW s \in Satellite, NEW first \in Nat, Speaking(s, first), Pause(s),
         quiet[s] + 1 < QuietNeeded
  PROVE  Speaking(s, first)'
<1>1. /\ heard[s] \in Seq(Sound) /\ Len(heard[s]) \in Nat /\ quiet[s] \in Nat
      /\ QuietNeeded \in Nat
  BY FramesAssumption DEF MicTypes, MicTypeOK
<1>2. /\ Len(heard'[s]) = Len(heard[s]) + 1
      /\ heard'[s][Len(heard[s]) + 1] = "quiet"
      /\ \A i \in 1 .. Len(heard[s]) : heard'[s][i] = heard[s][i]
      /\ audio'[s] = recent'[s] \o LiveFrames(turn'[s], first, Len(heard'[s]) - first + 1)
  BY KeptFrameIsNext DEF Pause, Sound
<1>3. quiet'[s] = quiet[s] + 1
  BY DEF Pause, MicTypes, MicTypeOK
<1>4. /\ first \in 1 .. Len(heard[s]) /\ heard[s][first] = "loud"
      /\ \A i \in 1 .. first - 1 : heard[s][i] = "quiet"
      /\ first =< OnsetFrames + 1
      /\ quiet[s] =< Len(heard[s]) - first
      /\ heard[s][Len(heard[s]) - quiet[s]] = "loud"
      /\ \A i \in Len(heard[s]) - quiet[s] + 1 .. Len(heard[s]) : heard[s][i] = "quiet"
      /\ \A i \in first + QuietNeeded .. Len(heard[s]) :
           \E j \in i - QuietNeeded + 1 .. i : heard[s][j] = "loud"
  BY DEF Speaking
<1>5. first \in 1 .. Len(heard'[s]) /\ heard'[s][first] = "loud"
  BY <1>1, <1>2, <1>4
<1>6. ASSUME NEW i \in 1 .. first - 1 PROVE heard'[s][i] = "quiet"
  <2>1. i \in 1 .. Len(heard[s])
    BY <1>1, <1>4
  <2>. QED
    BY <1>2, <1>4, <2>1
<1>7. /\ quiet'[s] =< Len(heard'[s]) - first
      /\ Len(heard'[s]) - quiet'[s] = Len(heard[s]) - quiet[s]
      /\ Len(heard[s]) - quiet[s] \in 1 .. Len(heard[s])
  <2>1. first \in 1 .. Len(heard[s]) /\ quiet[s] =< Len(heard[s]) - first
    BY <1>4
  <2>2. Len(heard'[s]) = Len(heard[s]) + 1
    BY <1>2
  <2>. QED
    BY ONLY <1>1, <1>3, <2>1, <2>2
<1>8. heard'[s][Len(heard'[s]) - quiet'[s]] = "loud"
  BY <1>2, <1>4, <1>7
<1>9. ASSUME NEW i \in Len(heard'[s]) - quiet'[s] + 1 .. Len(heard'[s])
      PROVE  heard'[s][i] = "quiet"
  <2>1. CASE i = Len(heard[s]) + 1
    BY <1>2, <2>1
  <2>2. CASE i # Len(heard[s]) + 1
    <3>1. i \in Len(heard[s]) - quiet[s] + 1 .. Len(heard[s]) /\ i \in 1 .. Len(heard[s])
      BY <1>1, <1>2, <1>3, <1>7, <2>2
    <3>. QED
      BY <1>2, <1>4, <3>1
  <2>. QED
    BY <2>1, <2>2
<1>10. ASSUME NEW i \in first + QuietNeeded .. Len(heard'[s])
       PROVE  \E j \in i - QuietNeeded + 1 .. i : heard'[s][j] = "loud"
  <2>1. CASE i = Len(heard[s]) + 1
    <3>1. Len(heard[s]) - quiet[s] \in i - QuietNeeded + 1 .. i
      BY <1>1, <2>1
    <3>. QED
      BY <1>7, <1>8, <3>1
  <2>2. CASE i # Len(heard[s]) + 1
    <3>1. i \in first + QuietNeeded .. Len(heard[s])
      BY <1>1, <1>2, <1>4, <2>2
    <3>2. PICK j \in i - QuietNeeded + 1 .. i : heard[s][j] = "loud"
      BY <1>4, <3>1
    <3>3. j \in 1 .. Len(heard[s])
      BY <1>1, <1>4, <3>1, <3>2
    <3>. QED
      BY <1>2, <3>2, <3>3
  <2>. QED
    BY <2>1, <2>2
<1>. QED
  BY <1>2, <1>4, <1>5, <1>6, <1>7, <1>8, <1>9, <1>10 DEF Speaking

\* An utterance that ends in the run of silence, or at the length limit.
LEMMA IsUtteranceFrom ==
  ASSUME NEW pre, NEW n, NEW sounds \in Seq(Sound), NEW seq,
         NEW first \in 1 .. Len(sounds),
         sounds[first] = "loud",
         \A i \in 1 .. first - 1 : sounds[i] = "quiet",
         first =< OnsetFrames + 1,
         seq = pre \o LiveFrames(n, first, Len(sounds) - first + 1),
         \/ Len(sounds) = MaxFrames
         \/ /\ Len(sounds) >= QuietNeeded
            /\ \A j \in Len(sounds) - QuietNeeded + 1 .. Len(sounds) : sounds[j] = "quiet",
         \A i \in first + QuietNeeded .. Len(sounds) - 1 :
           \E j \in i - QuietNeeded + 1 .. i : sounds[j] = "loud"
  PROVE  IsUtterance(pre, sounds, n, seq)
<1>1. \A i \in {j \in 1 .. Len(sounds) : sounds[j] = "loud"} : first =< i
  <2> TAKE i \in {j \in 1 .. Len(sounds) : sounds[j] = "loud"}
  <2>1. i \notin 1 .. first - 1
    OBVIOUS
  <2>. QED
    BY <2>1
<1>2. ASSUME NEW i \in first .. Len(sounds) - 1, i >= first + QuietNeeded
      PROVE  ~ \A j \in i - QuietNeeded + 1 .. i : sounds[j] = "quiet"
  <2>1. i \in first + QuietNeeded .. Len(sounds) - 1
    BY <1>2, FramesAssumption
  <2>2. PICK j \in i - QuietNeeded + 1 .. i : sounds[j] = "loud"
    BY <2>1
  <2>. QED
    BY <2>2
<1>. QED
  BY <1>1, <1>2 DEF IsUtterance

\* ... and the one that completes the run of silence ends an utterance,
LEMMA PauseEndsUtterance ==
  ASSUME MicTypes, NEW s \in Satellite, NEW first \in Nat, Speaking(s, first), Pause(s),
         quiet[s] + 1 >= QuietNeeded, quiet[s] < QuietNeeded
  PROVE  IsUtterance(recent'[s], heard'[s], turn'[s], audio'[s])
<1>1. /\ heard[s] \in Seq(Sound) /\ Len(heard[s]) \in Nat /\ quiet[s] \in Nat
      /\ QuietNeeded \in Nat /\ quiet[s] + 1 = QuietNeeded
  BY FramesAssumption DEF MicTypes, MicTypeOK
<1>2. /\ heard'[s] = Append(heard[s], "quiet")
      /\ Len(heard'[s]) = Len(heard[s]) + 1
      /\ heard'[s][Len(heard[s]) + 1] = "quiet"
      /\ \A i \in 1 .. Len(heard[s]) : heard'[s][i] = heard[s][i]
      /\ audio'[s] = recent'[s] \o LiveFrames(turn'[s], first, Len(heard'[s]) - first + 1)
  BY KeptFrameIsNext DEF Pause, Sound
<1>3. heard'[s] \in Seq(Sound)
  BY <1>1, <1>2 DEF Sound
<1>4. /\ first \in 1 .. Len(heard[s]) /\ heard[s][first] = "loud"
      /\ \A i \in 1 .. first - 1 : heard[s][i] = "quiet"
      /\ first =< OnsetFrames + 1
      /\ quiet[s] =< Len(heard[s]) - first
      /\ \A i \in Len(heard[s]) - quiet[s] + 1 .. Len(heard[s]) : heard[s][i] = "quiet"
      /\ \A i \in first + QuietNeeded .. Len(heard[s]) :
           \E j \in i - QuietNeeded + 1 .. i : heard[s][j] = "loud"
  BY DEF Speaking
<1>5. first \in 1 .. Len(heard'[s]) /\ heard'[s][first] = "loud"
  BY <1>1, <1>2, <1>4
<1>6. ASSUME NEW i \in 1 .. first - 1 PROVE heard'[s][i] = "quiet"
  <2>1. i \in 1 .. Len(heard[s])
    BY <1>1, <1>4
  <2>. QED
    BY <1>2, <1>4, <2>1
<1>7. Len(heard'[s]) >= QuietNeeded
  BY <1>1, <1>2, <1>4
<1>8. ASSUME NEW j \in Len(heard'[s]) - QuietNeeded + 1 .. Len(heard'[s])
      PROVE  heard'[s][j] = "quiet"
  <2>1. CASE j = Len(heard[s]) + 1
    BY <1>2, <2>1
  <2>2. CASE j # Len(heard[s]) + 1
    <3>1. j \in Len(heard[s]) - quiet[s] + 1 .. Len(heard[s]) /\ j \in 1 .. Len(heard[s])
      BY <1>1, <1>2, <1>4, <2>2
    <3>. QED
      BY <1>2, <1>4, <3>1
  <2>. QED
    BY <2>1, <2>2
<1>9. ASSUME NEW i \in first + QuietNeeded .. Len(heard'[s]) - 1
      PROVE  \E j \in i - QuietNeeded + 1 .. i : heard'[s][j] = "loud"
  <2>1. i \in first + QuietNeeded .. Len(heard[s])
    BY <1>1, <1>2, <1>4
  <2>2. PICK j \in i - QuietNeeded + 1 .. i : heard[s][j] = "loud"
    BY <1>4, <2>1
  <2>3. j \in 1 .. Len(heard[s])
    BY <1>1, <1>4, <2>1, <2>2
  <2>. QED
    BY <1>2, <2>2, <2>3
<1>. QED
  BY <1>2, <1>3, <1>4, <1>5, <1>6, <1>7, <1>8, <1>9, IsUtteranceFrom

\* ... as the length limit does.
LEMMA LimitEndsUtterance ==
  ASSUME MicTypes, NEW s \in Satellite, NEW first \in Nat, Speaking(s, first),
         Len(heard[s]) = MaxFrames
  PROVE  IsUtterance(recent[s], heard[s], turn[s], audio[s])
<1>1. heard[s] \in Seq(Sound) /\ Len(heard[s]) \in Nat
  BY DEF MicTypes, MicTypeOK
<1>2. /\ first \in 1 .. Len(heard[s]) /\ heard[s][first] = "loud"
      /\ \A i \in 1 .. first - 1 : heard[s][i] = "quiet"
      /\ first =< OnsetFrames + 1
      /\ audio[s] = recent[s] \o LiveFrames(turn[s], first, Len(heard[s]) - first + 1)
      /\ \A i \in first + QuietNeeded .. Len(heard[s]) :
           \E j \in i - QuietNeeded + 1 .. i : heard[s][j] = "loud"
  BY DEF Speaking
<1>3. \A i \in first + QuietNeeded .. Len(heard[s]) - 1 :
        \E j \in i - QuietNeeded + 1 .. i : heard[s][j] = "loud"
  <2> TAKE i \in first + QuietNeeded .. Len(heard[s]) - 1
  <2>1. i \in first + QuietNeeded .. Len(heard[s])
    BY <1>1, FramesAssumption
  <2>. QED
    BY <1>2, <2>1
<1>. QED
  BY <1>1, <1>2, <1>3, IsUtteranceFrom

\* A quiet frame before the onset; the window may end with it.
LEMMA SilenceGoesOn ==
  ASSUME MicTypes, NEW s \in Satellite, Waiting(s), StillSilent(s)
  PROVE  /\ pc'[s] = "record" => Waiting(s)'
         /\ pc'[s] = "recorded" =>
              IsUtterance(recent'[s], heard'[s], turn'[s], audio'[s])
<1>1. heard[s] \in Seq(Sound) /\ Len(heard[s]) \in Nat /\ OnsetFrames \in Nat
  BY FramesAssumption DEF MicTypes, MicTypeOK
<1>2. /\ heard'[s] = Append(heard[s], "quiet")
      /\ quiet'[s] = quiet[s] /\ audio'[s] = audio[s]
      /\ pc[s] = "record"
      /\ IF Len(heard[s]) >= OnsetFrames THEN pc'[s] = "recorded" ELSE pc'[s] = "record"
  BY DEF StillSilent, InLoop, Read, Goes, MicTypes, MicTypeOK
<1>3. /\ Len(heard'[s]) = Len(heard[s]) + 1
      /\ \A i \in 1 .. Len(heard'[s]) : heard'[s][i] = "quiet"
  BY <1>1, <1>2 DEF Waiting
<1>4. CASE Len(heard[s]) >= OnsetFrames
  <2>1. Len(heard'[s]) = OnsetFrames + 1 /\ audio'[s] = <<>>
    BY <1>1, <1>2, <1>3, <1>4 DEF Waiting
  <2>2. {i \in 1 .. Len(heard'[s]) : heard'[s][i] = "loud"} = {}
    BY <1>3
  <2>. QED
    BY <1>2, <1>4, <2>1, <2>2 DEF IsUtterance
<1>5. CASE ~ (Len(heard[s]) >= OnsetFrames)
  BY <1>1, <1>2, <1>3, <1>5 DEF Waiting
<1>. QED
  BY <1>4, <1>5

\* A satellite's loop depends on its own variables only.
LEMMA LoopIsLocal ==
  ASSUME NEW s \in Satellite,
         UNCHANGED <<pc[s], turn[s], recent[s], heard[s], quiet[s], audio[s]>>
  PROVE  /\ Waiting(s)' <=> Waiting(s)
         /\ \A first \in Nat : Speaking(s, first)' <=> Speaking(s, first)
<1>1. Waiting(s)' <=> Waiting(s)
  BY DEF Waiting
<1>2. ASSUME NEW first \in Nat PROVE Speaking(s, first)' <=> Speaking(s, first)
  BY DEF Speaking
<1>. QED
  BY <1>1, <1>2

LEMMA UtteranceNext ==
  ASSUME MicTypes, LoopInv, RecordsTheUtterance, MicStep
  PROVE  LoopInv' /\ RecordsTheUtterance'
<1> DEFINE Good(s) ==
      /\ pc[s] = "record" =>
           Waiting(s) \/ \E first \in 1 .. Len(heard[s]) : Speaking(s, first)
      /\ pc[s] = "recorded" => IsUtterance(recent[s], heard[s], turn[s], audio[s])
<1>0. /\ \A s \in Satellite : Good(s)
      /\ (\A s \in Satellite : Good(s)') => LoopInv' /\ RecordsTheUtterance'
  BY DEF LoopInv, RecordsTheUtterance
<1>1. ASSUME NEW s \in Satellite, WakeFrame(s) \/ Enter(s) PROVE Good(s)'
  <2>1. /\ heard'[s] = <<>> /\ quiet'[s] = 0 /\ audio'[s] = <<>>
        /\ pc'[s] # "recorded"
    BY <1>1 DEF WakeFrame, Enter, Goes, MicTypes, MicInv, MicTypeOK, Recording, micVars
  <2>. QED
    BY <2>1, FramesAssumption DEF Waiting
<1>2. ASSUME NEW s \in Satellite, RecordStep(s) PROVE Good(s)'
  <2>1. pc[s] = "record" /\ quiet[s] < QuietNeeded /\ pc \in [Satellite -> Where]
    BY <1>2 DEF RecordStep, Onset, StillSilent, Speech, Pause, LengthLimit, InLoop,
         MicTypes, MicInv
  <2>2. Waiting(s) \/ \E first \in 1 .. Len(heard[s]) : Speaking(s, first)
    BY <1>0, <2>1
  <2>3. Started(s) => \E first \in 1 .. Len(heard[s]) : Speaking(s, first)
    BY <2>2 DEF Started, Waiting
  <2>4. ~ Started(s) => Waiting(s)
    <3> SUFFICES ASSUME NEW first \in 1 .. Len(heard[s]), Speaking(s, first) PROVE Started(s)
      BY <2>2
    <3>1. /\ heard[s] \in Seq(Sound) /\ recent[s] \in Seq(Frame)
          /\ audio[s] = recent[s] \o LiveFrames(turn[s], first, Len(heard[s]) - first + 1)
      BY DEF Speaking, MicTypes, MicTypeOK
    <3>2. Len(LiveFrames(turn[s], first, Len(heard[s]) - first + 1)) > 0
      BY <3>1 DEF LiveFrames
    <3>3. Len(audio[s]) > 0
      BY <3>1, <3>2 DEF LiveFrames
    <3>. QED
      BY <3>3 DEF Started
  <2>5. CASE Onset(s)
    <3>1. PICK first \in Nat : first = Len(heard[s]) + 1
      BY DEF MicTypes, MicTypeOK
    <3>2. Speaking(s, first)'
      BY <2>4, <2>5, <3>1, OnsetKeepsLoop DEF Onset
    <3>3. first \in 1 .. Len(heard'[s])
      BY <3>2 DEF Speaking
    <3>. QED
      BY <2>1, <2>5, <3>2, <3>3 DEF Onset
  <2>6. CASE StillSilent(s)
    BY <2>4, <2>6, SilenceGoesOn DEF StillSilent
  <2>7. CASE Speech(s)
    <3>1. PICK first \in 1 .. Len(heard[s]) : Speaking(s, first)
      BY <2>3, <2>7 DEF Speech
    <3>2. Speaking(s, first)'
      BY <2>7, <3>1, SpeechKeepsLoop
    <3>3. first \in 1 .. Len(heard'[s])
      BY <3>2 DEF Speaking
    <3>. QED
      BY <2>1, <2>7, <3>2, <3>3 DEF Speech
  <2>8. CASE Pause(s)
    <3>1. PICK first \in 1 .. Len(heard[s]) : Speaking(s, first)
      BY <2>3, <2>8 DEF Pause
    <3>2. CASE quiet[s] + 1 < QuietNeeded
      <4>1. Speaking(s, first)'
        BY <2>8, <3>1, <3>2, PauseKeepsLoop
      <4>2. first \in 1 .. Len(heard'[s])
        BY <4>1 DEF Speaking
      <4>3. ~ (quiet[s] + 1 >= QuietNeeded)
        BY <3>2, FramesAssumption DEF MicTypes, MicTypeOK
      <4>. QED
        BY <2>1, <2>8, <4>1, <4>2, <4>3 DEF Pause
    <3>3. CASE ~ (quiet[s] + 1 < QuietNeeded)
      <4>1. quiet[s] + 1 >= QuietNeeded
        BY <3>3, FramesAssumption DEF MicTypes, MicTypeOK
      <4>2. pc'[s] = "recorded"
        BY <2>1, <2>8, <4>1 DEF Pause, Goes
      <4>. QED
        BY <2>1, <2>8, <3>1, <4>1, <4>2, PauseEndsUtterance
    <3>. QED
      BY <3>2, <3>3
  <2>9. CASE LengthLimit(s)
    <3>1. /\ Len(heard[s]) = MaxFrames /\ pc'[s] = "recorded"
          /\ UNCHANGED <<recent[s], heard[s], turn[s], audio[s]>>
      BY <2>1, <2>9 DEF LengthLimit, Goes, micVars
    <3>2. PICK first \in 1 .. Len(heard[s]) : Speaking(s, first)
      BY <2>2, <3>1, FramesAssumption DEF Waiting
    <3>3. IsUtterance(recent[s], heard[s], turn[s], audio[s])
      BY <3>1, <3>2, LimitEndsUtterance
    <3>. QED
      BY <3>1, <3>3
  <2>. QED
    BY <1>2, <2>5, <2>6, <2>7, <2>8, <2>9 DEF RecordStep
<1>3. ASSUME NEW s \in Satellite, AfterRecording(s) \/ Drops(s) PROVE Good(s)'
  <2>1. pc'[s] \notin {"record", "recorded"}
    BY <1>3 DEF AfterRecording, Drops, Goes, MicTypes
  <2>. QED
    BY <2>1
<1>4. ASSUME NEW s \in Satellite, NEW r \in Satellite \ {s},
             WakeFrame(s) \/ Enter(s) \/ RecordStep(s) \/ AfterRecording(s) \/ Drops(s)
      PROVE  Good(r)'
  <2>1. UNCHANGED <<pc[r], turn[r], recent[r], heard[r], quiet[r], audio[r]>>
    BY <1>4 DEF WakeFrame, Enter, RecordStep, Onset, StillSilent, Speech, Pause,
         LengthLimit, Read, AfterRecording, Drops, DropAudio, Goes, micVars,
         MicTypes, MicTypeOK
  <2>. QED
    BY <1>0, <2>1, LoopIsLocal
<1>5. CASE UNCHANGED <<pc, turn, micVars>>
  <2> SUFFICES ASSUME NEW r \in Satellite PROVE Good(r)'
    BY <1>0
  <2>. QED
    BY <1>0, <1>5, LoopIsLocal DEF micVars
<1>. QED
  BY <1>0, <1>1, <1>2, <1>3, <1>4, <1>5 DEF MicStep

-----------------------------------------------------------------------------
(* The connections to the speech server. *)

LEMMA ChunksOfAudio ==
  ASSUME NEW seq \in Seq(Frame)
  PROVE  Chunks(seq) \in Nat /\ (seq # <<>> => Chunks(seq) > 0)
<1>1. ASSUME NEW n \in Nat PROVE (n + ChunkFrames - 1) \div ChunkFrames \in Nat
  BY ChunkAssumption, SMTT(30)
<1>2. ASSUME NEW n \in Nat, n > 0 PROVE (n + ChunkFrames - 1) \div ChunkFrames > 0
  BY <1>2, ChunkAssumption, SMTT(30)
<1>3. Len(seq) \in Nat /\ (seq # <<>> => Len(seq) > 0)
  OBVIOUS
<1>. QED
  BY <1>1, <1>2, <1>3 DEF Chunks

LEMMA CurrentIsTurn ==
  ASSUME MicTypes, NEW s \in Satellite, pc[s] \notin {"listen", "exited"}
  PROVE  Current(s) \in Turn /\ Current(s)[1] = s /\ turn[s] \in 1 .. MaxTurns
BY SatelliteAssumption DEF MicTypes, MicTypeOK, MicInv, Current, Turn

LEMMA ClosedConnection ==
  ASSUME NEW c \in Connection, NEW sent \in Reply
  PROVE  [c EXCEPT !.at = "closed", !.reply = sent] \in Connection
BY DEF Connection, Reply

LEMMA SessionNext ==
  ASSUME TypeOK, MicInv, ConnInv, TurnInv, [Next]_vars
  PROVE  SttTypeOK' /\ ConnInv'
<1> USE DEF SttTypeOK, Connection, Reply, ConnInv, Ended, Gone, Working, Idle
<1>0. MicTypes /\ SttTypeOK
  BY DEF TypeOK, MicTypes
<1>1. ASSUME NEW s \in Satellite, TurnStep(s) PROVE SttTypeOK' /\ ConnInv'
  <2>1. CASE OpenSession(s)
    <3>1. Current(s) \in Turn /\ conn[Current(s)] = Idle /\ Current(s)[1] = s
      <4>1. Current(s) \in Turn /\ Current(s)[1] = s /\ turn[s] \in 1 .. MaxTurns
        BY <1>0, <2>1, CurrentIsTurn DEF OpenSession
      <4>2. conn[Current(s)].at = "none"
        BY <2>1, <4>1 DEF OpenSession, TurnInv, TurnOK, Recording, Current
      <4>. QED
        BY <4>1, <4>2
    <3>2. Chunks(audio[s]) \in Nat /\ (s \in Pi => Chunks(audio[s]) > 0)
      BY <1>0, <2>1, ChunksOfAudio DEF OpenSession, MicTypes, MicTypeOK
    <3>3. SttTypeOK'
      BY <1>0, <2>1, <3>1, <3>2 DEF OpenSession, Connect
    <3>4. /\ conn'[Current(s)] = [Idle EXCEPT !.at = "waiting", !.need = Chunks(audio[s])]
          /\ \A j \in Turn \ {Current(s)} : conn'[j] = conn[j]
      BY <1>0, <2>1, <3>1 DEF OpenSession, Connect
    <3>5. ConnInv'
      <4>1. ASSUME NEW j \in Turn \ {Current(s)} PROVE conn'[j] = conn[j]
        BY <3>4
      <4>2. /\ conn'[Current(s)].at = "waiting" /\ conn'[Current(s)].got = 0
            /\ conn'[Current(s)].sent = 0 /\ conn'[Current(s)].client = "sending"
            /\ conn'[Current(s)].need = Chunks(audio[s])
            /\ conn'[Current(s)].reply = "none"
        BY <3>4
      <4>. QED
        BY <3>1, <3>2, <4>1, <4>2
    <3>. QED
      BY <3>3, <3>5
  <2>2. CASE Send(s)
    <3>1. Current(s) \in Turn /\ ~ Gone(Current(s))
      BY <1>0, <2>2, CurrentIsTurn DEF Send, TurnInv, TurnOK
    <3>2. CASE SendChunk(Current(s))
      BY <1>0, <3>1, <3>2 DEF SendChunk, Accepted
    <3>3. CASE SendEnd(Current(s))
      BY <1>0, <3>1, <3>3 DEF SendEnd, Accepted
    <3>. QED
      BY <2>2, <3>2, <3>3 DEF Send
  <2>3. CASE TakeReply(s) \/ SttGivesUp(s)
    <3>1. Current(s) \in Turn /\ conn[Current(s)].at # "none" /\ Leave(Current(s))
      BY <1>0, <2>3, CurrentIsTurn DEF TakeReply, SttGivesUp, TurnInv, TurnOK
    <3>. QED
      BY <1>0, <3>1 DEF Leave
  <2>5. CASE UNCHANGED conn
    BY <1>0, <2>5
  <2>. QED
    BY <1>1, <2>1, <2>2, <2>3, <2>5 DEF TurnStep, SkipTurn, TakeAnswer, RouteGivesUp, Spoke
<1>2. ASSUME NEW s \in Satellite, Quit(s) PROVE SttTypeOK' /\ ConnInv'
  <2>1. CASE pc[s] = "stt"
    <3>1. Current(s) \in Turn /\ conn[Current(s)].at # "none"
      BY <1>0, <2>1, CurrentIsTurn DEF TurnInv, TurnOK
    <3>. QED
      BY <1>0, <1>2, <2>1, <3>1 DEF Quit, Leave
  <2>2. CASE pc[s] # "stt"
    BY <1>0, <1>2, <2>2 DEF Quit
  <2>. QED
    BY <2>1, <2>2
<1>3. ASSUME NEW k \in Turn, ReceiveStep(k) PROVE SttTypeOK' /\ ConnInv'
  <2>1. CASE Accept(k)
    BY <1>0, <2>1 DEF Accept
  <2>2. CASE ReceiveChunk(k)
    BY <1>0, <2>2 DEF ReceiveChunk
  <2>3. CASE ReceiveEnd(k)
    BY <1>0, <2>3 DEF ReceiveEnd
  <2>4. CASE ReceiveDisconnect(k)
    BY <1>0, <2>4 DEF ReceiveDisconnect
  <2>. QED
    BY <1>3, <2>1, <2>2, <2>3, <2>4 DEF ReceiveStep
<1>4. ASSUME NEW k \in Turn, WorkStep(k) PROVE SttTypeOK' /\ ConnInv'
  <2>1. CASE ThreadDone(k)
    BY <1>0, <2>1 DEF ThreadDone
  <2>2. CASE TranscriptionFails(k)
    BY <1>0, <2>2 DEF TranscriptionFails, Sends
  <2>3. CASE Transcribed(k)
    <3>1. PICK reply \in {"text", "blank"} :
            Sends(k, reply) /\ (conn[k].got = 0 => reply = "blank")
      BY <2>3 DEF Transcribed
    <3>2. conn[k].at = "decode"
      BY <2>3 DEF Transcribed
    <3>3. PICK sent \in Reply : sent = IF Gone(k) THEN "none" ELSE reply
      OBVIOUS
    <3>4. conn' = [conn EXCEPT ![k].at = "closed", ![k].reply = sent]
      BY <3>1, <3>3 DEF Sends
    <3>5. SttTypeOK'
      <4> HIDE DEF Connection, Reply
      <4>1. conn \in [Turn -> Connection]
        BY <1>0
      <4>2. [conn[k] EXCEPT !.at = "closed", !.reply = sent] \in Connection
        BY <4>1, ClosedConnection
      <4>. QED
        BY ONLY <3>4, <4>1, <4>2
    <3>6. \A j \in Turn \ {k} : conn'[j] = conn[j]
      BY <1>0, <3>4
    <3>7. /\ conn'[k].at = "closed" /\ conn'[k].reply = sent
          /\ conn'[k].need = conn[k].need /\ conn'[k].sent = conn[k].sent
          /\ conn'[k].client = conn[k].client /\ conn'[k].got = conn[k].got
      BY <1>0, <3>4
    <3>8. sent = "none" => Gone(k)
      BY <3>3
    <3>9. sent = "text" => conn[k].got > 0
      <4>1. sent = "text" => reply = "text"
        BY <3>3
      <4>2. reply = "text" => conn[k].got # 0
        BY <3>1
      <4>. QED
        BY <1>0, <4>1, <4>2
    <3>. QED
      BY <1>0, <3>2, <3>5, <3>6, <3>7, <3>8, <3>9
  <2>. QED
    BY <1>4, <2>1, <2>2, <2>3 DEF WorkStep
<1>5. CASE UNCHANGED conn
  BY <1>0, <1>5
<1>. QED
  BY <1>1, <1>2, <1>3, <1>4, <1>5
     DEF Next, Listen, MicFails, SpeakFails, ServerReceives, ServerWorks, RouterStep, vars

-----------------------------------------------------------------------------
(* The requests to the router. *)

LEMMA SameBrain == [Next]_vars => brainUrl' = brainUrl
BY Zenon DEF Next, vars, TurnStep, SkipTurn, OpenSession, Send, TakeReply, SttGivesUp,
     TakeAnswer, RouteGivesUp, Spoke, Listen, MicFails, SpeakFails, Quit, ServerReceives,
     ServerWorks, RouterStep

\* A text the server has sent stays.
LEMMA TextStays ==
  ASSUME TypeOK, MicInv, ConnInv, TurnInv, [Next]_vars,
         NEW k \in Turn, conn[k].reply = "text"
  PROVE  conn'[k].reply = "text"
<1> USE DEF SttTypeOK, Connection
<1>0. MicTypes /\ conn \in [Turn -> Connection] /\ conn[k].at = "closed"
  BY DEF TypeOK, MicTypes, ConnInv
<1>1. ASSUME NEW s \in Satellite, OpenSession(s) PROVE conn'[k].reply = "text"
  <2>1. Current(s) \in Turn /\ turn[s] \in 1 .. MaxTurns
    BY <1>0, <1>1, CurrentIsTurn DEF OpenSession
  <2>2. conn[Current(s)].at = "none"
    BY <1>1, <2>1 DEF OpenSession, TurnInv, TurnOK, Recording, Current
  <2>. QED
    BY <1>0, <1>1, <2>1, <2>2 DEF OpenSession, Connect
<1>2. ASSUME NEW j \in Turn, SendChunk(j) \/ SendEnd(j) \/ Leave(j)
      PROVE  conn'[k].reply = "text"
  BY <1>0, <1>2 DEF SendChunk, SendEnd, Leave
<1>3. ASSUME NEW s \in Satellite, pc[s] = "stt" PROVE Current(s) \in Turn
  BY <1>0, <1>3, CurrentIsTurn
<1>4. ASSUME NEW j \in Turn, ReceiveStep(j) \/ WorkStep(j) PROVE conn'[k].reply = "text"
  <2>1. j # k
    BY <1>0, <1>4 DEF ReceiveStep, Accept, ReceiveChunk, ReceiveEnd, ReceiveDisconnect,
       WorkStep, ThreadDone, TranscriptionFails, Transcribed, Working
  <2>2. conn'[k] = conn[k]
    BY <1>0, <1>4, <2>1 DEF ReceiveStep, Accept, ReceiveChunk, ReceiveEnd, ReceiveDisconnect,
       WorkStep, ThreadDone, TranscriptionFails, Transcribed, Sends
  <2>. QED
    BY <2>2
<1>5. CASE UNCHANGED conn
  BY <1>5
<1>. QED
  BY <1>1, <1>2, <1>3, <1>4, <1>5
     DEF Next, vars, TurnStep, SkipTurn, Send, TakeReply, SttGivesUp, TakeAnswer,
         RouteGivesUp, Spoke, Listen, MicFails, SpeakFails, Quit, ServerReceives,
         ServerWorks, RouterStep

\* One step of a request.
LEMMA RouteStepKeeps ==
  ASSUME request \in [Turn -> Request], NEW k \in Turn, RouteStep(k)
  PROVE  /\ request' \in [Turn -> Request]
         /\ request[k].at \notin {"none", "answered"} /\ request'[k].at # "none"
         /\ \A j \in Turn \ {k} : request'[j] = request[j]
<1> USE DEF Request
<1>1. ASSUME NEW speech \in {"words", "blank"}, Answer(k, speech)
      PROVE  /\ request' \in [Turn -> Request] /\ request'[k].at # "none"
             /\ \A j \in Turn \ {k} : request'[j] = request[j]
  BY <1>1 DEF Answer
<1>2. ASSUME NEW executor \in {"device", "timer", "llm", "search", "synth"},
             request' = [request EXCEPT ![k].at = executor]
      PROVE  /\ request' \in [Turn -> Request] /\ request'[k].at # "none"
             /\ \A j \in Turn \ {k} : request'[j] = request[j]
  BY <1>2
<1>3. CASE Route(k)
  <2>1. request[k].at = "posted"
    BY <1>3 DEF Route
  <2>2. CASE request' = [request EXCEPT ![k].at = IF brainUrl THEN "search" ELSE "llm"]
    <3>1. PICK executor \in {"llm", "search"} : executor = IF brainUrl THEN "search" ELSE "llm"
      OBVIOUS
    <3>. QED
      BY <1>2, <2>1, <2>2, <3>1
  <2>. QED
    BY <1>1, <1>2, <1>3, <2>1, <2>2 DEF Route
<1>4. CASE RouteFails(k) \/ DeviceAnswers(k) \/ TimerHandled(k) \/ SearchEnds(k)
  BY <1>1, <1>4 DEF RouteFails, DeviceAnswers, TimerHandled, SearchEnds
<1>5. CASE SearchFinds(k)
  BY <1>2, <1>5 DEF SearchFinds
<1>6. CASE ModelAnswers(k)
  BY <1>1, <1>6 DEF ModelAnswers
<1>. QED
  BY <1>3, <1>4, <1>5, <1>6 DEF RouteStep

LEMMA RequestNext ==
  ASSUME TypeOK, MicInv, ConnInv, TurnInv, RequestInv, [Next]_vars
  PROVE  request' \in [Turn -> Request] /\ RequestInv'
<1>0. MicTypes /\ request \in [Turn -> Request] /\ conn \in [Turn -> Connection]
  BY DEF TypeOK, MicTypes, DispatchTypeOK, SttTypeOK
<1>1. ASSUME request' \in [Turn -> Request],
             \A k \in Turn :
               \/ request'[k] = request[k]
               \/ request'[k].at # "none" /\ conn[k].reply = "text"
      PROVE  RequestInv'
  BY <1>1, TextStays DEF RequestInv
<1>2. ASSUME NEW s \in Satellite, TakeReply(s)
      PROVE  request' \in [Turn -> Request] /\ RequestInv'
  <2>1. Current(s) \in Turn
    BY <1>0, <1>2, CurrentIsTurn DEF TakeReply
  <2>2. CASE Post(Current(s)) /\ conn[Current(s)].reply = "text"
    <3>1. request' \in [Turn -> Request]
      BY <1>0, <2>1, <2>2 DEF Post, Request
    <3>2. \A k \in Turn : k = Current(s) \/ request'[k] = request[k]
      BY <1>0, <2>1, <2>2 DEF Post
    <3>3. request'[Current(s)].at = "posted"
      BY <1>0, <2>1, <2>2 DEF Post, Request
    <3>. QED
      BY <1>1, <2>2, <3>1, <3>2, <3>3
  <2>3. CASE UNCHANGED request
    BY <1>0, <1>1, <2>3
  <2>. QED
    BY <1>2, <2>2, <2>3 DEF TakeReply
<1>3. ASSUME NEW k \in Turn, RouteStep(k)
      PROVE  request' \in [Turn -> Request] /\ RequestInv'
  BY <1>0, <1>1, <1>3, RouteStepKeeps DEF RequestInv
<1>4. CASE UNCHANGED request
  BY <1>0, <1>1, <1>4
<1>. QED
  BY <1>2, <1>3, <1>4
     DEF Next, vars, TurnStep, SkipTurn, OpenSession, Send, SttGivesUp, TakeAnswer,
         RouteGivesUp, Spoke, Listen, MicFails, SpeakFails, Quit, ServerReceives,
         ServerWorks, RouterStep

-----------------------------------------------------------------------------
(* Where a satellite stands, and what has become of its turns. *)

LEMMA TurnIsLocal ==
  ASSUME MicTypes, NEW s \in Satellite, TurnOK(s), pc'[s] = pc[s], turn'[s] = turn[s],
         \A n \in 1 .. MaxTurns :
           conn'[<<s, n>>] = conn[<<s, n>>] /\ request'[<<s, n>>] = request[<<s, n>>]
  PROVE  TurnOK(s)'
<1>1. CASE pc[s] \notin {"stt", "speak"}
  BY <1>1 DEF TurnOK, Recording
<1>2. CASE pc[s] \in {"stt", "speak"}
  <2>1. turn[s] \in 1 .. MaxTurns
    BY <1>2, CurrentIsTurn
  <2>2. conn'[Current(s)] = conn[Current(s)] /\ request'[Current(s)] = request[Current(s)]
    BY <2>1 DEF Current
  <2>3. Current(s)' = Current(s)
    BY DEF Current
  <2>. QED
    BY <1>2, <2>2, <2>3 DEF TurnOK, Recording, Gone
<1>. QED
  BY <1>1, <1>2

\* The turns of a satellite that are still to come are not its current one.
LEMMA TurnsToCome ==
  ASSUME MicTypes, NEW s \in Satellite, TurnOK(s), pc[s] \notin {"listen", "exited"},
         turn'[s] = turn[s], pc'[s] \notin {"record", "recorded"},
         \A k \in Turn \ {Current(s)} : conn'[k] = conn[k] /\ request'[k] = request[k],
         pc'[s] = "stt" => /\ conn'[Current(s)].at # "none" /\ ~ Gone(Current(s))'
                           /\ request'[Current(s)].at = "none",
         pc'[s] = "speak" => request'[Current(s)].at = "answered"
  PROVE  TurnOK(s)'
<1>1. Current(s)' = Current(s)
  BY DEF Current
<1>2. ASSUME NEW n \in 1 .. MaxTurns, n > turn[s]
      PROVE  conn'[<<s, n>>].at = "none" /\ request'[<<s, n>>].at = "none"
  <2>1. <<s, n>> \in Turn
    BY DEF Turn
  <2>2. turn[s] \in Nat
    BY SatelliteAssumption DEF MicTypes, MicTypeOK
  <2>3. <<s, n>> # Current(s)
    BY <1>2, <2>2 DEF Current
  <2>. QED
    BY <1>2, <2>1, <2>3 DEF TurnOK
<1>. QED
  BY <1>1, <1>2 DEF TurnOK, Recording

LEMMA TurnNext ==
  ASSUME TypeOK, MicInv, ConnInv, TurnInv, RequestInv, [Next]_vars
  PROVE  TurnInv'
<1>0. /\ MicTypes /\ SttTypeOK /\ request \in [Turn -> Request]
      /\ \A s \in Satellite : TurnOK(s)
  BY DEF TypeOK, MicTypes, DispatchTypeOK, TurnInv
<1>1. ASSUME NEW s \in Satellite,
             TurnStep(s) \/ Listen(s) \/ MicFails(s) \/ SpeakFails(s) \/ Quit(s),
             NEW r \in Satellite \ {s}
      PROVE  TurnOK(r)'
  <2>1. pc'[r] = pc[r] /\ turn'[r] = turn[r]
    BY <1>0, <1>1 DEF TurnStep, RecordStep, Onset, StillSilent, Speech, Pause, LengthLimit,
         SkipTurn, OpenSession, Send, TakeReply, SttGivesUp, TakeAnswer, RouteGivesUp,
         Spoke, Listen, WakeFrame, Enter, MicFails, SpeakFails, Quit, Fails, Goes, MicTypes,
         MicTypeOK
  <2>2. ASSUME NEW n \in 1 .. MaxTurns
        PROVE  conn'[<<r, n>>] = conn[<<r, n>>] /\ request'[<<r, n>>] = request[<<r, n>>]
    <3>1. <<r, n>> \in Turn /\ <<r, n>> # Current(s)
      BY DEF Turn, Current
    <3>2. \A k \in Turn : k # Current(s) => conn'[k] = conn[k] /\ request'[k] = request[k]
      BY <1>0, <1>1 DEF TurnStep, SkipTurn, OpenSession, Send, TakeReply, SttGivesUp,
           TakeAnswer, RouteGivesUp, Spoke, Listen, MicFails, SpeakFails, Quit, Connect, SendChunk, SendEnd,
           Leave, Post, SttTypeOK
    <3>. QED
      BY <3>1, <3>2
  <2>. QED
    BY <1>0, <2>1, <2>2, TurnIsLocal
<1>2. ASSUME NEW s \in Satellite, TurnStep(s) PROVE TurnOK(s)'
  <2>1. CASE RecordStep(s) /\ UNCHANGED <<conn, request, brainUrl, quit>>
    <3>1. /\ pc[s] = "record" /\ pc'[s] \in {"record", "recorded"} /\ turn'[s] = turn[s]
      BY <1>0, <2>1 DEF RecordStep, Onset, StillSilent, Speech, Pause, LengthLimit, InLoop,
           Goes, MicTypes
    <3>. QED
      BY <1>0, <2>1, <3>1 DEF TurnOK, Recording
  <2>2. CASE SkipTurn(s)
    BY <1>0, <2>2, TurnsToCome DEF SkipTurn, Goes, MicTypes
  <2>3. CASE OpenSession(s)
    <3>1. Current(s) \in Turn /\ turn[s] \in 1 .. MaxTurns /\ Current(s)' = Current(s)
      BY <1>0, <2>3, CurrentIsTurn DEF OpenSession, Current
    <3>2. conn[Current(s)].at = "none" /\ request[Current(s)].at = "none"
      BY <1>0, <2>3, <3>1 DEF OpenSession, TurnOK, Recording, Current
    <3>3. conn[Current(s)].client = "sending"
      BY <3>1, <3>2 DEF ConnInv, Idle
    <3>4. /\ conn'[Current(s)].at = "waiting" /\ conn'[Current(s)].client = "sending"
          /\ \A k \in Turn \ {Current(s)} : conn'[k] = conn[k]
      BY <1>0, <2>3, <3>1, <3>3 DEF OpenSession, Connect, SttTypeOK, Connection
    <3>5. pc'[s] = "stt" /\ turn'[s] = turn[s] /\ request' = request
      BY <1>0, <2>3 DEF OpenSession, Goes, MicTypes
    <3>6. ~ Gone(Current(s))'
      BY <3>1, <3>4 DEF Gone
    <3>. QED
      BY <1>0, <2>3, <3>2, <3>4, <3>5, <3>6, TurnsToCome DEF OpenSession
  <2>4. CASE Send(s)
    <3>1. Current(s) \in Turn /\ Current(s)' = Current(s)
      BY <1>0, <2>4, CurrentIsTurn DEF Send, Current
    <3>2. /\ conn[Current(s)].at # "none" /\ ~ Gone(Current(s))
          /\ request[Current(s)].at = "none"
      BY <1>0, <2>4 DEF Send, TurnOK
    <3>3. /\ conn'[Current(s)].at = conn[Current(s)].at
          /\ conn'[Current(s)].client \in {conn[Current(s)].client, "ended"}
          /\ \A k \in Turn \ {Current(s)} : conn'[k] = conn[k]
      BY <1>0, <2>4, <3>1 DEF Send, SendChunk, SendEnd, SttTypeOK, Connection
    <3>4. ~ Gone(Current(s))'
      BY <3>1, <3>2, <3>3 DEF Gone
    <3>. QED
      BY <1>0, <2>4, <3>2, <3>3, <3>4, TurnsToCome DEF Send
  <2>5. CASE TakeReply(s)
    <3>1. /\ \A k \in Turn \ {Current(s)} : conn'[k] = conn[k] /\ request'[k] = request[k]
          /\ pc'[s] \in {"route", "listen", "exited"}
      BY <1>0, <2>5 DEF TakeReply, Leave, Post, Fails, Goes, SttTypeOK, MicTypes
    <3>. QED
      BY <1>0, <2>5, <3>1, TurnsToCome DEF TakeReply
  <2>6. CASE SttGivesUp(s)
    <3>1. /\ \A k \in Turn \ {Current(s)} : conn'[k] = conn[k]
          /\ pc'[s] \in {"listen", "exited"}
      BY <1>0, <2>6 DEF SttGivesUp, Leave, Fails, Goes, SttTypeOK, MicTypes
    <3>. QED
      BY <1>0, <2>6, <3>1, TurnsToCome DEF SttGivesUp
  <2>7. CASE TakeAnswer(s)
    <3>1. pc'[s] \in {"listen", "speak"}
      BY <1>0, <2>7 DEF TakeAnswer, Goes, MicTypes
    <3>. QED
      BY <1>0, <2>7, <3>1, TurnsToCome DEF TakeAnswer
  <2>8. CASE RouteGivesUp(s)
    <3>1. pc'[s] \in {"listen", "exited"}
      BY <1>0, <2>8 DEF RouteGivesUp, Fails, Goes, MicTypes
    <3>. QED
      BY <1>0, <2>8, <3>1, TurnsToCome DEF RouteGivesUp
  <2>9. CASE Spoke(s)
    <3>1. pc'[s] = "listen"
      BY <1>0, <2>9 DEF Spoke, Goes, MicTypes
    <3>. QED
      BY <1>0, <2>9, <3>1, TurnsToCome DEF Spoke
  <2>. QED
    BY <1>2, <2>1, <2>2, <2>3, <2>4, <2>5, <2>6, <2>7, <2>8, <2>9 DEF TurnStep
<1>3. ASSUME NEW s \in Satellite, Listen(s) PROVE TurnOK(s)'
  <2>1. /\ pc[s] = "listen" /\ conn' = conn /\ request' = request /\ turn[s] \in Nat
        /\ \/ pc'[s] = "listen" /\ turn'[s] = turn[s]
           \/ pc'[s] = "record" /\ turn'[s] = turn[s] + 1
    BY <1>0, <1>3, SatelliteAssumption DEF Listen, WakeFrame, Enter, Goes, MicTypes, MicTypeOK
  <2>. QED
    BY <1>0, <2>1 DEF TurnOK, Recording
<1>4. ASSUME NEW s \in Satellite, Quit(s) PROVE TurnOK(s)'
  <2>1. /\ pc'[s] = "exited" /\ turn'[s] = turn[s] /\ request' = request
        /\ turn[s] \in Nat
    BY <1>0, <1>4, SatelliteAssumption DEF Quit, Goes, MicTypes, MicTypeOK
  <2>2. ASSUME NEW n \in 1 .. MaxTurns, n > turn[s] PROVE conn'[<<s, n>>] = conn[<<s, n>>]
    <3>1. <<s, n>> \in Turn /\ <<s, n>> # Current(s)
      BY <2>1, <2>2 DEF Turn, Current
    <3>. QED
      BY <1>0, <1>4, <3>1 DEF Quit, Leave, SttTypeOK
  <2>. QED
    BY <1>0, <2>1, <2>2 DEF TurnOK, Recording
<1>8. ASSUME NEW s \in Satellite, MicFails(s) \/ SpeakFails(s) PROVE TurnOK(s)'
  <2>1. /\ pc'[s] \in {"listen", "exited"} /\ turn'[s] = turn[s]
        /\ conn' = conn /\ request' = request
    BY <1>0, <1>8 DEF MicFails, SpeakFails, Fails, Goes, MicTypes
  <2>. QED
    BY <1>0, <2>1 DEF TurnOK, Recording
<1>5. ASSUME NEW k \in Turn, ServerReceives(k) \/ ServerWorks(k), NEW s \in Satellite
      PROVE  TurnOK(s)'
  <2>1. /\ conn[k].at # "none" /\ conn'[k].at # "none"
        /\ conn'[k].client = conn[k].client
        /\ \A j \in Turn \ {k} : conn'[j] = conn[j]
        /\ UNCHANGED <<pc, turn, request>>
    BY <1>0, <1>5 DEF ServerReceives, ReceiveStep, Accept, ReceiveChunk, ReceiveEnd,
         ReceiveDisconnect, ServerWorks, WorkStep, ThreadDone, TranscriptionFails,
         Transcribed, Sends, Working, SttTypeOK, Connection
  <2>2. ASSUME NEW n \in 1 .. MaxTurns
        PROVE  /\ <<s, n>> \in Turn
               /\ conn[<<s, n>>].at = "none" => conn'[<<s, n>>].at = "none"
               /\ conn[<<s, n>>].at # "none" => conn'[<<s, n>>].at # "none"
               /\ conn'[<<s, n>>].client = conn[<<s, n>>].client
    <3>1. <<s, n>> \in Turn
      BY DEF Turn
    <3>. QED
      BY <2>1, <3>1
  <2>3. CASE pc[s] = "stt"
    <3>1. turn[s] \in 1 .. MaxTurns
      BY <1>0, <2>3, CurrentIsTurn
    <3>2. /\ conn'[Current(s)].at # "none"
          /\ conn'[Current(s)].client = conn[Current(s)].client
          /\ Current(s)' = Current(s)
      BY <1>0, <2>1, <2>2, <2>3, <3>1 DEF Current, TurnOK
    <3>. QED
      BY <1>0, <2>1, <2>2, <2>3, <3>2 DEF TurnOK, Recording, Gone
  <2>4. CASE pc[s] # "stt"
    <3>1. Current(s)' = Current(s)
      BY <2>1 DEF Current
    <3>. QED
      BY <1>0, <2>1, <2>2, <2>4, <3>1 DEF TurnOK, Recording
  <2>. QED
    BY <2>3, <2>4
<1>6. ASSUME NEW k \in Turn, RouterStep(k), NEW s \in Satellite PROVE TurnOK(s)'
  <2>1. /\ request[k].at \notin {"none", "answered"}
        /\ \A j \in Turn \ {k} : request'[j] = request[j]
        /\ UNCHANGED <<pc, turn, conn>>
    BY <1>0, <1>6, RouteStepKeeps DEF RouterStep
  <2>2. \A j \in Turn : request[j].at \in {"none", "answered"} => request'[j] = request[j]
    BY <2>1
  <2>3. /\ Current(s)' = Current(s) /\ Gone(Current(s))' = Gone(Current(s))
        /\ pc[s] \in {"stt", "speak"} => Current(s) \in Turn
    BY <1>0, <2>1, CurrentIsTurn DEF Current, Gone
  <2>4. \A n \in 1 .. MaxTurns : <<s, n>> \in Turn
    BY DEF Turn
  <2>. QED
    BY <1>0, <2>1, <2>2, <2>3, <2>4 DEF TurnOK, Recording
<1>7. ASSUME UNCHANGED vars, NEW s \in Satellite PROVE TurnOK(s)'
  BY <1>0, <1>7, TurnIsLocal DEF vars
<1>. QED
  BY <1>1, <1>2, <1>3, <1>4, <1>5, <1>6, <1>7, <1>8 DEF Next, TurnInv

-----------------------------------------------------------------------------
(* The invariant, and the theorems. *)

LEMMA IndInit == Init => IndInv
<1> SUFFICES ASSUME Init PROVE IndInv
  OBVIOUS
<1> USE SatelliteAssumption, FramesAssumption DEF Init, MicInit, SttInit, DispatchInit
<1>1. TypeOK
  <2>1. MicTypeOK /\ pc \in [Satellite -> Where]
    BY DEF MicTypeOK, Where
  <2>2. SttTypeOK
    BY DEF SttTypeOK, Connection, Idle, Reply
  <2>3. DispatchTypeOK
    <3>1. NoRequest \in Request
      BY DEF NoRequest, Request
    <3>2. request \in [Turn -> Request]
      BY <3>1
    <3>. QED
      BY <3>2, Zenon DEF DispatchTypeOK
  <2>. QED
    BY <2>1, <2>2, <2>3 DEF TypeOK
<1>2. MicInv /\ RecentInv /\ LoopInv /\ RecordsTheUtterance
  BY DEF MicInv, RecentInv, LoopInv, RecordsTheUtterance, Recording
<1>3. ConnInv
  BY DEF ConnInv, Idle, Ended, Gone, Working
<1>4. TurnInv
  <2> SUFFICES ASSUME NEW s \in Satellite PROVE TurnOK(s)
    BY DEF TurnInv
  <2>1. \A n \in 1 .. MaxTurns : <<s, n>> \in Turn
    BY DEF Turn
  <2>. QED
    BY <2>1 DEF TurnOK, Idle, NoRequest
<1>5. RequestInv
  BY DEF RequestInv, NoRequest
<1>. QED
  BY <1>1, <1>2, <1>3, <1>4, <1>5 DEF IndInv

LEMMA IndNext == IndInv /\ [Next]_vars => IndInv'
<1> SUFFICES ASSUME IndInv, [Next]_vars PROVE IndInv'
  OBVIOUS
<1> USE DEF IndInv
<1>1. MicTypes /\ MicStep
  <2>1. MicTypes
    BY DEF TypeOK, MicTypes
  <2>. QED
    BY <2>1, StepIsMicStep DEF MicTypes
<1>2. MicTypes'
  BY <1>1, MicTypesNext
<1>3. RecentInv'
  BY <1>1, RecentNext
<1>4. LoopInv' /\ RecordsTheUtterance'
  BY <1>1, UtteranceNext
<1>5. SttTypeOK' /\ ConnInv'
  BY SessionNext
<1>6. request' \in [Turn -> Request] /\ RequestInv'
  BY RequestNext
<1>7. TurnInv'
  BY TurnNext
<1>8. DispatchTypeOK'
  BY <1>6, SameBrain, Zenon DEF TypeOK, DispatchTypeOK
<1>9. quit' \subseteq Satellite
  BY DEF TypeOK, Next, vars, TurnStep, SkipTurn, OpenSession, Send, TakeReply, SttGivesUp,
     TakeAnswer, RouteGivesUp, Spoke, Listen, MicFails, SpeakFails, Quit, ServerReceives,
     ServerWorks, RouterStep
<1>10. TypeOK'
  BY <1>2, <1>5, <1>8, <1>9 DEF TypeOK, MicTypes
<1>. QED
  BY <1>2, <1>3, <1>4, <1>5, <1>6, <1>7, <1>10 DEF MicTypes

THEOREM Inductive == Spec => []IndInv
BY IndInit, IndNext, PTL DEF Spec

\* Every reachable state has the types the modules declare; a run of silence
\* is never longer than the one that ends the recording.
THEOREM TypeCorrect == Spec => []TypeOK
<1>1. IndInv => TypeOK
  BY DEF IndInv
<1>. QED
  BY <1>1, Inductive, PTL

\* record_utterance returns what its docstring says, whatever the onset
\* window, the quiet run, the length limit and the pre-roll are
\* (pipeline.py:34-94).
THEOREM TheUtteranceIsRecorded == Spec => []RecordsTheUtterance
<1>1. IndInv => RecordsTheUtterance
  BY DEF IndInv
<1>. QED
  BY <1>1, Inductive, PTL

\* The pre-roll of one turn never gets into the recording of another
\* (satellite.py:149).
THEOREM AudioIsFresh == Spec => []NoStaleAudio
<1>1. IndInv => NoStaleAudio
  BY DEF IndInv, RecentInv, NoStaleAudio
<1>. QED
  BY <1>1, Inductive, PTL

\* Whatever clients leave, in whatever order: only complete recordings are
\* transcribed (stt_server.py:46-57).
THEOREM OnlyWholeUtterances == Spec => []TranscribesWholeUtterances
<1>1. IndInv => TranscribesWholeUtterances
  <2> SUFFICES ASSUME IndInv, NEW k \in Turn, Working(k)
               PROVE  /\ Ended(k) /\ conn[k].got = conn[k].need
                      /\ k[1] \in Pi => conn[k].need > 0
    BY DEF TranscribesWholeUtterances
  <2>1. conn[k].at # "none"
    BY DEF Working
  <2>. QED
    BY <2>1 DEF IndInv, ConnInv
<1>. QED
  BY <1>1, Inductive, PTL

\* The server never closes a connection on a client that still waits without
\* having sent it something (stt_server.py:63-71).
THEOREM TheServerReplies == Spec => []NeverClosesSilently
<1>1. IndInv => NeverClosesSilently
  BY DEF IndInv, ConnInv, NeverClosesSilently
<1>. QED
  BY <1>1, Inductive, PTL

\* Only the whole recording of a turn in which somebody spoke is acted on,
\* whatever the chunk, and whatever other sessions and given-up turns are under
\* way (fake_satellite.py:184-188, satellite.py:150-160, stt_server.py:46-71).
THEOREM OnlySpeechIsRouted == Spec => []RoutesWhatWasSaid
<1>1. IndInv => RoutesWhatWasSaid
  <2> SUFFICES ASSUME IndInv, NEW k \in Turn, request[k].at # "none"
               PROVE  conn[k].need > 0 /\ conn[k].got = conn[k].need
    BY DEF RoutesWhatWasSaid
  <2>1. conn[k].reply = "text"
    BY DEF IndInv, RequestInv
  <2>2. conn[k].got > 0 /\ conn[k].got = conn[k].need
    BY <2>1 DEF IndInv, ConnInv
  <2>. QED
    BY <2>2
<1>. QED
  BY <1>1, Inductive, PTL

=============================================================================
