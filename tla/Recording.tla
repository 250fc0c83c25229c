------------------------------ MODULE Recording ------------------------------
(***************************************************************************)
(* How a satellite comes by the audio of a turn: the wake-word loop of     *)
(* src/satellite/satellite.py with its pre-roll, the Enter key of          *)
(* src/satellite/fake_satellite.py, and record_utterance of                *)
(* src/satellite/pipeline.py, which both share.                            *)
(*                                                                         *)
(*   "listen"    waits for the wake word, or for Enter                     *)
(*   "record"    in record_utterance, about to read a frame                *)
(*   "recorded"  record_utterance has returned                             *)
(*   (the rest of the turn is in VoiceTurn)                                *)
(*                                                                         *)
(* A frame is <<n, i>>: the i-th that the recording of turn n reads, or a  *)
(* frame of the wake-word loop before turn n if i = 0.  Of its samples     *)
(* only one bit is kept: whether its rms reaches silence_rms.              *)
(***************************************************************************)
EXTENDS Naturals, Sequences, FiniteSets

CONSTANTS
  Satellite,      \* the satellites of the house
  Pi,             \* those that run satellite.py; the others run fake_satellite.py
  MaxTurns,       \* bound: turns of one satellite
  MaxBegun,       \* bound: turns of all of them
  OnsetFrames,    \* onset_frames: 37 in the code
  QuietNeeded,    \* quiet_needed: 10
  MaxFrames,      \* max_frames: 150
  PrerollFrames   \* preroll_frames: 3

ASSUME SatelliteAssumption ==
         Pi \subseteq Satellite /\ MaxTurns \in Nat /\ MaxBegun \in Nat
ASSUME FramesAssumption ==
         /\ OnsetFrames \in Nat /\ QuietNeeded \in Nat \ {0}
         /\ MaxFrames \in Nat /\ OnsetFrames < MaxFrames
         /\ PrerollFrames \in Nat \ {0}

Turn == Satellite \X (1 .. MaxTurns)

Sound == {"loud", "quiet"}    \* rms >= silence_rms, or less

Frame == (1 .. MaxTurns + 1) \X (0 .. MaxFrames)

VARIABLES
  pc,      \* where the satellite's loop stands
  turn,    \* number of recordings it has begun
  recent,  \* the deque of the last frames of the wake-word loop
  heard,   \* the frames this recording has read: loud or not
  quiet,   \* quiet_frames
  audio    \* frames, what record_utterance will return

micVars == <<recent, heard, quiet, audio>>

MicTypeOK ==
  /\ turn \in [Satellite -> 0 .. MaxTurns]
  /\ recent \in [Satellite -> Seq(Frame)]
  /\ heard \in [Satellite -> Seq(Sound)]
  /\ quiet \in [Satellite -> 0 .. QuietNeeded]
  /\ audio \in [Satellite -> Seq(Frame)]

MicInit ==
  /\ pc = [s \in Satellite |-> "listen"]
  /\ turn = [s \in Satellite |-> 0]
  /\ recent = [s \in Satellite |-> <<>>]
  /\ heard = [s \in Satellite |-> <<>>]
  /\ quiet = [s \in Satellite |-> 0]
  /\ audio = [s \in Satellite |-> <<>>]

\* The bounds leave the satellite another turn.
TurnsLeft(s) ==
  turn[s] < MaxTurns /\ Cardinality({k \in Turn : k[2] =< turn[k[1]]}) < MaxBegun

Goes(s, where) == pc' = [pc EXCEPT ![s] = where]

-----------------------------------------------------------------------------
(* The wake-word loop and the Enter key. *)

\* deque(maxlen = preroll_frames).append
Push(seq, frame) ==
  IF Len(seq) < PrerollFrames THEN Append(seq, frame) ELSE Append(Tail(seq), frame)

\* The Pi reads a frame; from the scores of the wake-word model it takes it
\* for the end of "hey Jarvis", or not.
WakeFrame(s) ==
  /\ s \in Pi
  /\ pc[s] = "listen"
  /\ TurnsLeft(s)
  /\ recent' = [recent EXCEPT ![s] = Push(@, <<turn[s] + 1, 0>>)]
  /\ \/ UNCHANGED <<pc, turn>>
     \/ Goes(s, "record") /\ turn' = [turn EXCEPT ![s] = @ + 1]
  /\ UNCHANGED <<heard, quiet, audio>>

\* Enter, while no announcement is active (module Announcements has the other
\* case), opens the microphone.
Enter(s) ==
  /\ s \in Satellite \ Pi
  /\ pc[s] = "listen"
  /\ TurnsLeft(s)
  /\ Goes(s, "record")
  /\ turn' = [turn EXCEPT ![s] = @ + 1]
  /\ UNCHANGED micVars

-----------------------------------------------------------------------------
(* record_utterance: one pass of its loop per action. *)

InLoop(s) == pc[s] = "record" /\ Len(heard[s]) < MaxFrames

Started(s) == audio[s] # <<>>

Read(s, sound) == heard' = [heard EXCEPT ![s] = Append(@, sound)]

LiveFrame(s) == <<turn[s], Len(heard[s]) + 1>>

\* The first loud live frame; the pre-roll goes before it.
Onset(s) ==
  /\ InLoop(s)
  /\ ~ Started(s)
  /\ Read(s, "loud")
  /\ audio' = [audio EXCEPT ![s] = Append(recent[s], LiveFrame(s))]
  /\ UNCHANGED <<pc, turn, recent, quiet>>

\* No speech yet: the frame is not kept, and after the onset window (the
\* loop's index is the number of frames read before) the turn is given up.
StillSilent(s) ==
  /\ InLoop(s)
  /\ ~ Started(s)
  /\ Read(s, "quiet")
  /\ IF Len(heard[s]) >= OnsetFrames THEN Goes(s, "recorded") ELSE UNCHANGED pc
  /\ UNCHANGED <<turn, recent, quiet, audio>>

\* Mutant: a loud frame does not end the quiet run.
SpeechNoReset(s) ==
  /\ InLoop(s)
  /\ Started(s)
  /\ Read(s, "loud")
  /\ audio' = [audio EXCEPT ![s] = Append(@, LiveFrame(s))]
  /\ UNCHANGED <<pc, turn, recent, quiet>>

Speech(s) ==
  /\ InLoop(s)
  /\ Started(s)
  /\ Read(s, "loud")
  /\ audio' = [audio EXCEPT ![s] = Append(@, LiveFrame(s))]
  /\ quiet' = [quiet EXCEPT ![s] = 0]
  /\ UNCHANGED <<pc, turn, recent>>

\* Mutant: the recording does not end in silence.
PauseGoesOn(s) ==
  /\ InLoop(s)
  /\ Started(s)
  /\ Read(s, "quiet")
  /\ audio' = [audio EXCEPT ![s] = Append(@, LiveFrame(s))]
  /\ quiet' = [quiet EXCEPT ![s] = @ + 1]
  /\ UNCHANGED <<pc, turn, recent>>

\* A quiet frame is kept too; enough of them in a row end the recording.
Pause(s) ==
  /\ InLoop(s)
  /\ Started(s)
  /\ Read(s, "quiet")
  /\ audio' = [audio EXCEPT ![s] = Append(@, LiveFrame(s))]
  /\ quiet' = [quiet EXCEPT ![s] = @ + 1]
  /\ IF quiet[s] + 1 >= QuietNeeded THEN Goes(s, "recorded") ELSE UNCHANGED pc
  /\ UNCHANGED <<turn, recent>>

\* range(max_frames) is exhausted.
LengthLimit(s) ==
  /\ pc[s] = "record"
  /\ Len(heard[s]) = MaxFrames
  /\ Goes(s, "recorded")
  /\ UNCHANGED <<turn, micVars>>

RecordStep(s) ==
  Onset(s) \/ StillSilent(s) \/ Speech(s) \/ Pause(s) \/ LengthLimit(s)

\* Mutant: the pre-roll of one turn stays in the deque for the next.
DropAudioKeepRecent(s) ==
  /\ heard' = [heard EXCEPT ![s] = <<>>]
  /\ quiet' = [quiet EXCEPT ![s] = 0]
  /\ audio' = [audio EXCEPT ![s] = <<>>]
  /\ UNCHANGED recent

\* The recording's local state is gone; so is the pre-roll (recent.clear()).
DropAudio(s) ==
  /\ heard' = [heard EXCEPT ![s] = <<>>]
  /\ quiet' = [quiet EXCEPT ![s] = 0]
  /\ audio' = [audio EXCEPT ![s] = <<>>]
  /\ recent' = [recent EXCEPT ![s] = <<>>]

=============================================================================
