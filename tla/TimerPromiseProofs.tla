-------------------------- MODULE TimerPromiseProofs --------------------------
(***************************************************************************)
(* What follows from TimerPromise, whoever keeps it.                       *)
(***************************************************************************)
EXTENDS TimerPromise, TLAPS

PromiseInv == BookTypeOK /\ OverIsSettled /\ FinalIsTaken

\* A write leaves what is over settled and what is final cancelled.
LEMMA MovesKeep ==
  ASSUME PromiseInv, book' \in [Timer -> Entry], \A t \in Timer : Moves(t),
         settled \subseteq settled', settled' \subseteq Timer \X Instant, final' = final
  PROVE  PromiseInv'
<1>1. BookTypeOK'
  BY DEF PromiseInv, BookTypeOK
<1>2. OverIsSettled'
  BY DEF OverIsSettled, Moves
<1>3. FinalIsTaken'
  BY DEF PromiseInv, BookTypeOK, FinalIsTaken, Moves
<1>. QED
  BY <1>1, <1>2, <1>3 DEF PromiseInv

\* ... and so does giving up one timer, which moves no other.
LEMMA GiveUpMoves ==
  ASSUME PromiseInv, NEW t \in Timer, GiveUp(t)
  PROVE  \A u \in Timer : Moves(u)
<1>1. ASSUME NEW u \in Timer, u # t
      PROVE  Moves(u)
  <2>1. book'[u] = book[u]
    BY <1>1 DEF GiveUp
  <2>2. book[u] \in Entry /\ settled \subseteq settled'
    BY DEF PromiseInv, BookTypeOK, GiveUp
  <2>. QED
    BY <2>1, <2>2 DEF Moves, PromiseInv, OverIsSettled, FinalIsTaken, Entry
<1>. QED
  BY <1>1 DEF GiveUp

LEMMA PromiseNext == PromiseInv /\ [Next]_promiseVars => PromiseInv'
<1> SUFFICES ASSUME PromiseInv, [Next]_promiseVars PROVE PromiseInv'
  OBVIOUS
<1>0. \A t \in Timer : <<t, book[t].at>> \in Timer \X Instant
  BY DEF PromiseInv, BookTypeOK, Entry
<1>1. CASE Write
  BY <1>1, MovesKeep DEF Write, PromiseInv, BookTypeOK
<1>2. CASE Seal
  BY <1>2 DEF Seal, PromiseInv, BookTypeOK, OverIsSettled, FinalIsTaken
<1>3. ASSUME NEW t \in Timer, Ring(t)
      PROVE  PromiseInv'
  BY <1>0, <1>3 DEF Ring, PromiseInv, BookTypeOK, OverIsSettled, FinalIsTaken
<1>4. ASSUME NEW t \in Timer, GiveUp(t)
      PROVE  PromiseInv'
  <2>1. \A u \in Timer : Moves(u)
    BY <1>4, GiveUpMoves
  <2>2. settled \subseteq settled' /\ settled' \subseteq Timer \X Instant
    BY <1>0, <1>4 DEF GiveUp, PromiseInv, BookTypeOK
  <2>. QED
    BY <1>4, <2>1, <2>2, MovesKeep DEF GiveUp
<1>5. CASE UNCHANGED promiseVars
  BY <1>5 DEF promiseVars, PromiseInv, BookTypeOK, OverIsSettled, FinalIsTaken
<1>. QED
  BY <1>1, <1>2, <1>3, <1>4, <1>5 DEF Next

LEMMA PromiseSteps ==
  PromiseInv /\ [Next]_promiseVars => BookStep /\ GrowsStep
<1> SUFFICES ASSUME PromiseInv, [Next]_promiseVars PROVE BookStep /\ GrowsStep
  OBVIOUS
<1>1. CASE Write
  BY <1>1 DEF Write, Moves, BookStep, GrowsStep
<1>2. CASE Seal \/ UNCHANGED promiseVars
  BY <1>2 DEF Seal, promiseVars, BookStep, GrowsStep
<1>3. ASSUME NEW t \in Timer, Ring(t)
      PROVE  BookStep /\ GrowsStep
  BY <1>3 DEF Ring, BookStep, GrowsStep
<1>4. ASSUME NEW t \in Timer, GiveUp(t)
      PROVE  BookStep /\ GrowsStep
  <2>1. \A u \in Timer : Moves(u)
    BY <1>4, GiveUpMoves
  <2>. QED
    BY <1>4, <2>1 DEF GiveUp, Moves, BookStep, GrowsStep
<1>. QED
  BY <1>1, <1>2, <1>3, <1>4 DEF Next

\* Who keeps the promise of timers.py has no timer over that did not ring or
\* was given up as missed, and no final cancellation that does not hold.
THEOREM PromiseIsSafe == Spec => [](OverIsSettled /\ FinalIsTaken)
<1>1. Init => PromiseInv
  BY DEF Init, PromiseInv, BookTypeOK, OverIsSettled, FinalIsTaken
<1>2. Spec => []PromiseInv
  BY <1>1, PromiseNext, PTL DEF Spec
<1>3. PromiseInv => OverIsSettled /\ FinalIsTaken
  BY DEF PromiseInv
<1>. QED
  BY <1>2, <1>3, PTL

\* ... and takes no step that forgets a timer, revives one that is over, lets
\* go of an unsettled instant, or takes back what is settled or final.  That is
\* how its actions are written (Moves of timers.py's writes); it is here to be
\* carried over to what implements them.
LEMMA PromiseIsKeptByEachStep == Spec => [][BookStep /\ GrowsStep]_promiseVars
<1>1. Init => PromiseInv
  BY DEF Init, PromiseInv, BookTypeOK, OverIsSettled, FinalIsTaken
<1>2. Spec => []PromiseInv
  BY <1>1, PromiseNext, PTL DEF Spec
<1>. QED
  BY <1>2, PromiseSteps, PTL DEF Spec

=============================================================================
