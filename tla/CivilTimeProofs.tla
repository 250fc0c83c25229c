-------------------------- MODULE CivilTimeProofs --------------------------
(***************************************************************************)
(* What next_occurrence and the conversions between UTC and the zone       *)
(* compute, for every day, every time of day and every recurrence.         *)
(***************************************************************************)
EXTENDS CivilTime, TLAPS

\* The day length is a positive number, so a time of day is one of its units.
LEMMA DayLengthNat == DayLength \in Nat /\ HalfDay \in Nat
BY CivilAssumption DEF DayLength, HalfDay

\* Among any seven days in a row one falls on a given weekday.
LEMMA WeekdayComesRound ==
  ASSUME NEW base \in Nat, NEW w \in Weekday
  PROVE  \E k \in 1 .. 7 : (base + k) % 7 = w
<1>1. base % 7 \in 0 .. 6
  OBVIOUS
<1>2. \A k \in 0 .. 7 :
        (base + k) % 7 = IF (base % 7) + k < 7 THEN (base % 7) + k
                         ELSE IF (base % 7) + k < 14 THEN (base % 7) + k - 7
                                                   ELSE (base % 7) + k - 14
  OBVIOUS
<1>3. CASE base % 7 < w
  <2>1. w - (base % 7) \in 1 .. 7
    BY <1>1, <1>3 DEF Weekday
  <2>. QED
    BY <1>1, <1>2, <2>1 DEF Weekday
<1>4. CASE base % 7 >= w
  <2>1. w - (base % 7) + 7 \in 1 .. 7
    BY <1>1, <1>4 DEF Weekday
  <2>. QED
    BY <1>1, <1>2, <2>1 DEF Weekday
<1>. QED
  BY <1>1, <1>3, <1>4 DEF Weekday

\* A nonempty set of days within the nine that are tried has a first one.
LEMMA FirstHitExists ==
  ASSUME NEW hits \in SUBSET (0 .. 8), hits # {}
  PROVE  FirstHit(hits) \in hits /\ \A e \in hits : FirstHit(hits) =< e
<1>1. \E d \in hits : \A e \in hits : d =< e
  <2>0. CASE 0 \in hits
    BY <2>0
  <2>1. CASE 0 \notin hits /\ 1 \in hits
    BY <2>1
  <2>2. CASE 0 \notin hits /\ 1 \notin hits /\ 2 \in hits
    BY <2>2
  <2>3. CASE 0 \notin hits /\ 1 \notin hits /\ 2 \notin hits /\ 3 \in hits
    BY <2>3
  <2>4. CASE /\ 0 \notin hits /\ 1 \notin hits /\ 2 \notin hits /\ 3 \notin hits
            /\ 4 \in hits
    BY <2>4
  <2>5. CASE /\ 0 \notin hits /\ 1 \notin hits /\ 2 \notin hits /\ 3 \notin hits
            /\ 4 \notin hits /\ 5 \in hits
    BY <2>5
  <2>6. CASE /\ 0 \notin hits /\ 1 \notin hits /\ 2 \notin hits /\ 3 \notin hits
            /\ 4 \notin hits /\ 5 \notin hits /\ 6 \in hits
    BY <2>6
  <2>7. CASE /\ 0 \notin hits /\ 1 \notin hits /\ 2 \notin hits /\ 3 \notin hits
            /\ 4 \notin hits /\ 5 \notin hits /\ 6 \notin hits /\ 7 \in hits
    BY <2>7
  <2>8. CASE /\ 0 \notin hits /\ 1 \notin hits /\ 2 \notin hits /\ 3 \notin hits
            /\ 4 \notin hits /\ 5 \notin hits /\ 6 \notin hits /\ 7 \notin hits /\ 8 \in hits
    BY <2>8
  <2>9. PICK h \in hits : h \in 0 .. 8
    OBVIOUS
  <2>10. h = 0 \/ h = 1 \/ h = 2 \/ h = 3 \/ h = 4 \/ h = 5 \/ h = 6 \/ h = 7 \/ h = 8
    BY <2>9
  <2>. QED
    BY <2>0, <2>1, <2>2, <2>3, <2>4, <2>5, <2>6, <2>7, <2>8, <2>10, Zenon
<1>. QED
  BY <1>1 DEF FirstHit

\* The nine days that next_occurrence tries always contain a match: its
\* AssertionError (timeparse.py:232) is unreachable.
LEMMA NineDaysSuffice ==
  ASSUME NEW origin \in Weekday, NEW after \in Reading,
         NEW tod \in 0 .. DayLength - 1, NEW rec \in Recurrence
  PROVE  Hits(origin, after, tod, rec) # {}
<1>1. PICK w \in Weekday : w \in rec
  BY DEF Recurrence, EveryDay, Weekday
<1>2. origin + after.day \in Nat
  BY DEF Weekday, Reading
<1>3. PICK k \in 1 .. 7 : ((origin + after.day) + k) % 7 = w
  BY <1>2, WeekdayComesRound
<1>4. RecurrenceMatches(origin, after.day + k, rec)
  <2>1. origin + (after.day + k) = (origin + after.day) + k
    BY DEF Weekday, Reading
  <2>. QED
    BY <1>1, <1>3, <2>1 DEF RecurrenceMatches
<1>5. Earlier(after, Candidate(after, tod, k))
  BY DEF Earlier, Candidate, Reading
<1>6. k \in 0 .. 8
  OBVIOUS
<1>. QED
  BY <1>4, <1>5, <1>6 DEF Hits

\* next_occurrence answers the time of day it was given, on a day of the
\* recurrence, strictly later on the clock than `after`, and no such reading
\* comes before its answer.
THEOREM NextOccurrenceIsFirst ==
  ASSUME NEW origin \in Weekday, NEW after \in Reading,
         NEW tod \in 0 .. DayLength - 1, NEW rec \in Recurrence,
         NEW next, next = NextOccurrence(origin, after, tod, rec)
  PROVE  /\ next \in Reading /\ next.tod = tod
         /\ Earlier(after, next)
         /\ RecurrenceMatches(origin, next.day, rec)
         /\ \A r \in Reading :
              r.tod = tod /\ Earlier(after, r) /\ RecurrenceMatches(origin, r.day, rec)
                => ~ Earlier(r, next)
<1> DEFINE hits == Hits(origin, after, tod, rec)
           d == FirstHit(hits)
<1>1. hits \in SUBSET (0 .. 8) /\ hits # {}
  BY NineDaysSuffice DEF Hits
<1>2. d \in hits /\ \A e \in hits : d =< e
  BY <1>1, FirstHitExists
<1>3. d \in 0 .. 8 /\ Earlier(after, Candidate(after, tod, d))
                   /\ RecurrenceMatches(origin, after.day + d, rec)
  BY <1>2 DEF Hits
<1>4. next = [day |-> after.day + d, tod |-> tod]
  BY DEF NextOccurrence, Candidate
<1>5. next \in Reading /\ next.tod = tod /\ next.day = after.day + d
  BY <1>3, <1>4 DEF Reading
<1>6. ASSUME NEW r \in Reading, r.tod = tod, Earlier(after, r),
             RecurrenceMatches(origin, r.day, rec), Earlier(r, next)
      PROVE  FALSE
  <2>1. r.day < after.day + d /\ after.day =< r.day
    BY <1>3, <1>5, <1>6 DEF Earlier, Reading
  <2>2. r.day - after.day \in 0 .. 8 /\ r.day - after.day < d
    BY <1>3, <2>1 DEF Reading
  <2>3. after.day + (r.day - after.day) = r.day
    BY DEF Reading
  <2>4. r.day - after.day \in hits
    <3>1. Candidate(after, tod, r.day - after.day) = [day |-> r.day, tod |-> tod]
      BY <2>3 DEF Candidate
    <3>2. Earlier(after, Candidate(after, tod, r.day - after.day))
      BY <1>6, <3>1 DEF Earlier, Reading
    <3>. QED
      BY <1>6, <2>2, <2>3, <3>2 DEF Hits
  <2>. QED
    BY <1>2, <1>3, <2>2, <2>4
<1>. QED
  BY <1>3, <1>4, <1>5, <1>6 DEF Candidate

-----------------------------------------------------------------------------

\* The stored instant is the instant meant, unless the clock is in its second
\* pass through a repeated hour (_combine's datetimes have fold 0).
THEOREM InstantSurvivesTheClock ==
  ASSUME NEW z \in Zone, NEW i \in Nat,
         ~ (z.after < z.before /\ z.change =< i /\ i < z.change + HourLength)
  PROVE  InstantOfWall(z, i + Offset(z, i)) = i
BY CivilAssumption DEF Zone, InstantOfWall, Offset, Larger

\* The clock shows the reading meant at the stored instant, unless the reading
\* is one the clock skips: then _resolve reads another hour back.
THEOREM ReadingSurvivesTheStore ==
  ASSUME NEW z \in Zone, NEW wall \in Nat, HourLength =< wall,
         ~ (/\ z.before < z.after
            /\ z.change + z.before =< wall /\ wall < z.change + z.after)
  PROVE  InstantOfWall(z, wall) + Offset(z, InstantOfWall(z, wall)) = wall
BY CivilAssumption DEF Zone, InstantOfWall, Offset, Larger

=============================================================================
