# my-HA in TLA+

Models, checks and proofs for the voice assistant in this repository: the
router's timers and alarms, the push channel over which they ring, the
satellite that plays and acknowledges them, and the spoken turn from the
microphone through the speech server and the router to the answer.

## 1. The system

| Part | Source | State it keeps | Operations | Talks to |
|---|---|---|---|---|
| Timer store | `src/router/timers.py` `TimerStore` | an SQLite table of timers: status, fire time, kind, recurrence | add, set_status, rearm, by_status, next_armed | called by everything below, over ONE connection |
| Scheduler | `timers.py` `Scheduler` | the `wake` event, the ack event of the timer that rings | run/_tick, _fire, _resolve, ack | reads and writes the store, broadcasts on the channel |
| Recovery | `timers.py` `recover` | none | re-arm what was firing, give up what is too late | the store, before anything else runs |
| Timer requests | `timers.py` `handle_timer` | what one request holds across its awaits | set, cancel, query | the store, then `scheduler.wake` |
| Router process | `src/router/router.py` `lifespan` | the tasks | start, shut down | starts recovery, scheduler, pings |
| Calendar | `src/router/timeparse.py` | none | resolve_clock, next_occurrence, recurrences | used by requests, scheduler and recovery |
| Push channel | `src/router/push.py` | the set of connections | handle, broadcast_announce, ping_loop | satellites; forwards acks to the scheduler |
| Event listener | `src/satellite/fake_satellite.py` | active flag, pending id, ack queue, stop event | connect, read, pump acks, stop; Enter in the foreground | the push channel |
| Spoken-time grammar | `timeparse.py` | none | parse, parse_duration, parse_clock | used by requests |
| Dispatch | `router.py` `_route` | none | match an intent, call a handler | requests, devices, Open Brain, the LLM |
| Recording, STT client | `src/satellite/pipeline.py` | counters of one recording | record_utterance, transcribe | microphone, STT server |
| STT server | `src/server/stt_server.py` | one buffer per connection | stt | satellites |
| Pi satellite | `src/satellite/satellite.py` | the pre-roll | wake word, record, transcribe, route, speak | all of the above |
| Bench | `src/satellite/wakeword_bench.py` | none | measure wake-word scores | audio files |

What is hard here:

* **Interleaving.** The router is one asyncio loop. The scheduler and every
  request share one database connection, and each statement and each commit is
  an await: what was read before one may be false after it. On the satellite an
  asyncio thread and the foreground thread share a flag, an id and a queue.
* **Failure.** Commits can fail, the process can die at any await, connections
  break with frames under way; a transcription, a request or an outside service
  can fail, hang, or go on after its caller gave it up.
* **Time.** Timeouts race events (the wait for the next timer against `wake`,
  the repeat interval against the ack); recurrences are computed on a wall clock
  whose offset changes twice a year.

What makes each part correct, in a line: the scheduler never oversleeps, and an
occurrence that did not ring was given up by recovery as past its grace (which
the log tells of a one-shot only); a confirmed timer is durable; a cancelled one
stays cancelled; a done one stays done; ringing ends, by an ack or by exhaustion;
a recurring alarm keeps its time of day and does not ring again for an occurrence
that is over; an announcement reaches every live satellite, its ack reaches the
scheduler, and nothing but an Enter for it silences it; a recording is the whole
of what was said in this turn and no more, only whole recordings are transcribed
and only speech is routed, and every turn ends.

## 2. The modules

```
TimerStore <- Scheduler <- TimerRequests <- TimerService <- TimerServiceInv <- TimerRefinement <- MCTimerService
                                                  TimerServiceProofs -^               ^- TimerRefinementProofs
                          TimerPromise, RingPromise <- - (INSTANCE) - - - - - - - - - '              '
                          ^- TimerPromiseProofs <- - (INSTANCE) - - - - - - - - - - - - - - - - - - -'
CivilTime <- SpokenTime <- RecurringAlarm <- RecurringAlarmInv <- MCRecurringAlarm
    ^- CivilTimeProofs <- - - - - - - - - - - - - - RecurringAlarmProofs -^
PushChannel <- EventListener <- Announcements <- AnnouncementsInv <- MCAnnouncements
                                     RingPromise <- - (INSTANCE) - -'   ^- AnnouncementsProofs
Recording <- SttServer <- Dispatch <- VoiceTurn <- VoiceTurnInv <- MCVoiceTurn
                                                        ^- VoiceTurnProofs
```

An arrow points from a module to the one it is extended by.

**The timer service.** `TimerStore` holds the table twice: `db`, as the
connection sees it, and `disk`, as committed. A statement changes `db`; a commit
copies all of `db`, whoever wrote it; a crash copies `disk` back. `Scheduler`
has one action per await of `_tick`, `_fire` and `_resolve`; `spc` is the await
the task stands at and `cur` the row it holds, which other tasks may have
changed. `TimerRequests` gives each of the set `Handler` the awaits of
`handle_timer`: INSERT, commit, wake and answer for a set; SELECT, then an UPDATE
and a commit for each row, then wake and answer for a cancel. `TimerService`
composes them with the clock, the crash and the restart. `NextOccurrence` is a
parameter: here all that matters is that a recurring row gets some other fire
time. `TimerPromise` is what all this promises, without scheduler, requests,
connection or crashes: a book of timers, the occurrences that are settled, the
cancellations that are final. `TimerRefinement` reads it off the service's
state (the book is the committed table) and states that each step of the
service is one of the promise's or changes none of it. Its one write moves
several entries, since a commit takes along what every coroutine has written.
`RingPromise` is the other half of the promise, how a ringing begins and ends: it
is announced until an ack or `MaxRepeats`, and only the end of the process cuts it
short; a count or an ack is never carried over to the next ringing.

**The calendar.** `CivilTime` is the arithmetic of `timeparse.py`: a clock
reading is a day and a time of day, an instant is a number, and a zone changes
its offset once. Python compares datetimes of one zone by reading, not by
instant, and converts a reading with `fold = 0`; both are modelled, as zoneinfo's
behaviour and not the repository's. `SpokenTime` is what the clock times and
durations of an utterance mean, by the numbers and markers said. `RecurringAlarm`
sets one alarm or reminder by such a phrase, rings it and rearms it across the
change. It rings however late, since another timer may be ringing or the router
down, and recovery rings it in its grace (`Grace`) or gives it up. Of its
stored instant only hour and minute are read back (`ReadBack`), so the seconds
of a reminder that was set by a duration are gone after its first ringing. What
must not come again is an occurrence, the one of the local day of its instant
(`Occurrence`): a daily alarm for 23:58 that rings at 00:01 is armed for 23:58 of
the day that has begun, so it may well ring twice within a local day, and rightly.

**Announcements.** `PushChannel` is the router's set of connections and the
frames on each. A broadcast takes the connections of its moment in some order, one
at a time, as `_send_all` does: it waits at one that is full, and with it all that
come after. The pings go through the same loop; one that gets through changes
nothing, one that fails discards its connection (`PingFails`). `EventListener` is the satellite's reader, ack pump, stop watch
and foreground thread. Speech blocks the listener's loop, as in the code: nothing
else of it moves meanwhile, but the foreground thread does. `Announcements` adds
the repeat loop of `_fire`, for timers that ring one after the other. It leaves
out the store, which the loop does not touch; `TimerService` in its turn has the
ack as an event that may come whenever it is registered. So the loop is modelled
twice, each time with half of its surroundings; both compositions are shown to
implement `RingPromise` (`RingsToTheEnd` of `TimerRefinement` and of
`AnnouncementsInv`), which is what makes them two views of one loop.

**The spoken turn.** `Recording` is the wake-word loop with its pre-roll, the
Enter key, and one action per frame and branch of `record_utterance`'s loop; a
frame is its turn, its number and one bit, whether it is loud. `SttServer` is the
websocket handler and the client's end of the connection, chunk by chunk. The
segments of a transcription are a generator, so the transcription itself runs
where they are joined, on the server's event loop: while one session is in
"decode" no other one moves. `Dispatch` has a coroutine per request, from the
choice of the executor to the answer; of what is said in it only whether it is
blank is kept, and what a handler of timers does on its way is `TimerRequests`.
`VoiceTurn` composes them
for several satellites: the Pi's loop, which ends on an exception, and the fake
satellite's, which logs it, be it of the transcription, the request, the
microphone or the speech; requests and transcriptions that were given up go on
beside the next turn. An announcement shares with a turn only the flag that Enter
reads, so the two compositions are apart.

History variables (`rung`, `missed`, `confirmed`, `told`, `sealed`, `orphan`,
`queued`, `unheard`, `overtaken`, `played`, `compared`, `asked`, `said`, `from`,
`over`, `again`) record what happened, for the properties. No guard of an action
of the program looks at one, with one exception: an ack frame can only carry the
id of a timer that was announced (`rung`).

### Abstractions

* Texts, durations, ids and wording are left out; kind and recurrence are fixed
  for each id, as the code writes them once.
* The 30 s between announcements and the length of speech, of the backoff and of
  the retry are a step that may happen at any time: all the schedules the code
  allows are in, and more.
* An event is taken to be seen at any later step of the task that waits for it.
  When a wait times out in the round in which its event is set, either wins.
* Inside recovery a row's UPDATE and its commit are one step: nothing else uses
  the file then, and a crash between the two is a crash before both. A database
  error there ends the start of the router, which is the crash of the model.
* In `RecurringAlarm` the five minutes of ringing, the queue behind other timers
  and the time that the router is down are any length of time.
* A request's fire time is any instant up to a bound ahead of now, the past
  included: whole seconds cut off may make it now, a repeated hour an hour ago.
* Which executor an utterance goes to, whether a frame is loud, whether the wake
  word is heard, and what an outside service answers are choices.
* The deadlines of `transcribe` (60 s) and of the `/route` request (60 s) may
  expire at any step of the exchange, so every race of a deadline is in.
* Pings that get through, pongs and frames that are not JSON change no state and
  are left out.

## 3. The runs

| Run | Checks | Instance |
|---|---|---|
| `interleavings` | `UncontestedCancelSticks`, `AtMostOneAfterAck`, `RingsToTheEnd` | 2 timers (one recurring), 2 requests at a time, up to 3 repeats, no crash; the requests are symmetric |
| `crashes_and_faults` | `TypeOK`, `NoLostWakeup`, `ConfirmedIsDurable`, `DoneIsAccounted`, `NoStrandedFiring`, `OccurrencesAccounted`, `SettledStaysSettled`, `KeepsPromise` | 2 timers, 1 request at a time, a crash and a failed operation anywhere, 3 instants |
| `progress` | `DueTimersSettle`, `FiringSettles` | under fairness, with a crash |
| `stranded_firing` | `FiringSettles` fails | one failed operation, no crash |
| `cancel_race` | `CancelSticks` fails | 2 timers, a request beside the scheduler |
| `recurring_alarm` | `TypeOK`, `ArmedForTheNext`, `ArmedAsSaid`, `NoOccurrenceTwice`, `MovesByTheSkippedHour`, `BackLessThanAnHour` | all clock times, durations, recurrences and ways to say them; spring, autumn and no change; ringing late by any delay, the router down at any time |
| `spring_drift` | `BackOnItsTime` fails | the spring change |
| `fall_back` | `ArmedAhead` fails | the autumn change |
| `broadcasts` | `BroadcastIsHeard` | 2 satellites of one connection each, 1 timer of up to 3 repeats, one frame per connection, no Enter |
| `delivery` | `TypeOK`, `ActiveUnlessOvertaken`, `SilencedByAPress`, `AcksReachTheScheduler`, `RingsToTheEnd`, `StopEndsTheListener`, `BrokenConnectionsLeave` | 1 satellite with 2 successive connections, 2 timers that ring once each, 2 presses of Enter |
| `ack_wipe` | `ActiveWhileUnacknowledged` fails | 1 satellite, 2 timers |
| `voice_turns` | `TypeOK`, `RecordsTheUtterance`, `NoStaleAudio`, `TranscribesWholeUtterances`, `RoutesWhatWasSaid`, `NeverClosesSilently`, `TurnsEnd`, `SessionsEnd` | a Pi and a fake satellite, 2 turns between them; onset window 1, quiet run 2, at most 6 frames, pre-roll 2, chunks of 3 frames |

**Bounds.** Two timers are enough for every order of two rows by fire time, for
one to ring while the other is due, and for a cancel of all to hold both. One
recurs and one does not. Two requests cover a set against a cancel and two
cancels of the same row, each against the scheduler. Three instants and a grace
of one put a restart within and beyond the grace. One fault and one crash fall at
every await, alone and together; the proofs of section 5 have no bound on any
of this. For the calendar a minute has 2 units, an hour 2 minutes and a day 4 hours, so
seconds, minutes, hours and half days are each told apart; 50 units are three days
and two units, the change in the second hour of the second; the lookahead of 9
days is evaluated in full at each rearming, and a grace of 2 units puts a restart
within and beyond it, on either side of midnight. In `broadcasts` either satellite
may be the one that the loop sends to first, and that one may be dead, break, or be
full while its satellite speaks: three repeats to a queue of one frame make the
loop wait at it, with the other satellite behind. A satellite with two connections
in turn shows the router a dead connection beside a live one (`delivery`), and its
two timers, ringing one after the other, let an ack come late. There a timer rings
with one repeat, since more of them take the state space beyond what a run may
last; that a ringing of several repeats goes on to its ack or its last is checked
in `interleavings`, and proved of both. In `voice_turns` each of the three frame counts
can be the one that ends a recording, a pause shorter than the quiet run fits
between two words, a recording has up to three chunks, and a turn's late request
or transcription meets the other satellite's turn or the next of its own.
Deadlock is checked for `RecurringAlarm`, where GoDown
and ComeUp are always possible. The other systems may stop (the clock of a run
reaches `MaxTime`, everybody has rung), so there it is not.

**Fairness.** Weak fairness of the scheduler's, recovery's and each request's own
steps, and of the clock: the event loop resumes what is ready. Nothing else: no
user needs to speak or to acknowledge, no crashed router needs to be started
again (the liveness properties end with `spc = "down"`). On the channel: weak
fairness of the repeat loop, of each connection's handler and of each satellite's
threads, which includes that speech ends and that an attempt to connect succeeds
or fails. Enter, stop, failing pings and the breaking of connections are never owed. In what
order a broadcast sends is not a question of fairness: its loop has one next
connection, at which it waits. For the turns: weak
fairness of each satellite's own loop (the microphone delivers frames or fails, a
deadline expires, speech ends, although `aplay.wait()` has no timeout to make it) and of the server's accept and receive loop. Transcription
and router are owed nothing: `TurnsEnd` holds although both may hang. `SessionsEnd`
supposes that no transcription lasts for ever, as the server has no deadline. Weak
fairness is enough as each task waits in one place at a time and nothing
disables its step again, except where the property allows for it.

Each property of a passing run has a mutant, an operator beside the one it
replaces and marked `Mutant:`, that the run catches: a missing commit, a missing
wake, a cleared flag, an off-by-one, a loop left too early.

## 4. What the failing runs show

* `cancel_race`: `_tick` fires the row it read before its wait. A cancel that is
  answered just then is overwritten by id; the timer rings, and if it recurs it
  is armed again. `UncontestedCancelSticks` is what remains true, and is proved.
* `stranded_firing`: after an error inside `_fire` or `_resolve` the row keeps
  the status `firing`, which no query asks for, until the next start.
* `spring_drift`: the time of day of a recurring alarm is read back from its
  stored instant; an alarm in the hour the clock skips moves by an hour for good.
  `MovesByTheSkippedHour` is what remains true, and is proved: it moves once, to
  the hour after, and no other alarm moves at all.
* `fall_back`: in the second pass through the repeated hour the next occurrence
  is found by comparing readings and lies in the past; the alarm rings at once,
  and again, until the clock has passed it. `BackLessThanAnHour`, proved as well,
  says that this is all: never outside that pass, never an hour back or more.
* `ack_wipe`: two announcements wait while the satellite speaks; Enter queues
  the ack of the first, the reader takes up the second, then the pump sends the
  ack and clears flag and id. The second can no longer be acknowledged until it
  is repeated.

## 5. The proofs

`TimerServiceProofs` proves nine properties of `TimerService`, every safety
property its two passing safety runs check except the two refinements, which
follow below, for any number of timers, requests,
repeats, crashes and faults, and for every `NextOccurrence` that stays within
the instants. They assume the modules' named ASSUMEs and nothing else, not even
that the set of timers is finite. The proofs follow `IndInv` of
`TimerServiceInv`, since none of the properties is inductive:

* `HoldInv`: where the scheduler holds a row it is a timer, and its counters are
  in range; needed for `TypeOK`.
* `HeldRowInv`: the row the scheduler holds is armed, or firing, as its place in
  the code says, unless it was cancelled meanwhile. This is the race of
  `cancel_race` turned into an invariant: cancelled is the only surprise.
* `FileInv`: recovery is alone with the file; a committed row is never absent.
* `AccountInv`: a row that differs between table and file, or that is done, has
  had its occurrence rung or given up. `NoOccurrenceIsSkipped` is this, read at
  the commit.
* `SettledInv`: the scheduler does not hold a row that is done in the file.
* `ConfirmInv`, `SealInv`: how far a request's rows have got at each of its
  awaits.
* `AckInv`: the announcement after the ack is the last.

Each part has a lemma that every step preserves it, given the parts before it,
with a step for each action that can disturb it. `NoOccurrenceIsSkipped` and
`SettledTimersStaySettled` are action properties: their lemmas are about a step
from a state of `IndInv`.

`CivilTimeProofs` proves, for every length of hour and day: `next_occurrence`
returns a later reading on a day of the recurrence and the first such (its
`AssertionError` cannot be reached: nine days hold every weekday, with today
left out); an instant survives the conversion to the clock and back outside the
repeated hour, and a reading survives storage outside the skipped one. The two
failing calendar runs live in exactly the two exceptions.

`TimerRefinementProofs` proves `KeepsPromise`: the initial states map to the
promise's, and each action of the service to one of its steps or to none. `IndInv`
is not enough for that. `RingInv` adds that while an announcement may go out the
file has the row that rings (the promise rings what is in the book), and
`RecurrenceInv` that only recurring rows move and only the others end. What the
promise is worth is proved too: `TimerPromiseProofs` shows of `TimerPromise` by
itself that only a settled one-shot is over and that a final cancellation holds
(that no step forgets a timer, opens one that is over or lets go of an unsettled
instant is how its steps are written, and only a lemma); and `PromiseSuffices`
carries this over the refinement mapping, so that
`KeepsPromise` with the types implies `DoneIsAccounted`, `OccurrencesAccounted` and
`SettledStaysSettled` without another look at the service's steps.

The second refinement, `RingsToTheEnd`, is proved for both compositions. Where the
scheduler stands and in which range its counters are is all it takes (`HoldInv`,
and `PlaceInv` in `Announcements`): a step of a request, a fault, a connection or a
satellite maps to a stutter, or to `Silence` if it delivers the ack of the timer
that rings. Nothing is assumed of when an ack comes, and the numbers of repeats,
satellites and connections are any.

`VoiceTurnProofs` proves the six safety properties of `voice_turns`, for any
number of satellites and turns, every size of the frame counts and every
sequence of sounds. The invariant of `VoiceTurnInv`: `RecentInv`, whose frames
the pre-roll may hold; `Speaking` and `Waiting`, what the audio is after each
frame read (the loop invariant of `record_utterance`); `ConnInv`, how far client
and server of one connection are and which of the two has left; `RequestInv`,
that what was posted is a text which the server has sent; and `TurnInv`, that a
satellite that waits for a reply waits for its own turn's. `RoutesWhatWasSaid`
takes them together: a text is sent only after all of a recording that is not
empty has come in and its "END", however the connections of others interleave.

`AnnouncementsProofs` proves the three invariants of `Announcements`, for queues,
connections and repeats of any number. `PressInv`: what is in a queue, held by a
pump or in an ack frame was queued by some Enter. `AckInv`: a satellite that was
not overtaken has no ack but of the announcement it plays, which is why the pump's
clearing can only be that announcement's.

`RecurringAlarmProofs` proves the six invariants of `RecurringAlarm` for every
set of zones that change no earlier than an hour into the run, any lengths of
hour and day, every phrase and every end of the run. The data half is about
readings: `next_occurrence` and `resolve_clock` answer the first reading that
is meant, within a week; a reading outside the changing hour is stored as the
one instant that shows it, and instants are in the order of their readings; so
the first reading is the first instant. The invariant of `RecurringAlarmInv`
carries this over the steps: `AheadInv`, a pending alarm was ahead of the moment
it was armed in, and the hour and minute read back from it are those asked for;
`DaysInv`, the occurrence it stands for is of a later day than all that are over.
Nothing bounds how late a ringing is: what is found at the end of it is after
that moment, and so after the day of the occurrence that has rung, even past
midnight. Both except the alarm asked for
in a repeated hour, which `fall_back` shows they must; an alarm in a skipped
hour drifts (`spring_drift`) but is still ahead. `ArmedAsSaid` needs no more
than that: only setting makes a phrase, so what counts is that both clock times
of a bare hour show what was said, and that one of them is ahead within half a
day. The last two are proved together (`WithinAnHour`), on top of that invariant:
a reading that is stored is ahead and shown again, but in the two exceptions of
`CivilTimeProofs`, which are taken apart here; and an alarm that has moved is
rearmed after the change only, when no reading is skipped any more. Three facts
about a phrase's clock time are theorems of their own: `resolve_clock` takes the
earliest of the readings ahead (`ResolveClockIsFirst`), whose hands show what was
said (`ClocksShow`), and a bare one within half a day (`WithinHalfADay`).

Only model-checked: the liveness properties (they rest on fairness).

Not promised by the code, and stated nowhere: that an ack silences the occurrence
it was pressed for. It carries the timer's id, the same for all of them, and may
wait through a lost connection.

## 6. What is not modelled, and the plan

Not modelled:

* the grammar of utterances (regular expressions, number words, politeness) and
  the wording of answers: conversions of text without state;
* what Open Brain, the model and the devices do and answer, and what is said of
  it; that a device's answer of success may be false;
* in `Dispatch`, the branch for an unknown action type (the router does not start
  with one) and an HTTP status other than 200 of `/route` (every exception
  becomes an answer);
* loading the speech model and the limit of worker threads of the speech server;
* the input stream's buffer while the Pi is in a turn: frames begin at `read`;
* what restarts the Pi's process, and the wake-word bench, a measuring script;
* close codes of a connection, the ids' randomness, the fraction of a second that
  `to_utc_iso` cuts off.

Left for later: announcements and turns of one satellite in one composition, for
an Enter that was pressed for the one and is read by the other.
