# CatFeeder in TLA+

A feeder built around a Particle Photon (`src/photon/`) asks a Java server
(`src/com/jonkimbel/catfeeder/backend/`) every ten minutes when to feed the
cat, and reports the feedings it made. A user sets the schedule and asks for a
feeding now through the server's web page. This directory holds TLA+ models of
both programs and of their conversation, TLC configurations that check them,
and proofs about the firmware, the server, the whole system, the notifier, the
schedule, and a check-in down to its bytes.

## The system

| Component | State | Operations | What makes it correct |
|---|---|---|---|
| Firmware (`photon/app.cpp`, `servo-info.h`) | globals in RAM: two timers, `feed_now`, `check_in_now`, `has_fed`, `scoops_to_feed`; the servo | `setup`, `loop`, `feed`, `cycle_servo`, `check_in`, `updateVariables` | it always has something to do or to wait for; a meal is served once, whole, when it is due; it is reported until the server took note; the chute is shut otherwise |
| HTTP client (`http-client.*`) | the TCP connection, a buffer | connect, send, read header, read body | a valid answer is read as it was sent, anything else yields the default response |
| HTTP server (`server/`) | a thread per connection | read header and body, call the handler, write the answer, close | each request is answered once, or its connection is closed |
| Request handling (`Backend`, `FeedingTimeUpdater`, `PreferencesUpdater`, `ProtoBodyRenderer`) | none of its own | check-in, feed now, update of the preferences, home page | each update takes effect on the latest preferences; the answer agrees with them |
| Storage (`storage/`) | a cache, a file | get, set | what is set is what later gets, and a restart, find |
| Feeding schedule (`time/Time.java`) | none; reads clock, history, schedule | next feeding | each slot of the day is fed once |
| Outage notifier (`alert/`) | the pending timeout, the timer thread | `alertIfNotCalledWithin`, `alert` | the admin is texted when, and only when, the device is silent |
| ArrayList (`photon/array-list.h`) | length, capacity, items | construct, clear, add | the capacity holds the items, a failed `add` leaves the list as it was |
| nanopb (`photon/nanopb/`, `cat_feeder.pb.*`) | the stream, the varint under way, the position in the fields | decode, skip | a message means what its encoder meant, a malformed one is refused |
| Routing and login (`ActionDeterminer`, `MapParser`) | none | request to action | each route leads to its action |
| Templates (`HttpBodyRenderer`, `template/`) | none | fill in tokens | each token is replaced by its value |

The components meet in these places: firmware and server in a check-in, one
HTTP exchange; connection threads among themselves in the cache, the file and
the monitor of the notifier; the notifier and its timer thread in that
monitor; an incarnation of the server and the next one in the file.

The hard parts: nothing synchronizes the connection threads; the feeder cannot
tell a lost request from a lost answer; a thread outlives the connection it
serves; both programs may lose their memory at any point; the client has no
timeouts and takes a truncated answer for a whole one; time is kept by
`delay()` and by a wall clock at once. `PROJECT.json` lists these hazards line
by line with the properties that watch them.

## The modules

| Module | Models | Extends or uses |
|---|---|---|
| `DeviceContract` | what the feeder promises, without clock and servo | |
| `PhotonDevice` | the firmware | implements `DeviceContract` |
| `PhotonDeviceProofs` | theorems about the firmware | `PhotonDevice`, TLAPS |
| `BackendProofs` | theorems about the server | `Backend`, TLAPS |
| `CatFeederProofs` | theorems about the whole system | `CatFeeder`, `BackendProofs` |
| `OutageNotifierProofs` | theorems about the notifier | `OutageNotifier`, TLAPS |
| `FeedingScheduleProofs` | theorems about the schedule and the timed feeder | `FeedingSchedule`, `InductionProofs` |
| `WireFormatProofs` | theorems about varints and encoded fields | `WireFormat`, `InductionProofs` |
| `CheckInExchangeProofs` | theorems about a check-in on the wire | `CheckInExchange`, `WireFormatProofs` |
| `InductionProofs` | induction and recursive functions on natural numbers, as lemmas about sets and functions | TLAPS |
| `FeedingPreferences` | the preferences, the requests, what a request does to them | |
| `PreferencesRegister` | the preferences as a register whose updates are atomic and saved one by one | `FeedingPreferences` |
| `Backend` | connection threads, cache, file, restarts | `FeedingPreferences`; implements `PreferencesRegister` with one thread |
| `OutageNotifier` | the watchdog, its monitor and its timer | |
| `CatFeeder` | the whole system | `Backend`, instance of `DeviceContract` |
| `FeedingSchedule` | the choice of the next feeding, and a feeder that follows it | |
| `CheckInContract` | what a check-in promises to both sides, without bytes | |
| `CheckInExchange` | one check-in on the wire: `sendRequest()`, the connection, the thread of `HttpServer` | `NanopbDecoder`, `HttpClient`, `Charsets`; implements `CheckInContract` |
| `HttpClient` | the feeder's reader of the answer | `ArrayList` |
| `ArrayList` | the growing array | |
| `NanopbDecoder` | `pb_decode()` of an `EmbeddedResponse`, byte by byte | `WireFormat` |
| `WireFormat` | the encoders (external) and the widths | |
| `Charsets` | bytes to characters and back in Java (external) | |
| `MCPhotonDevice`, `MCCatFeeder`, `MCCheckInExchange` | values, symmetry and answers for TLC | |

Operators whose names contain an underscore followed by a remark
(`Monus_NoClamp`) are mutants: plausible bugs, used only to make sure that a
property notices them (`PROJECT.json`, "mutants").

### PhotonDevice

`ram` holds the globals of `app.cpp:60-77`. `pc` is where the single thread
is: `setup`, `disable_servo`, `loop`, `feed`, `check_in`. Every blocking call
(a `delay()`, a check-in) ends an action, so that `PowerLoss` may come between
any two of them. `UpdateVariables` and `CheckIn` are the two functions that
change the globals, as functions from old to new globals.
`FinishCheckIn(r, real, jump)` is the end of a check-in that took `real` ms and
during which the clock was set by `jump` seconds; `CountedSeconds` says what
the difference of two `Time.now()` may be, and `CountedMs` what the product
with 1000 may be: any `int` when it overflows, because that is undefined. `due`
is not in the code: the real time left of the delay that was ordered.

Left out: the LED; the argument of `delay()` is taken as 64 bits although the
platform's is 32 (the server never asks for more than two days); the protocol
buffer encoder and the HTTP client, whose outcomes are `Response` (any decoded
message) and `DefaultResponse`.

### Backend

A connection thread goes through `get`, (`load`, `fill`), `put`, `truncate`,
`write`, and for a check-in `notify`, `render`, `render_schedule`,
`render_scoops`; each of these is one access to something shared.
`Files.write()` is two steps, as it truncates first; a write that met another
one may leave the file unreadable, which reads as default preferences. An
`IOException` of either is swallowed as in the code. `died` is a thread that
an exception ended: rendering without a next feeding
(`ProtoBodyRenderer.java:20`) or re-arming a dead timer. `Crash` loses all but
the file. `log` and `recorded` are not in the code, they observe the history
of `set()` calls.

Times are abstracted: a feeding time is the number of the meal it belongs to,
and the schedule is `FEED` (there is a next feeding), `NEVER` or `UNKNOWN`
(there is none). The `HashMap` of the cache is taken as atomic; the outcome of
two threads that allocate its table at the same instant is not modelled.

### CatFeeder

The feeder's side is `DeviceContract`, which `PhotonDevice` is proved to
implement, with the meals numbered. The contract counts the power losses, so
that nothing but a power loss can pass for one. `link` is the thread at the other end of
the check-in. `ConnectionBreaks` frees the feeder and not the thread;
`ReceivePartOfAnswer` is an answer cut off at the end of a field, which nanopb
decodes; cuts elsewhere give the default response and are `CheckInFails`.
`reliable` ends the failures of the network (for liveness).

`DeviceContract!Ask` may come while an order is pending, and an order may be
started at any time: the contract has no clock. `CatFeeder` therefore covers
every timing of the firmware, and some that it does not have.

What `CatFeeder` takes a check-in to be is written down in `CheckInContract`
and checked on the wire: the server hears the report as it was made
(`Connect`), the feeder gets the default response (`CheckInFails`), the answer
(`ReceiveAnswer`) or its first fields (`ReceivePartOfAnswer`), and the thread
may still work on a request that the feeder has given up (`Hear`).

A click (`feed_asap`) is honoured unless the report of an earlier meal comes
after it: `FeedingTimeUpdater.java:33` clears the flag with any report.
With a schedule the cat is then fed at its next time; without one it is not,
and `ClickFeedsTheCat` excepts this.

### CheckInExchange

One call of `sendRequest()` (`app.cpp:201-254`) against one thread of
`HttpServer.java`. `phase` is where `sendRequest()` is, `server.pc` where the
thread is. Each action of the feeder takes one byte: `EncodeByte` writes one
through `arrayListOstreamWrite()`, `ReadHeader` and `ReadBodyByte`
(`HttpClient`) read one of what has arrived, `Decode` (`NanopbDecoder`) decodes
one. `Arrive` delivers a piece of any size, so that `read(statusCode, 3)`
(`http-client.cpp:145`) may find less than it asks for; `ConnectionBreaks` ends
the connection at any byte and loses what is on its way. Each side may see that
or not: `unnoticed` holds those who do not know of it, and `BreakIsNoticed` may
tell them later, or never (a server whose machine went down, `Backend.java:22`).
Neither side has a timeout. A feeder that does not know stays in
`while (connected())`, a thread that does not know in `read()`; `connected()`
also stays true until what had arrived is read. A thread that has stored the
report may die before it answers (`HandleRequest`), of a dead timer
(`Backend.java:64`) or a missing schedule (`Backend.java:68`). `MaxFailedAllocations`
is how often `malloc()` may fail in `add()`: in the request the check-in is
given up, in the answer a byte is left out (`holes`), since `getResponse()` does
not look at what `add()` returns, and the contract then promises nothing.

`decoding` says what the next byte belongs to. A varint of 32 bits (a tag, a
bool, the length of a string) and one of 64 bits are decoded by different
functions with different checks; `varint` is the one under way. What the
encoders write (`Encoded`) and what fields mean (`Meaning`) are reference
definitions that do not use the decoder. The integers have `Bits32` and
`Bits64` bits, which agree with 32 and 64 modulo 7, so that the last byte of a
varint has four bits to give in the one and one in the other, as in the code.

Abstracted: of a header only CR, LF, SP and the three digits of the status are
told apart, any other text is one byte; the request's header arrives as one
piece, whose only content is Content-Length. Left out: `malloc()` of the
header's strings, which the code does not check either (`http-client.cpp:42`);
`bitpos` has no bound (`uint_fast8_t` is 32 bits wide on the Photon, and an
answer would need hundreds of zeros to reach 8). nanopb's decoders of strings, bytes,
submessages, signed and fixed numbers, and its extensions, callbacks, oneofs
and allocated messages, cannot be reached from the four optional static scalars
of `EmbeddedResponse`.

The charset matters because the request passes through a `String`
(`Backend.java:63`): `new InputStreamReader(in)` and `getBytes()` use the
default of the platform. In a charset of one byte per character nothing is
lost, and `exchange` shows all properties. In UTF-8 (the default since Java
18) `report_distorted` finds a report that is heard as
another time: 10000 ms, that is what a feeder reports when it tries again,
is `08 90 4E` and becomes 164585455 ms, some 45 hours. The first report of a
meal, 0 ms, has no such byte. There is worse, and `exchange_stuck` shows it: of
18000 ms, `08 D0 8C 01`, two bytes are one character, and the server waits for a
fourth character and the feeder for the answer, for ever, on a connection that
works. US-ASCII, where each
byte above 127 becomes a question mark, is not modelled.

### OutageNotifier

`java.util.Timer` and Twilio are external: tasks run one at a time, a task
that throws ends the thread, `schedule()` throws afterwards. `Call` is a
check-in that reaches the monitor, `AlertIfNotCalledWithin` the body,
`Fire`/`EnterAlert`/`SmsSent`/`SmsFails` the timer's side. `silence` and
`alerted` observe.

### FeedingSchedule

`NextFeeding` is `Time.getTimeOfNextFeeding()`: the feedings of today and
tomorrow, the first one that is `Ahead` or that was `Missed`. Around it goes a
feeder at the grain of the clock (`Feed`, `CheckIn`, `Wait`), whose delays are
off by up to `Drift`. Check-ins that find no next feeding store the report and
stay unanswered (`CheckInUnanswered`); those in an outage may have stored it
or not (`CheckInFails`). `Store` keeps what `FeedingTimeUpdater.java:28` keeps:
the server's clock less `since`, the time since the meal as the feeder counts
it. The count is off when a report has to be made again, by what `loop()` takes
a check-in to have lasted: whole seconds, on a clock that may be set meanwhile
(`Miscount`, up to `Blur` each time, `error` in all). Since a check-in takes no
time here, one that is counted too short makes `since` smaller, and negative
where nothing has been counted yet; in the code the time that is not counted is
part of the check-in. `meal`, `known`, `error` and `up` observe.

How large may the error be? `NoFeedingServedTwice` says: less than the skew less
the drift. A meal that is served `Drift` before its time and reported as
`Skew - Drift` older than it is falls out of the window of
`MAX_PHOTON_TIME_SKEW_S`, and its feeding is ordered again; TLC finds that
behaviour at once when the property asks for `error <= Skew` instead. A meal
that is reported as later than it was can stand for a feeding that was missed;
`FeedingsAreCaughtUp` excepts that by `last >= t - Skew`.

Feedings that a user
asks for (`feed_asap`), answers that are cut off, daylight saving time and storage that fails are not in
this module; clicks and cut answers are in `CatFeeder`.

What the code catches up is narrower than one may think, and
`FeedingsAreCaughtUp` says so: only feedings of the same day, only if the cat
has been fed before, and only if they were due after the schedule was last
changed (`Time.java:142-145`).

## The runs

| Run | Checks | Shows |
|---|---|---|
| `device` | `TypeOK`, `NeverInBadState`, `TimerAccurate`, `ChuteShutWhenIdle`, `ImplementsContract`, `AlwaysChecksInAgain`, `FeedNowServed` | the firmware on a steady clock keeps time to the second, serves what is due and never falls silent |
| `device_early` | `NotFedEarly`, violated | a clock set forward, or an overflow, starts a meal at once |
| `notifier` | `TypeOK`, `NoOrphanTimeout`, `AlertsOnlyAfterSilence`, `CheckInsAreNotBlocked`, `OutageIsAlertedAtFirst` | the watchdog does its work until the first text fails, and blocks no check-in even then |
| `notifier_broken` | `OutageIsAlerted`, violated | one failed text ends the watch |
| `backend_race` | `ReportedFeedingsAreStored`, violated | two connections lose an update |
| `system_failures` | `NoMealIsOverwritten`, `NoFeedingIsInvented`, `NoReportIsDropped` | the central guarantee: no meal goes unrecorded for lack of a report, whatever fails on the server or between; races and I/O errors lose feedings of the history, they add none |
| `system` | `TypeOK`, `HistoryIsInOrder`, `ReportedFeedingsAreStored`, `ImplementsRegister`, `ReportIsConsumed`, `ClickFeedsTheCat` | one connection at a time, with user, crash, power loss and texts that fail: the server is a register that saves each update before the next, stores every report and keeps the order of the meals; reports end and a click leads to a meal, with the exceptions below |
| `exchange` | `TypeOK`, `ReportArrivesAsSent`, `WholeAnswerIsTaken`, `ImplementsCheckIn`, `ExchangeEnds` | a check-in on the wire: the report and the answer arrive as meant or not at all, a cut answer counts by whole fields, and both sides end, unless a break stays unnoticed |
| `report_distorted` | `ReportArrivesAsSent`, violated | in UTF-8 a report is heard as another time |
| `exchange_stuck` | `ExchangeEnds`, violated | in UTF-8 server and feeder wait for each other on a connection that works |
| `schedule` | `TypeOK`, `FeedingsAreCaughtUp`, `NoFeedingServedTwice` | every feeding of the day is served, and once, through clock drift, miscounted reports, an outage, a power loss and a change of the schedule |
| `system_no_schedule` | `CheckInsAreAnswered`, violated | no schedule, no answer |

The violated properties quote comments of the code; `PROJECT.json`, "findings",
gives the lines. Two more behaviours that a reader may not expect are part of
the models. A lost answer makes the device report a meal again, and the server
lists it a second time (`FeedingTimeUpdater.java:28`): `HistoryIsInOrder`
therefore allows equal neighbours. A crash between the truncation of the file
and the end of the write (`PreferencesSerializer.java:36`) empties the
preferences: `BeginSaving` and `Restart` of `PreferencesRegister`. The schedule
is then unknown, and the device gets no answer until the user sets it again.

`ReportIsConsumed` excepts a server that answers no check-in at all: one
without a schedule, whether the user chose that or a crash lost it
(`ProtoBodyRenderer.java:20`), and one that failed to send a text. A single text
that fails ends the timer (`OutageNotifier.java:46`), and from then on every
check-in dies at `Backend.java:64`, after its report was stored, until the
server is restarted. `ClickFeedsTheCat` excepts the dead timer too, a server
that crashed (with `Meals` finite, the last meal has none after it), and a click
that a late report took back while there is no schedule. It asks for one meal:
that a power loss before the report makes the cat fed again is not against it.

`ReportedFeedingsAreStored`, `ImplementsRegister` and `HistoryIsInOrder` are
checked with one connection in `system`: with two they fail, as `backend_race`
shows for the first.

### Bounds, and why they are enough

- `MCPhotonDevice` makes a second 2 ms, an `int` at most 5 and a 64-bit word
  16: rounding to seconds, an overflowing product and a negative `int` widened
  all happen within check-ins of 5 ms (3 in `device`, where nothing overflows). Delays are 0 (at once), 1 (shorter than
  any move) and 3 (longer than all), the default check-in delay is between
  them. One jiggle and up to two scoops exercise each loop's repetition; one
  power loss at any point is followed by a complete life. Check-ins longer than
  an `int` and a clock that jumps are explored by `device_early` up to its
  violation, and covered by the theorems, which need none of these bounds.
- Two connection threads are what a lost update needs, and a third would only
  repeat the part of the second. Two meals make an order of the history and an
  older meal that a late thread may bring back; a history of one or two entries
  reaches its limit. `system_failures` leaves out what does not
  matter to its properties (the number of scoops, the user).
- `MaxCrashes`, `MaxPowerLosses`, `MaxClicks` and `MaxUpdates` (forms sent and
  pages opened) are 0 or 1: one at any point, followed by a complete life.
  `MaxFailures` is 1 in `system` and `system_failures`: there is a crash or a
  power loss at any point, not both in one behaviour; what the one leaves of the
  state (a report forgotten, a file cut off) the other does not read. The server
  starts with a schedule in `system`; the form may take it away. With `Meals` finite the feeder stops feeding after the last one.
- `FeedingSchedule`: a day of 9 units with feedings at 1 and (second schedule)
  5, a check-in every 3, a skew of 3, a drift of 1; a failed check-in may be
  miscounted by 1, a meal by 3 in all (`Blur`, `MaxError`), which is enough to
  leave the property's condition behind. The ratios keep
  the code's order (drift < skew < distance of two feedings, check-ins less
  than a day apart) in the smallest numbers; 16 units see the day after
  one with an outage, a power loss and a change of the schedule. The start is
  at any time of the first day. `Never` stands for null.
- `MCCheckInExchange`: widths of 11 and 22 bits give varints of two and of four
  bytes instead of five and ten, with the same bits to spare. The answers reach
  the full width of each field and one bit more, hold unknown fields of each
  wire type between the known ones, the known ones out of order, negative
  numbers, varints that do not end, a terminating zero, and an unknown and a
  cut field; reports are none, 0, one that is not a text, and the largest
  (`exchange_stuck`: none and the one with two bytes that are one character). One
  `malloc()` may fail, at any of them: a second failure could only fall on
  another byte of the same answer, about which nothing is promised any more.
  The same run passes with widths of 18 and 29 bits.
- `OutageNotifier`: two threads, four calls, a delay of two ticks, so that
  timeouts are replaced before, at and after their end.

### Fairness, and why the code justifies it

- `PhotonDevice`: the only thread runs on while it is not in a check-in
  (`WF_vars(OwnStep)`). A check-in need not return: `sendRequest()` waits in
  `while (connected())` without a timeout (`http-client.cpp:34`, 86, 113).
  `AlwaysChecksInAgain` is met by a device that stays in a check-in for ever,
  and by nothing else that stays where it is; `FeedNowServed` does not depend on
  check-ins that return.
- `CheckInExchange`: both programs go on, and TCP delivers what was written on
  a connection that does not break. Nothing forces a break, nor that one is
  noticed: `ExchangeEnds` excepts a break that some side never hears of.
- `CatFeeder` assumes that each check-in returns (`FeederGoesOn` holds
  `CheckInFails`). From `exchange` this is so for a charset that keeps bytes
  and a network that tells of its breaks; `exchange_stuck` shows that in UTF-8
  it is not always so. `ReportIsConsumed` and `ClickFeedsTheCat` are worth what
  this assumption is.
- `OutageNotifier`: time passes, the JVM schedules its threads, the monitor is
  entered by who waits, Twilio answers or throws. No call is assumed.
- `CatFeeder`: threads of both programs go on, an answer on a connection that
  does not break arrives, and the network settles at some time (`reliable`).
  `StartMeal` is strongly fair: a check-in may come between an order and its
  meal, but not each time, since an order that is due at once is served before
  the next check-in (`FeedNowServed`, run `device`) and a scheduled
  one comes nearer with each answer. Crashes, power losses and the user are
  never forced.

## What is proved

The theorems hold for every value of the constants that the named assumptions
allow: any number of connections, threads, meals, scoops and calls, any delays
and widths, any schedule. Each module of proofs begins with its inductive
invariants; TLC checked each of them on the runs' instances before it was
proved. "Holds" below means `Spec => []...`.

### The firmware (`PhotonDeviceProofs`)

Assumed: a 64-bit width, delays within it, a positive default delay and
positive move times; any clock unless stated.

- `TypeCorrectness`: `TypeOK` holds.
- `BadStateUnreachable`: `NeverInBadState` holds. Out of a check-in or a
  feeding, a flag is set or the check-in timer runs (`WakeupInv`): reset and
  `feed()` end with `check_in_now`, and an answer is followed by
  `updateVariables()`, which raises it when the timer is at 0.
- `ChuteIsShut`: `ChuteShutWhenIdle` holds, from where the arm is at each `pc`
  (`ServoInv`).
- `TimerIsAccurate`: `ASSUME ClockSteady`: `TimerAccurate` holds, where
  `ClockSteady` says that the clock is not set and that no check-in overflows
  an `int` of milliseconds. The timer and `due` stay within a second because
  the same delay is taken off both, and a check-in counted in whole seconds is
  off by less than one.
- `Refinement`: `Spec => ImplementsContract`. A step of `feed()` maps to a
  scoop or to a stutter; the meal in the contract has `portion` scoops left,
  which is `scoops_to_feed` during the first jiggle and the cycles left
  afterwards; the order is pending while `Armed`. Needed is `OrderInv`: the
  feeding timer and `feed_now` are never both set, and nothing is ordered
  while a meal is served.
- `Invariance`: the inductive invariant all of them rest on holds: `TypeOK`,
  `WakeupInv`, `OrderInv`, `CycleInv` (a feeding's cycles) and `ServoInv`.

### The server (`BackendProofs`)

- `BackendIsTyped`, `FeedingsAreReported`: `BackendTypeOK` and
  `NoFeedingIsInvented` hold, with any number of threads, I/O errors and
  crashes. `BackendInv`: cache, file, log and the copy of every busy thread are
  `Sound`, that is, of the right type, not longer than the history, and made of
  recorded feedings only. Each step hands on a sound copy or applies a request
  to one (`AppliedIsSound`), and the recorded feedings only grow.
- `ReportsAreStored`, `BackendImplementsRegister`: `ASSUME ~IoMayFail`, and
  as long as `OneAtATime` holds (at most one thread is in a request),
  `ReportedFeedingsAreStored` holds and the server implements
  `PreferencesRegister`. Both conditions are needed: `backend_race` breaks the
  first property with two threads, and a file that can not be written leaves
  cache and file apart. They are a property of the environment, not of the
  code, and stand in the theorem: `BackendSpec /\ []OneAtATime => ...`.
  `SerialInv` says at which `pc` the thread's copy is what the cache holds, and
  that the file agrees with it whenever no thread is writing. The register
  updates when a thread puts, and saves while it truncates and writes.
- `OneThreadImplementsRegister`: with one connection `OneAtATime` need not be
  assumed. This is the server of the run `system`, for any history and any
  crashes.

### The whole system (`CatFeederProofs`)

- `SystemRunsBackend`: `Spec => BackendSpec`. Every step of the system is a
  step of the server or leaves it alone; all theorems about the server
  therefore hold here (`SystemInventsNoFeeding`, `SystemUsesRegister`).
- `MealsAreNotOverwritten`, `ReportsAreNotDropped`: `NoMealIsOverwritten` holds
  and so does the action property `NoReportIsDropped`, for any number of
  connections, with failing files, crashes and power losses, and without
  `OneAtATime`. `ReportInv`: a thread that has passed `put` has recorded the
  report of its request (`PutIsRecorded`), and the thread that serves the
  feeder carries the feeder's latest meal; hence an answer that consumes the
  report is written after the meal was recorded. If `CheckInFails` is made to
  consume the report, this step can not be proved.
- `HistoryStaysInOrder`: as long as `OneAtATime` holds, `HistoryIsInOrder` does.
  A thread that is about to record carries the latest meal (`LatestInv`).
- `SystemIsTyped`: `TypeOK` holds.

### The notifier (`OutageNotifierProofs`)

- `NotifierIsTyped`, `NoTimeoutIsOrphaned`: `TypeOK` and `NoOrphanTimeout` hold.
  `TimeoutInv`: the field names the latest timeout, and no other is scheduled,
  so that the next call cancels it. `EnteringInv` only counts: the threads that
  wait for the monitor are among the calls that the bound leaves.
- `AlertsComeAfterSilence`: `Spec => AlertsOnlyAfterSilence`, because the time
  left of the scheduled timeout and the silence add up to the delay
  (`TimeoutInv`).

### The schedule (`FeedingScheduleProofs`)

Assumed: times of day within the day, and a feeder that retries no later than
it would check in anyway (10 s and 10 min: `cat_feeder.proto:17`,
`Time.java:37`). Skew, drift, the miscount of a check-in and the distance of two
feedings are arbitrary.

- `FeedingsAreServedOnce`: `Spec => NoFeedingServedTwice`, that is, for every
  skew and drift a feeding is not served twice after a meal that no power loss
  made the feeder forget, and whose report is too old by less than
  `Skew - Drift`. By `MealIsOnRecord` a meal that can still be reported is the report, where
  `since` is the time since the meal plus the error, or is what the server has,
  the meal less the error. What is ordered has a feeding to serve that comes at
  least `Skew` after what the server has (`OrderHasFeeding`), therefore
  at least `Skew - error` after the meal. The
  condition on the error can not be dropped: see above.
- `FeedingsAreMadeUpFor`: `FeedingsAreCaughtUp` holds. `CatchUpInv`: a feeding
  that is `Overdue` either seems served (`SeemsServed`: the server was told of a
  meal in time) or will be (`WillBeServed`): the last check-in was made before
  it, or failed and is tried again, or has just brought the order. A check-in that finds a feeding
  overdue is always answered with "now" (`OverdueIsOrdered`).
- `ScheduleIsTyped`: `TypeOK` holds.

That `NextFeeding`'s `CHOOSE` finds a first stop is `FirstStop`, from the least
element of a set of natural numbers.

### Numbers on the wire (`WireFormatProofs`, `InductionProofs`)

Assumed: widths that agree with 32 and 64 modulo 7, the first above 7 and less
than the second (`WidthAssumption`): a key of the message and a bool fill one
byte, of which a `uint32_t` loses nothing.

- `NumbersAreVarints`: what `Varint` writes of a number below `2^Bits64` is a
  varint, that is, it has at most as many bytes as the width needs, and bit 7
  is clear in the last byte alone.
- `VarintsRoundTrip`: `VarintValue(Varint[n]) = n` for these numbers.

Both are inductions over the number. The induction theorems of the library take
an operator, which the provers cannot instantiate; `InductionProofs` states
them for a set instead (`StrongInduction`: a set that has each number below
which it has all others is everything), with a proof that a recursive
definition over natural numbers has a function that solves it
(`RecursiveFunction`). `Varint`, `TwoTo`, `VarintValue`, `Encoded` and `BytesOf`
are each shown to be such a function before anything is said of their values.
What the answer needs of them is stated field by field: the encoding of the
first fields is a beginning of the encoding of all (`EncodedBeginsWith`), and
the next field is a key of one byte and its varint (`NumberInMessage`).

### A check-in on the wire (`CheckInExchangeProofs`)

Assumed: `ExchangeAssumption` (reports and the default delay fit into 64 bits,
the answers are sequences of fields, well-formed or not) and `WidthAssumption`.

- `ExchangeInvariant`: `ExchangeInv` holds, the inductive invariant. Its part for
  the decoder adds to the types that a varint under way is smaller than
  `2^bitpos`, and than its width allows (`VarintInWidth`): without that, adding seven more bits could exceed
  the width. Its part for the report, `Delivery`, says where the report is: in
  `requestBuffer`, then in the connection, then at the server is a beginning of
  the encoded report, and all of it from the moment that `sendRequest()` sends;
  what the server has read and what is still on its way make a beginning of it
  when the connection has broken.
- `TypeCorrect`: `TypeOK` holds, for any bytes in any pieces: the decoder's stream
  ends where its buffer does, the lists have the memory for what they hold.
- `ReportArrives`: `ASSUME ServerCharset = "ISO-8859-1"`: `ReportArrivesAsSent`
  holds. The server goes on to `handleRequest()` only when it has as many
  characters as Content-Length counts bytes; in this charset these are as many
  bytes (`Latin1IsTransparent`), so that what it handles is the whole report
  (`HeardInv`), which is parsed to the number it was made of
  (`VarintsRoundTrip`). The charset is a hypothesis because `report_distorted`
  shows the opposite for UTF-8.

- `DecoderStepKeepsDecoded`, `AnswerInvariant`, `WholeAnswerTaken`,
  `CheckInRefinement`: the answer, below.

The answer needs an invariant of its own, `AnswerInv`, because
`WholeAnswerIsTaken` speaks of the end of a check-in and nothing else. Its parts
follow the bytes:

1. `Connection`: until the server has written, nothing is under way, and
   afterwards the connection carries the header and the encoded answer only.
   `IsLeft(p)` says it by number: when `p` bytes have been taken, what has arrived
   and what is on its way make a beginning of the rest, and all of it unless
   the connection broke.
2. `HeaderTaken`: while `_processHeader()` runs, its four locals are those of a
   table (`HeaderAfter(p)`) for some number `p` of bytes taken; `RowsTaken` shows
   the table row by row from the comparisons in the code. There is no row
   between 1 and 5, since the three digits are taken in one `read()`; a `read()` that finds
   fewer leaves an `N` in the code, so that a status cut in two (`split`) is
   never taken for a 200.
3. `BodyTaken`, `ResponseTakenInv`: unless `add()` failed, the body's list is a
   beginning of the encoded answer and 16 bytes more than its length have been
   taken, so that the body starts at its first byte.
4. `Decoding`: nanopb is between two fields, or `j` bytes into the value of one,
   or done (`IsDecoded`). Then the message is what `Meaning` says of the first
   fields, with the next field's `has` set within a value, and the varint under way is the value of
   the `j` bytes. That each step keeps this is `DecoderStepKeepsDecoded`; the search
   for a field finds it from anywhere since it goes around (`IterFindAll`).
5. `Response`: what `sendRequest()` returned.

`WholeAnswerTaken` follows for any charset. `CheckInRefinement` adds
`ServerCharset = "ISO-8859-1"` and maps the steps: `HandleRequest` of a report is
`Hear` of `CheckInContract` (it heard the report, by `HeardInv`, and answers it
or dies of an exception), whatever ends
`sendRequest()` is `Respond` (`DecodedAnswer`: by the default response, or by the
first fields of the answer), `LoseBodyByte` is `RunOutOfMemory`, the rest stutters.

Both assume `AnswersAreRendered`: the answers the server may give are sequences
of fields of `EmbeddedResponse`, each a number that its type has room for. This
is what `ProtoBodyRenderer.java:12` makes, with any numbers; the theorems ask neither for
all four fields nor for an order. `AnswersOfThisServer` of `MCCheckInExchange`
satisfies it, the other answers there do not.

### Only model-checked

- Liveness (`AlwaysChecksInAgain`, `FeedNowServed`, `OutageIsAlertedAtFirst`,
  `CheckInsAreNotBlocked`, `ReportIsConsumed`, `ClickFeedsTheCat`,
  `ExchangeEnds`): out of the prover's reach.
- `WholeAnswerIsTaken` and `ImplementsCheckIn` for answers that this server does
  not give: fields of a newer server, and varints and wire types that are cut
  short, too long or unknown. The run `exchange` has some of each; a proof would
  need the invariant of the decoder for a field that is skipped, and for each
  way to fail.

Every safety property and every refinement that a passing run checks is
stated by a theorem; of some the theorem has a condition, named above.

## Not modelled, and the plan

Firmware, server state, check-ins down to their bytes, notifier and schedule
are modelled, and their safety is proved. What could be added is the decoder's
invariant for skipped and malformed fields, with which `AnswersAreRendered`
could go.

Not modelled: routing and login (`ActionDeterminer`, `MapParser`,
`PasswordStorage`) are a chain of conditions on one request without state of
their own, and a table of routes would only restate it; the modules begin with
the action that was determined. Templates (`TokenFinder`, `TemplateFiller`)
only make text. How `HttpHeader` parses its fields is left out except for the
Content-Length it finds.

Out of scope: the text of pages and logs, LEDs, PWM, build files, Twilio and
`java.util` beyond what is said above, the library directory lookup.
