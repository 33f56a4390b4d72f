--------------------------- MODULE FeedingSchedule ---------------------------
(***************************************************************************)
(* When the cat is fed: time/Time.java, and a feeder that follows it.      *)
(*                                                                         *)
(* NextFeeding is Time.getTimeOfNextFeeding(), a function of the clock,    *)
(* the schedule, the last feeding and the last change of the schedule. The *)
(* rest of the module puts it to use: a feeder that checks in, waits with  *)
(* a clock of its own that may be a little off, and feeds; a server that   *)
(* can not always be reached; a user who changes the schedule.             *)
(*                                                                         *)
(* Times are counted from a midnight in any unit; days all have the same   *)
(* length (no daylight saving). The feeder is app.cpp at the grain of that *)
(* unit: a meal and a check-in take no time; what the feeder miscounts in  *)
(* a check-in is an error of the time it reports. Feedings that a user     *)
(* asks for, and answers that are cut off, are in CatFeeder.               *)
(***************************************************************************)
EXTENDS Integers

CONSTANTS
  Day,            \* a day
  HalfCalories,   \* HALF_CALORIE_FEEDING_TIMES_MINUTES_INTO_DAY
  Remaining,      \* REMAINING_CALORIE_FEEDING_TIMES_MINUTES_INTO_DAY
  Skew,           \* MAX_PHOTON_TIME_SKEW_S
  Interval,       \* INTERVAL_BETWEEN_CHECK_INS_MS
  Retry,          \* default of delay_until_next_check_in_ms
  Drift,          \* how far off a meal may be by the feeder's clock
  Blur,           \* how much of a failed check-in the feeder may miscount
  Never,          \* null, for times
  Horizon,        \* bound on the time that passes
  MaxError,       \* bound on what the feeder miscounts of one meal
  MaxOutages,     \* bound on the outages of the network
  MaxLosses,      \* bound on the feeder's power losses
  MaxChanges      \* bound on the changes of the schedule

ASSUME DayAssumption ==
  /\ Day \in Nat \ {0}
  /\ HalfCalories \subseteq 0 .. Day - 1
  /\ Remaining \subseteq 0 .. Day - 1
ASSUME IntervalsAssumption ==
  /\ Skew \in Nat
  /\ Interval \in Nat \ {0}
  /\ Retry \in 1 .. Interval
  /\ Drift \in Nat
  /\ Blur \in Nat
ASSUME NeverAssumption == Never \notin Int
ASSUME BoundsAssumption ==
  /\ Horizon \in Nat
  /\ MaxError \in Nat
  /\ MaxOutages \in Nat
  /\ MaxLosses \in Nat
  /\ MaxChanges \in Nat

Schedules == {"NEVER_AUTO_FEED", "FEED_HALF_CALORIES", "FEED_ALL_CALORIES"}

-----------------------------------------------------------------------------
(* Time.java.                                                              *)

TimesOfDay(schedule) ==
  CASE schedule = "FEED_HALF_CALORIES" -> HalfCalories
    [] schedule = "FEED_ALL_CALORIES" -> HalfCalories \cup Remaining
    [] OTHER -> {}

MidnightThisMorning(now) == Day * (now \div Day)

\* addFeedingTimes(): the feedings of today and of tomorrow.
UpcomingFeedings(schedule, now) ==
  { MidnightThisMorning(now) + d + m : d \in {0, Day}, m \in TimesOfDay(schedule) }

\* Mutant: a feeding the device served a little early is not skipped.
Ahead_ServedOrNot(t, now, last) == t > now

\* A feeding that is still to come, and that the device did not just serve.
Ahead(t, now, last) == t > now /\ (last = Never \/ last <= t - Skew)

\* Mutant: the change of the schedule compared the other way round.
Missed_BeforeTheChange(t, now, last, change) ==
  t <= now /\ last # Never /\ change # Never /\ t < change /\ last < t - Skew

\* A feeding that should have been, after the schedule was chosen, and was not.
Missed(t, now, last, change) ==
  t <= now /\ last # Never /\ change # Never /\ change < t /\ last < t - Skew

\* getTimeOfNextFeeding(): the loop returns at the first feeding, in the order
\* of time, that is ahead (its time) or missed (now).
NextFeeding(schedule, now, last, change) ==
  LET stops == { t \in UpcomingFeedings(schedule, now) :
                   Ahead(t, now, last) \/ Missed(t, now, last, change) }
      first == CHOOSE t \in stops : \A u \in stops : t <= u
  IN  CASE stops = {}   -> Never
        [] first > now  -> first
        [] OTHER        -> now

-----------------------------------------------------------------------------
VARIABLES
  now,       \* the time
  schedule,  \* FeedingPreferences.feeding_schedule
  change,    \* last_feeding_schedule_change
  last,      \* the newest of last_ten_feeding_times
  feedIn,    \* the feeder's feeding timer, Never when it is not running
  checkIn,   \* its check-in timer
  hasFed,    \* has_fed: a meal is still to be reported
  since,     \* time_since_last_feeding_ms, as the feeder counts it
  online,    \* the network works
  up,        \* observed: for how long it has, up to LongEnough
  meal,      \* observed: when the cat was last fed
  known,     \* observed: the same, Never if the feeder could not report it
  error,     \* observed: what it counted too much since then, until it reported
  outages, losses, changes  \* counted up to their bounds

\* The time in which a feeder that was cut off checks in and hears of a meal.
LongEnough == Interval + Retry

serverVars == <<schedule, change, last>>
feederVars == <<feedIn, checkIn, hasFed, since>>
networkVars == <<online, up, outages>>
observedVars == <<meal, known, error>>
vars == <<now, serverVars, feederVars, networkVars, observedVars, losses, changes>>

Init ==
  /\ now \in 0 .. Day - 1
  /\ schedule \in Schedules
  /\ change \in (IF schedule = "NEVER_AUTO_FEED" THEN {Never, 0} ELSE {0})
  /\ last = Never
  /\ feedIn = Never
  /\ checkIn = 0
  /\ hasFed = FALSE
  /\ since = 0
  /\ online = TRUE
  /\ up = 0
  /\ meal = Never
  /\ known = Never
  /\ error = 0
  /\ outages = 0
  /\ losses = 0
  /\ changes = 0

\* loop(): a meal that is due comes first; the check-in follows at once.
Feed ==
  /\ feedIn = 0
  /\ feedIn' = Never
  /\ checkIn' = 0
  /\ hasFed' = TRUE
  /\ since' = 0
  /\ meal' = now
  /\ known' = now
  /\ error' = 0
  /\ UNCHANGED <<now, serverVars, networkVars, losses, changes>>

\* FeedingTimeUpdater: the reported feeding becomes the newest. Its time is
\* the server's clock less what the feeder counted.
Store == last' = IF hasFed THEN now - since ELSE last

\* loop() advances the time since the meal by what a check-in took, as the
\* difference of two Time.now() tells it: in whole seconds, on a clock that
\* may be set in between. (What is not counted is negative here, where the
\* check-in takes no time; the wait for the next one is longer.)
Miscount ==
  IF hasFed
  THEN \E e \in -Blur .. Blur :
         /\ since' = since + e
         /\ error' = error + e
         /\ error' \in -MaxError .. MaxError
  ELSE UNCHANGED <<since, error>>

NextForDevice == NextFeeding(schedule, now, last', change)

\* getTimeToNextFeedingMs() for a device whose clock is a little off. A delay
\* of 0 needs no clock.
DelaysUntil(next) ==
  IF next = now THEN {0} ELSE { next - now + e : e \in -Drift .. Drift } \ {0}

\* A check-in that is answered with the delay until the next feeding.
CheckIn ==
  /\ online
  /\ checkIn = 0
  /\ feedIn # 0
  /\ Store
  /\ NextForDevice # Never
  /\ \E delay \in DelaysUntil(NextForDevice) : delay >= 0 /\ feedIn' = delay
  /\ checkIn' = Interval
  /\ hasFed' = FALSE
  /\ since' = 0
  /\ UNCHANGED <<now, schedule, change, networkVars, observedVars, losses, changes>>

\* Without a next feeding the report is stored but there is no answer, and the
\* device keeps it.
CheckInUnanswered ==
  /\ online
  /\ checkIn = 0
  /\ feedIn # 0
  /\ Store
  /\ NextForDevice = Never
  /\ feedIn' = Never
  /\ checkIn' = Retry
  /\ Miscount
  /\ UNCHANGED <<now, schedule, change, hasFed, networkVars, meal, known, losses, changes>>

\* A check-in that fails: the request or its answer is lost. The default
\* response cancels the meal that was ordered.
CheckInFails ==
  /\ ~online
  /\ checkIn = 0
  /\ feedIn # 0
  /\ Store \/ UNCHANGED last
  /\ feedIn' = Never
  /\ checkIn' = Retry
  /\ Miscount
  /\ UNCHANGED <<now, schedule, change, hasFed, networkVars, meal, known, losses, changes>>

\* Mutant: time goes on although a check-in is due.
Wait_CheckInLate ==
  /\ now < Horizon
  /\ feedIn # 0
  /\ now' = now + 1
  /\ feedIn' = IF feedIn = Never THEN Never ELSE feedIn - 1
  /\ checkIn' = checkIn - 1
  /\ since' = IF hasFed THEN since + 1 ELSE since
  /\ up' = IF online /\ up < LongEnough THEN up + 1 ELSE up
  /\ UNCHANGED <<serverVars, hasFed, online, outages, observedVars, losses, changes>>

\* delayAndUpdateVariables(): time passes while the feeder waits.
Wait ==
  /\ now < Horizon
  /\ feedIn # 0
  /\ checkIn # 0
  /\ now' = now + 1
  /\ feedIn' = IF feedIn = Never THEN Never ELSE feedIn - 1
  /\ checkIn' = checkIn - 1
  /\ since' = IF hasFed THEN since + 1 ELSE since
  /\ up' = IF online /\ up < LongEnough THEN up + 1 ELSE up
  /\ UNCHANGED <<serverVars, hasFed, online, outages, observedVars, losses, changes>>

\* The feeder forgets everything, and checks in. A meal that was not reported
\* is forgotten for good.
PowerLoss ==
  /\ losses < MaxLosses
  /\ losses' = losses + 1
  /\ feedIn' = Never
  /\ checkIn' = 0
  /\ hasFed' = FALSE
  /\ since' = 0
  /\ known' = IF hasFed THEN Never ELSE known
  /\ error' = IF hasFed THEN 0 ELSE error
  /\ UNCHANGED <<now, meal, serverVars, networkVars, changes>>

Outage ==
  /\ outages < MaxOutages
  /\ online
  /\ online' = FALSE
  /\ outages' = outages + 1
  /\ UNCHANGED <<now, serverVars, feederVars, up, observedVars, losses, changes>>

BackOnline ==
  /\ ~online
  /\ online' = TRUE
  /\ up' = 0
  /\ UNCHANGED <<now, serverVars, feederVars, outages, observedVars, losses, changes>>

\* PreferencesUpdater.applyFeedingSchedule().
ChangeSchedule(s) ==
  /\ changes < MaxChanges
  /\ changes' = changes + 1
  /\ s # schedule
  /\ schedule' = s
  /\ change' = now
  /\ UNCHANGED <<now, last, feederVars, networkVars, observedVars, losses>>

Next ==
  \/ Feed \/ CheckIn \/ CheckInUnanswered \/ CheckInFails \/ Wait
  \/ PowerLoss \/ Outage \/ BackOnline
  \/ \E s \in Schedules : ChangeSchedule(s)

Spec == Init /\ [][Next]_vars

-----------------------------------------------------------------------------
(* Properties.                                                             *)

TypeOK ==
  /\ now \in Nat
  /\ schedule \in Schedules
  /\ change \in Nat \cup {Never}
  /\ last \in Int \cup {Never}
  /\ feedIn \in Nat \cup {Never}
  /\ checkIn \in 0 .. Interval
  /\ hasFed \in BOOLEAN
  /\ since \in Int
  /\ online \in BOOLEAN
  /\ up \in 0 .. LongEnough
  /\ meal \in Nat \cup {Never} /\ known \in {meal, Never}
  /\ error \in Int

\* The feedings that the server ever reckons with.
FeedingsOf(s) ==
  { d * Day + m : d \in 0 .. Horizon \div Day + 1, m \in TimesOfDay(s) }

\* A feeding is never served twice, although the device may be early, late,
\* cut off, told the same thing again or told to catch up: between a meal that
\* it did not forget to report and the next one there was a feeding to serve,
\* one that the earlier meal can not have served. So it is as long as the report
\* did not make the meal too old: by Skew - Drift, what Time.java leaves for
\* errors once the meal may be off by Drift.
NoFeedingServedTwice ==
  [][Feed /\ known # Never /\ error < Skew - Drift =>
       \E t \in FeedingsOf("FEED_ALL_CALORIES") :
         known + Drift < t /\ t - Drift <= meal']_vars

\* A feeding of today is served or made up for once the device has had the
\* time for a check-in and nothing is due at this moment, provided that the cat
\* has been fed before and the schedule has not been changed since; unless the
\* server was told of a meal in time that was earlier than that.
FeedingsAreCaughtUp ==
  \A t \in FeedingsOf(schedule) :
    /\ MidnightThisMorning(now) <= t
    /\ change < t
    /\ last # Never
    /\ now > t + Interval
    /\ online /\ up = LongEnough
    /\ feedIn # 0 /\ checkIn # 0
    => meal >= t - Skew \/ last >= t - Skew
=============================================================================
