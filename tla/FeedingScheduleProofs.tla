------------------------ MODULE FeedingScheduleProofs ------------------------
(***************************************************************************)
(* Proofs about FeedingSchedule: for every schedule, every length of the   *)
(* intervals, every drift of the feeder's clock and every error of what it *)
(* reports, no feeding is served twice unless a meal was reported as too   *)
(* old, and the feedings of today are caught up.                           *)
(***************************************************************************)
EXTENDS FeedingSchedule, InductionProofs, TLAPS

-----------------------------------------------------------------------------
(* The inductive invariants.                                               *)

\* There is a last meal where something is known of it.
Chronology ==
  /\ now <= Horizon \/ now < Day
  /\ change = Never => schedule = "NEVER_AUTO_FEED"
  /\ meal # Never => meal <= now
  /\ last # Never \/ hasFed => meal # Never

\* A meal that can still be reported is known to the server, or is the report,
\* with the error that the feeder made in counting.
MealIsOnRecord ==
  known # Never => IF hasFed THEN since = now - known + error
                             ELSE last = known - error

\* A meal that is ordered has a feeding to serve, after the last meal that the
\* server knows of; nothing is left to be reported then.
OrderHasFeeding ==
  feedIn # Never =>
    /\ ~hasFed
    /\ \E t \in FeedingsOf("FEED_ALL_CALORIES") :
         /\ last # Never => last + Skew <= t
         /\ t - Drift <= now + feedIn

ScheduleInv == TypeOK /\ Chronology /\ MealIsOnRecord /\ OrderHasFeeding

\* A feeding of today that was due, after the schedule was chosen, and for
\* which there was no meal.
Overdue(t) ==
  /\ MidnightThisMorning(now) <= t /\ t <= now
  /\ change < t
  /\ last # Never \/ hasFed
  /\ meal < t - Skew

\* The server was told of a meal that might have been the feeding.
SeemsServed(t) == last # Never /\ last >= t - Skew

\* Where a feeding is overdue the last check-in was made before it, or it failed
\* and the next follows soon, or it is made now, or the feeder has just been told.
WillBeServed(t) ==
  \/ now + checkIn <= t + Interval
  \/ checkIn <= Retry /\ (online => up + checkIn <= Retry)
  \/ checkIn = 0
  \/ feedIn = 0

CatchUpInv ==
  \A t \in FeedingsOf(schedule) : Overdue(t) => WillBeServed(t) \/ SeemsServed(t)

-----------------------------------------------------------------------------
(* Time.                                                                   *)

\* The day that a time belongs to.
LEMMA DayOfTime ==
  ASSUME NEW n \in Nat
  PROVE  /\ n \div Day \in Nat
         /\ MidnightThisMorning(n) \in Nat
         /\ MidnightThisMorning(n) <= n
         /\ n < MidnightThisMorning(n) + Day
  BY DayAssumption DEF MidnightThisMorning

\* Multiples of a day are ordered like the days.
LEMMA DaysAreOrdered ==
  ASSUME NEW a \in Nat, NEW b \in Nat
  PROVE  /\ a <= b => Day * a <= Day * b
         /\ Day * (a + 1) = Day * a + Day
         /\ Day * a = a * Day
  BY DayAssumption

LEMMA LaterTimesLaterDays ==
  ASSUME NEW m \in Nat, NEW n \in Nat, m <= n
  PROVE  m \div Day <= n \div Day
  <1> DEFINE a == m \div Day
             b == n \div Day
  <1>1. a \in Nat /\ b \in Nat /\ Day * a <= m /\ n < Day * b + Day
    BY DayOfTime DEF MidnightThisMorning
  <1> SUFFICES ASSUME a > b
               PROVE  FALSE
    BY <1>1
  <1> HIDE DEF a, b
  <1>2. Day * (b + 1) <= Day * a /\ Day * (b + 1) = Day * b + Day
    BY <1>1, DaysAreOrdered
  <1> QED  BY <1>1, <1>2, DayAssumption

LEMMA MidnightIsMonotonic ==
  ASSUME NEW m \in Nat, NEW n \in Nat, m <= n
  PROVE  MidnightThisMorning(m) <= MidnightThisMorning(n)
  BY LaterTimesLaterDays, DaysAreOrdered, DayOfTime DEF MidnightThisMorning

-----------------------------------------------------------------------------
(* The schedule.                                                           *)

LEMMA TimesAreTimes ==
  ASSUME NEW s \in Schedules
  PROVE  /\ TimesOfDay(s) \subseteq 0 .. Day - 1
         /\ TimesOfDay(s) \subseteq TimesOfDay("FEED_ALL_CALORIES")
         /\ TimesOfDay("NEVER_AUTO_FEED") = {}
  BY DayAssumption DEF TimesOfDay, Schedules

LEMMA FeedingsAreTimes ==
  ASSUME NEW s \in Schedules, NEW t \in FeedingsOf(s)
  PROVE  t \in Nat /\ TimesOfDay(s) # {}
  <1>1. PICK d \in 0 .. Horizon \div Day + 1, m \in TimesOfDay(s) : t = d * Day + m
    BY DEF FeedingsOf
  <1> QED  BY <1>1, TimesAreTimes, DayAssumption

\* What is upcoming is a feeding of the schedule.
LEMMA UpcomingAreFeedings ==
  ASSUME NEW s \in Schedules, NEW n \in Nat, n <= Horizon \/ n < Day
  PROVE  /\ UpcomingFeedings(s, n) \subseteq Nat
         /\ UpcomingFeedings(s, n) \subseteq FeedingsOf("FEED_ALL_CALORIES")
  <1> SUFFICES ASSUME NEW t \in UpcomingFeedings(s, n)
               PROVE  t \in Nat /\ t \in FeedingsOf("FEED_ALL_CALORIES")
    OBVIOUS
  <1>1. PICK d \in {0, Day}, m \in TimesOfDay(s) : t = MidnightThisMorning(n) + d + m
    BY DEF UpcomingFeedings
  <1>2. m \in 0 .. Day - 1 /\ m \in TimesOfDay("FEED_ALL_CALORIES")
    BY TimesAreTimes
  <1>3. n \div Day \in Nat /\ MidnightThisMorning(n) \in Nat
    BY DayOfTime
  <1>4. Horizon \div Day \in Nat
    BY DayOfTime, BoundsAssumption
  <1>5. n \div Day <= Horizon \div Day
    <2>1. CASE n <= Horizon
      BY <2>1, LaterTimesLaterDays, BoundsAssumption
    <2>2. CASE n < Day
      <3>1. n \div Day = 0
        BY <2>2, DayAssumption
      <3> QED  BY <3>1, <1>4
    <2> QED  BY <2>1, <2>2
  <1>6. PICK k \in 0 .. Horizon \div Day + 1 : t = k * Day + m
    <2>1. CASE d = 0
      <3>1. t = (n \div Day) * Day + m
        BY <1>1, <1>2, <1>3, <2>1, DaysAreOrdered, DayAssumption DEF MidnightThisMorning
      <3> QED  BY <3>1, <1>3, <1>4, <1>5
    <2>2. CASE d = Day
      <3> DEFINE q == n \div Day
      <3>1. t = Day * q + Day + m
        BY <1>1, <2>2 DEF MidnightThisMorning
      <3>2. (q + 1) * Day = Day * (q + 1) /\ Day * (q + 1) = Day * q + Day
        BY <1>3, DaysAreOrdered
      <3>3. t = (q + 1) * Day + m
        BY <3>1, <3>2
      <3>4. q + 1 \in 0 .. Horizon \div Day + 1
        BY <1>3, <1>4, <1>5
      <3> QED  BY <3>3, <3>4
    <2> QED  BY <2>1, <2>2
  <1>7. t \in Nat
    BY <1>1, <1>2, <1>3, DayAssumption
  <1> QED  BY <1>2, <1>6, <1>7 DEF FeedingsOf

\* A feeding of today is upcoming, or was.
LEMMA FeedingsOfToday ==
  ASSUME NEW s \in Schedules, NEW n \in Nat, NEW t \in FeedingsOf(s),
         MidnightThisMorning(n) <= t, t <= n
  PROVE  t \in UpcomingFeedings(s, n)
  <1>1. PICK k \in 0 .. Horizon \div Day + 1, m \in TimesOfDay(s) : t = k * Day + m
    BY DEF FeedingsOf
  <1>2. m \in 0 .. Day - 1 /\ Horizon \div Day \in Nat
    BY TimesAreTimes, DayOfTime, BoundsAssumption
  <1> DEFINE q == n \div Day
  <1>3. q \in Nat /\ k \in Nat /\ Day * q <= t /\ n < Day * q + Day
    BY <1>2, DayOfTime DEF MidnightThisMorning
  <1>4. MidnightThisMorning(n) = Day * q
    BY DEF MidnightThisMorning
  <1> HIDE DEF q
  <1>5. k = q
    <2>1. /\ k + 1 <= q => Day * (k + 1) <= Day * q
          /\ q + 1 <= k => Day * (q + 1) <= Day * k
          /\ Day * (k + 1) = Day * k + Day
          /\ Day * (q + 1) = Day * q + Day
          /\ Day * k = k * Day
      BY <1>3, DaysAreOrdered
    <2>2. Day * k \in Nat /\ Day * q \in Nat
      BY <1>3, DayAssumption
    <2>3. Day * k + m < Day * q + Day /\ Day * q < Day * k + Day
      BY <1>1, <1>2, <1>3, <2>1, <2>2, DayAssumption
    <2>4. ~(k + 1 <= q) /\ ~(q + 1 <= k)
      BY <1>2, <2>1, <2>2, <2>3, DayAssumption
    <2> QED  BY <1>3, <2>4
  <1>6. t = MidnightThisMorning(n) + 0 + m
    BY <1>1, <1>2, <1>3, <1>4, <1>5, DaysAreOrdered, DayAssumption
  <1> QED  BY <1>6 DEF UpcomingFeedings

\* NextFeeding is the first of the feedings at which the loop stops.
Stops(s, n, l, c) ==
  { t \in UpcomingFeedings(s, n) : Ahead(t, n, l) \/ Missed(t, n, l, c) }

LEMMA FirstStop ==
  ASSUME NEW s \in Schedules, NEW n \in Nat, n <= Horizon \/ n < Day,
         NEW l, NEW c, Stops(s, n, l, c) # {}
  PROVE  \E first \in Stops(s, n, l, c) :
           /\ \A u \in Stops(s, n, l, c) : first <= u
           /\ NextFeeding(s, n, l, c) = IF first > n THEN first ELSE n
  <1> DEFINE stops == { t \in UpcomingFeedings(s, n) : Ahead(t, n, l) \/ Missed(t, n, l, c) }
             first == CHOOSE t \in stops : \A u \in stops : t <= u
  <1>1. stops = Stops(s, n, l, c)
    BY DEF Stops
  <1>2. stops \in SUBSET Nat /\ stops # {}
    BY <1>1, UpcomingAreFeedings
  <1>3. NextFeeding(s, n, l, c) =
          CASE stops = {} -> Never [] first > n -> first [] OTHER -> n
    BY DEF NextFeeding
  <1> HIDE DEF stops
  <1>4. \E t \in stops : \A u \in stops : t <= u
    BY <1>2, LeastNumber
  <1>5. first \in stops /\ \A u \in stops : first <= u
    BY <1>4
  <1>6. NextFeeding(s, n, l, c) = IF first > n THEN first ELSE n
    BY <1>2, <1>3
  <1> QED  BY <1>1, <1>5, <1>6

\* Where there is a next feeding it is one of the schedule or makes up for one,
\* and it comes after the last one.
LEMMA NextFeedingIsDue ==
  ASSUME NEW s \in Schedules, NEW n \in Nat, n <= Horizon \/ n < Day,
         NEW l \in Int \cup {Never}, NEW c \in Nat \cup {Never},
         NextFeeding(s, n, l, c) # Never
  PROVE  /\ NextFeeding(s, n, l, c) \in Nat
         /\ NextFeeding(s, n, l, c) >= n
         /\ \E t \in FeedingsOf("FEED_ALL_CALORIES") :
              t <= NextFeeding(s, n, l, c) /\ (l # Never => l + Skew <= t)
  <1>1. Stops(s, n, l, c) # {}
    BY DEF NextFeeding, Stops
  <1>2. PICK first \in Stops(s, n, l, c) :
          NextFeeding(s, n, l, c) = IF first > n THEN first ELSE n
    BY <1>1, FirstStop
  <1>3. /\ first \in Nat
        /\ first \in FeedingsOf("FEED_ALL_CALORIES")
        /\ Ahead(first, n, l) \/ Missed(first, n, l, c)
    BY UpcomingAreFeedings DEF Stops
  <1>4. l # Never => l + Skew <= first
    BY <1>3, IntervalsAssumption, NeverAssumption DEF Ahead, Missed
  <1> QED  BY <1>2, <1>3, <1>4

\* What was missed is made up for now.
LEMMA MissedIsServedNow ==
  ASSUME NEW s \in Schedules, NEW n \in Nat, n <= Horizon \/ n < Day,
         NEW l \in Int \cup {Never}, NEW c \in Nat \cup {Never},
         NEW t \in UpcomingFeedings(s, n), Missed(t, n, l, c)
  PROVE  NextFeeding(s, n, l, c) = n
  <1>1. t \in Stops(s, n, l, c)
    BY DEF Stops
  <1>2. PICK first \in Stops(s, n, l, c) :
          /\ \A u \in Stops(s, n, l, c) : first <= u
          /\ NextFeeding(s, n, l, c) = IF first > n THEN first ELSE n
    BY <1>1, FirstStop
  <1>3. first \in Nat /\ t \in Nat /\ first <= t /\ t <= n
    BY <1>1, <1>2, UpcomingAreFeedings DEF Stops, Missed
  <1> QED  BY <1>2, <1>3

-----------------------------------------------------------------------------
(* No feeding is served twice.                                             *)

LEMMA ScheduleInitInv == Init => ScheduleInv
  <1> SUFFICES ASSUME Init
               PROVE  ScheduleInv
    OBVIOUS
  <1>1. TypeOK
    <2>1. now \in Nat /\ schedule \in Schedules /\ change \in Nat \cup {Never}
      BY DayAssumption DEF Init
    <2>2. checkIn \in 0 .. Interval /\ up \in 0 .. LongEnough
      BY IntervalsAssumption DEF Init, LongEnough
    <2>3. /\ last \in Int \cup {Never} /\ feedIn \in Nat \cup {Never}
          /\ meal \in Nat \cup {Never} /\ known \in {meal, Never}
      BY DEF Init
    <2>4. hasFed \in BOOLEAN /\ online \in BOOLEAN
      BY Zenon DEF Init
    <2>5. since \in Int /\ error \in Int
      BY DEF Init
    <2> QED  BY <2>1, <2>2, <2>3, <2>4, <2>5 DEF TypeOK
  <1>2. Chronology
    BY DayAssumption, NeverAssumption DEF Init, Chronology
  <1> QED  BY <1>1, <1>2 DEF Init, ScheduleInv, MealIsOnRecord, OrderHasFeeding

\* The new value of last, where a check-in reaches the server.
LEMMA StoredFeeding ==
  ASSUME ScheduleInv, Store
  PROVE  /\ last' \in Int \cup {Never}
         /\ last' # Never => meal # Never
         /\ known # Never => last' = known - error
         /\ last # Never \/ hasFed => last' # Never
  <1> USE NeverAssumption DEF Store, ScheduleInv, TypeOK, Chronology, MealIsOnRecord
  <1>1. CASE hasFed
    <2>1. last' = now - since /\ last' \in Int
      BY <1>1
    <2>2. known # Never => known \in Nat
      OBVIOUS
    <2>3. known # Never => now - since = known - error
      BY <1>1, <2>2
    <2> QED  BY <1>1, <2>1, <2>3
  <1>2. CASE ~hasFed
    BY <1>2
  <1> QED  BY <1>1, <1>2

LEMMA FeedKeepsInv == ScheduleInv /\ Feed => ScheduleInv'
  <1> SUFFICES ASSUME ScheduleInv, Feed
               PROVE  ScheduleInv'
    OBVIOUS
  <1> USE NeverAssumption DEF ScheduleInv, Feed, serverVars, networkVars
  <1>1. TypeOK'
    BY IntervalsAssumption DEF TypeOK, LongEnough
  <1>2. Chronology'
    BY DEF Chronology, TypeOK
  <1>3. MealIsOnRecord'
    BY DEF MealIsOnRecord, TypeOK
  <1> QED  BY <1>1, <1>2, <1>3 DEF OrderHasFeeding

\* The feeder's clock brings a meal forward by no more than the drift.
LEMMA DelaysAreNear ==
  ASSUME NEW next \in Nat, now \in Nat,
         NEW delay \in DelaysUntil(next), delay >= 0,
         NEW t \in Nat, t <= next
  PROVE  delay \in Nat /\ t - Drift <= now + delay
  BY IntervalsAssumption DEF DelaysUntil

LEMMA CheckInKeepsInv == ScheduleInv /\ CheckIn => ScheduleInv'
  <1> SUFFICES ASSUME ScheduleInv, CheckIn
               PROVE  ScheduleInv'
    OBVIOUS
  <1>1. Store /\ NextForDevice # Never /\ ~hasFed' /\ since' = 0 /\ checkIn' = Interval
    BY DEF CheckIn
  <1>2. UNCHANGED <<now, schedule, change, online, up, outages, meal, known, error>>
    BY DEF CheckIn, networkVars, observedVars
  <1>3. feedIn' \in DelaysUntil(NextForDevice) /\ feedIn' >= 0
    BY DEF CheckIn
  <1>4. /\ NextForDevice \in Nat
        /\ NextForDevice >= now
        /\ \E t \in FeedingsOf("FEED_ALL_CALORIES") :
             t <= NextForDevice /\ (last' # Never => last' + Skew <= t)
    BY <1>1, StoredFeeding, NextFeedingIsDue
       DEF NextForDevice, ScheduleInv, TypeOK, Chronology
  <1>5. feedIn' \in Nat /\ \A t \in Nat : t <= NextForDevice => t - Drift <= now + feedIn'
    BY <1>3, <1>4, DelaysAreNear DEF ScheduleInv, TypeOK
  <1>6. TypeOK'
    <2>1. hasFed' \in BOOLEAN
      BY DEF CheckIn
    <2>2. checkIn' \in 0 .. Interval /\ since' \in Int
      BY <1>1, IntervalsAssumption
    <2>3. last' \in Int \cup {Never}
      BY <1>1, StoredFeeding
    <2> QED  BY <1>2, <1>5, <2>1, <2>2, <2>3 DEF ScheduleInv, TypeOK, LongEnough
  <1>7. Chronology'
    BY <1>1, <1>2, StoredFeeding DEF ScheduleInv, Chronology
  <1>8. MealIsOnRecord'
    BY <1>1, <1>2, StoredFeeding DEF MealIsOnRecord
  <1>9. OrderHasFeeding'
    <2>1. PICK t \in FeedingsOf("FEED_ALL_CALORIES") :
            t <= NextForDevice /\ (last' # Never => last' + Skew <= t)
      BY <1>4
    <2>2. t \in Nat
      <3>1. PICK d \in 0 .. Horizon \div Day + 1, m \in TimesOfDay("FEED_ALL_CALORIES") :
              t = d * Day + m
        BY DEF FeedingsOf
      <3> QED  BY <3>1, TimesAreTimes, DayAssumption DEF Schedules
    <2>3. t - Drift <= now' + feedIn'
      BY <1>2, <1>5, <2>1, <2>2
    <2> QED  BY <1>1, <2>1, <2>3 DEF OrderHasFeeding
  <1> QED  BY <1>6, <1>7, <1>8, <1>9 DEF ScheduleInv

\* A check-in without a meal to come leaves the report with the feeder.
LEMMA NoAnswerKeepsInv ==
  ScheduleInv /\ (CheckInUnanswered \/ CheckInFails) => ScheduleInv'
  <1> SUFFICES ASSUME ScheduleInv, CheckInUnanswered \/ CheckInFails
               PROVE  ScheduleInv'
    OBVIOUS
  <1>1. /\ Store \/ last' = last
        /\ feedIn' = Never /\ checkIn' = Retry
        /\ Miscount
        /\ UNCHANGED <<now, schedule, change, hasFed, online, up, outages, meal, known>>
    BY DEF CheckInUnanswered, CheckInFails, networkVars
  <1>2. /\ last' \in Int \cup {Never}
        /\ last' # Never => meal # Never
        /\ ~hasFed => last' = last
    BY <1>1, StoredFeeding DEF ScheduleInv, TypeOK, Chronology, Store
  <1>3. /\ since' \in Int /\ error' \in Int
        /\ hasFed => \E e \in Int : since' = since + e /\ error' = error + e
        /\ ~hasFed => since' = since /\ error' = error
    <2>1. since \in Int /\ error \in Int /\ Blur \in Nat
      BY IntervalsAssumption DEF ScheduleInv, TypeOK
    <2>2. CASE hasFed
      <3>1. PICK e \in -Blur .. Blur : since' = since + e /\ error' = error + e
        BY <1>1, <2>2 DEF Miscount
      <3> QED  BY <2>1, <2>2, <3>1
    <2>3. CASE ~hasFed
      BY <1>1, <2>1, <2>3 DEF Miscount
    <2> QED  BY <2>2, <2>3
  <1>4. TypeOK'
    BY <1>1, <1>2, <1>3, IntervalsAssumption DEF ScheduleInv, TypeOK
  <1>5. Chronology'
    BY <1>1, <1>2 DEF ScheduleInv, Chronology
  <1>6. MealIsOnRecord'
    <2> SUFFICES ASSUME known # Never
                 PROVE  IF hasFed THEN since' = now - known + error'
                                  ELSE last' = known - error'
      BY <1>1 DEF MealIsOnRecord
    <2>1. known \in Nat /\ now \in Nat /\ since \in Int /\ error \in Int
      BY DEF ScheduleInv, TypeOK
    <2>2. IF hasFed THEN since = now - known + error ELSE last = known - error
      BY DEF ScheduleInv, MealIsOnRecord
    <2>3. CASE hasFed
      <3>1. since = now - known + error
        BY <2>2, <2>3
      <3>2. PICK e \in Int : since' = since + e /\ error' = error + e
        BY <1>3, <2>3
      <3>3. since' = now - known + error'
        BY <2>1, <3>1, <3>2
      <3> QED  BY <2>3, <3>3
    <2>4. CASE ~hasFed
      BY <1>2, <1>3, <2>2, <2>4
    <2> QED  BY <2>3, <2>4
  <1>7. OrderHasFeeding'
    BY <1>1 DEF OrderHasFeeding
  <1> QED  BY <1>4, <1>5, <1>6, <1>7 DEF ScheduleInv

LEMMA WaitKeepsInv == ScheduleInv /\ Wait => ScheduleInv'
  <1> SUFFICES ASSUME ScheduleInv, Wait
               PROVE  ScheduleInv'
    OBVIOUS
  <1> USE DEF ScheduleInv
  <1>1. /\ now < Horizon /\ feedIn # 0 /\ checkIn # 0
        /\ now' = now + 1
        /\ feedIn' = IF feedIn = Never THEN Never ELSE feedIn - 1
        /\ checkIn' = checkIn - 1
        /\ up' = IF online /\ up < LongEnough THEN up + 1 ELSE up
        /\ since' = IF hasFed THEN since + 1 ELSE since
        /\ UNCHANGED <<schedule, change, last, hasFed, online, outages, meal, known, error>>
    BY DEF Wait, serverVars, observedVars
  <1>2. TypeOK'
    <2>1. /\ now \in Nat /\ feedIn \in Nat \cup {Never} /\ checkIn \in 0 .. Interval
          /\ up \in 0 .. LongEnough /\ LongEnough \in Nat /\ since \in Int
      BY IntervalsAssumption DEF TypeOK, LongEnough
    <2>2. now' \in Nat /\ since' \in Int
      BY <1>1, <2>1
    <2>3. feedIn' \in Nat \cup {Never}
      BY <1>1, <2>1
    <2>4. checkIn' \in 0 .. Interval
      BY <1>1, <2>1, IntervalsAssumption
    <2>5. up' \in 0 .. LongEnough
      BY <1>1, <2>1
    <2> QED  BY <1>1, <2>2, <2>3, <2>4, <2>5 DEF TypeOK, LongEnough
  <1>3. Chronology'
    BY <1>1, BoundsAssumption DEF TypeOK, Chronology
  <1>4. MealIsOnRecord'
    BY <1>1 DEF TypeOK, MealIsOnRecord
  <1>5. feedIn' # Never => feedIn # Never /\ now' + feedIn' = now + feedIn
    BY <1>1 DEF TypeOK
  <1>6. OrderHasFeeding'
    BY <1>1, <1>5 DEF OrderHasFeeding
  <1> QED  BY <1>2, <1>3, <1>4, <1>6

LEMMA PowerLossKeepsInv == ScheduleInv /\ PowerLoss => ScheduleInv'
  <1> SUFFICES ASSUME ScheduleInv, PowerLoss
               PROVE  ScheduleInv'
    OBVIOUS
  <1> USE DEF ScheduleInv, PowerLoss, serverVars, networkVars
  <1>1. TypeOK'
    <2>1. UNCHANGED <<now, schedule, change, last, online, up, meal>>
      OBVIOUS
    <2>2. known' \in {meal, Never} /\ error' \in Int
      BY DEF TypeOK
    <2>3. checkIn' \in 0 .. Interval
      BY IntervalsAssumption
    <2>4. hasFed' \in BOOLEAN /\ feedIn' = Never /\ since' = 0
      OBVIOUS
    <2> QED  BY <2>1, <2>2, <2>3, <2>4 DEF TypeOK, LongEnough
  <1>2. Chronology'
    BY DEF Chronology, TypeOK
  <1>3. MealIsOnRecord' /\ OrderHasFeeding'
    BY DEF MealIsOnRecord, OrderHasFeeding
  <1> QED  BY <1>1, <1>2, <1>3

LEMMA RestKeepsInv ==
  /\ ScheduleInv
  /\ \/ Outage \/ BackOnline \/ UNCHANGED vars
     \/ \E s \in Schedules : ChangeSchedule(s)
  => ScheduleInv'
  <1> SUFFICES ASSUME ScheduleInv,
                      \/ Outage \/ BackOnline \/ UNCHANGED vars
                      \/ \E s \in Schedules : ChangeSchedule(s)
               PROVE  ScheduleInv'
    OBVIOUS
  <1> USE DEF ScheduleInv
  <1>1. UNCHANGED <<now, last, feedIn, checkIn, hasFed, since, meal, known, error>>
    BY DEF Outage, BackOnline, ChangeSchedule, vars, serverVars, feederVars,
           networkVars, observedVars
  <1>2. /\ schedule' \in Schedules /\ change' \in Nat \cup {Never}
        /\ change' = Never => schedule' = "NEVER_AUTO_FEED"
    BY NeverAssumption
       DEF Outage, BackOnline, ChangeSchedule, vars, serverVars, TypeOK, Chronology
  <1>3. online' \in BOOLEAN /\ up' \in 0 .. LongEnough
    <2>1. online' \in {TRUE, FALSE, online} /\ up' \in {0, up}
      BY DEF Outage, BackOnline, ChangeSchedule, vars, networkVars
    <2>2. 0 \in 0 .. LongEnough
      BY IntervalsAssumption DEF LongEnough
    <2> QED  BY <2>1, <2>2 DEF TypeOK
  <1>4. TypeOK'
    BY <1>1, <1>2, <1>3 DEF TypeOK
  <1>5. Chronology' /\ MealIsOnRecord' /\ OrderHasFeeding'
    BY <1>1, <1>2 DEF Chronology, MealIsOnRecord, OrderHasFeeding
  <1> QED  BY <1>4, <1>5

LEMMA ScheduleInvStep == ScheduleInv /\ [Next]_vars => ScheduleInv'
  <1> SUFFICES ASSUME ScheduleInv, [Next]_vars
               PROVE  ScheduleInv'
    OBVIOUS
  <1>1. CASE Feed
    BY <1>1, FeedKeepsInv
  <1>2. CASE CheckIn
    BY <1>2, CheckInKeepsInv
  <1>3. CASE CheckInUnanswered \/ CheckInFails
    BY <1>3, NoAnswerKeepsInv
  <1>4. CASE Wait
    BY <1>4, WaitKeepsInv
  <1>5. CASE PowerLoss
    BY <1>5, PowerLossKeepsInv
  <1>6. CASE \/ Outage \/ BackOnline \/ UNCHANGED vars
             \/ \E s \in Schedules : ChangeSchedule(s)
    BY <1>6, RestKeepsInv
  <1> QED  BY <1>1, <1>2, <1>3, <1>4, <1>5, <1>6 DEF Next

LEMMA ScheduleInvHolds == Spec => []ScheduleInv
  BY ScheduleInitInv, ScheduleInvStep, PTL DEF Spec

\* The variables of the server, the feeder and the network keep their types;
\* both timers of the feeder stay within the delays that set them.
THEOREM ScheduleIsTyped == Spec => []TypeOK
  <1>1. ScheduleInv => TypeOK
    BY DEF ScheduleInv
  <1> QED  BY <1>1, ScheduleInvHolds, PTL

\* A feeding is never served twice, whatever the schedule, the skew that
\* Time.java allows and the drift of the feeder's clock are, and however often
\* the network or the power fails, as long as the time that the feeder counts
\* between a meal and its report is off by less than the skew leaves: each meal
\* then serves a feeding that came too late for the meal before.
THEOREM FeedingsAreServedOnce == Spec => NoFeedingServedTwice
  <1> DEFINE Due ==
        \E t \in FeedingsOf("FEED_ALL_CALORIES") : known + Drift < t /\ t - Drift <= meal'
  <1>1. ScheduleInv /\ [Next]_vars => [Feed /\ known # Never /\ error < Skew - Drift => Due]_vars
    <2> SUFFICES ASSUME ScheduleInv, Feed, known # Never, error < Skew - Drift
                 PROVE  Due
      BY DEF vars, serverVars, feederVars, networkVars, observedVars
    <2>1. feedIn = 0 /\ feedIn # Never /\ meal' = now
      BY NeverAssumption DEF Feed
    <2>2. /\ now \in Nat /\ known \in Nat /\ error \in Int
          /\ Skew \in Nat /\ Drift \in Nat
      BY IntervalsAssumption DEF ScheduleInv, TypeOK
    <2>3. last = known - error /\ last # Never
      BY <2>1, <2>2, NeverAssumption DEF ScheduleInv, OrderHasFeeding, MealIsOnRecord
    <2>4. PICK t \in FeedingsOf("FEED_ALL_CALORIES") :
            last + Skew <= t /\ t - Drift <= now + feedIn
      BY <2>1, <2>3 DEF ScheduleInv, OrderHasFeeding
    <2>5. t \in Nat
      BY FeedingsAreTimes DEF Schedules
    <2>6. known + Drift < t /\ t - Drift <= meal'
      BY <2>1, <2>2, <2>3, <2>4, <2>5
    <2> QED  BY <2>6
  <1> QED  BY <1>1, ScheduleInvHolds, PTL DEF Spec, NoFeedingServedTwice

-----------------------------------------------------------------------------
(* The feedings of today are caught up.                                    *)

LEMMA CatchUpInit == Init => CatchUpInv
  BY DEF Init, CatchUpInv, Overdue

\* A check-in that reaches the server when a feeding is overdue is answered
\* with an order to feed now.
LEMMA OverdueIsOrdered ==
  ASSUME ScheduleInv, Store, NEW t \in FeedingsOf(schedule), Overdue(t),
         ~SeemsServed(t)'
  PROVE  NextForDevice = now
  <1>1. /\ schedule \in Schedules /\ now \in Nat /\ meal \in Nat \cup {Never}
        /\ now <= Horizon \/ now < Day
        /\ change \in Nat \cup {Never}
    BY DEF ScheduleInv, TypeOK, Chronology
  <1>2. t \in Nat /\ change # Never
    BY <1>1, FeedingsAreTimes, TimesAreTimes DEF ScheduleInv, Chronology
  <1>3. t \in UpcomingFeedings(schedule, now)
    BY <1>1, FeedingsOfToday DEF Overdue
  <1>4. last' \in Int /\ last' # Never
    BY StoredFeeding DEF Overdue
  <1>5. last' < t - Skew
    BY <1>2, <1>4, IntervalsAssumption DEF SeemsServed
  <1>6. Missed(t, now, last', change)
    BY <1>2, <1>4, <1>5 DEF Missed, Overdue
  <1> QED  BY <1>1, <1>3, <1>4, <1>6, MissedIsServedNow DEF NextForDevice

\* As long as the feedings and what is known of them stay the same.
LEMMA StillOverdue ==
  ASSUME UNCHANGED <<now, schedule, change, meal>>,
         last' # Never \/ hasFed' => last # Never \/ hasFed,
         NEW t \in FeedingsOf(schedule)'
  PROVE  t \in FeedingsOf(schedule) /\ (Overdue(t)' => Overdue(t))
  BY DEF FeedingsOf, TimesOfDay, Overdue, MidnightThisMorning

LEMMA CatchUpStep == ScheduleInv /\ CatchUpInv /\ [Next]_vars => CatchUpInv'
  <1> SUFFICES ASSUME ScheduleInv, CatchUpInv, [Next]_vars,
                      NEW t \in FeedingsOf(schedule'), Overdue(t)'
               PROVE  WillBeServed(t)' \/ SeemsServed(t)'
    BY DEF CatchUpInv, FeedingsOf
  <1>1. /\ now \in Nat /\ up \in Nat /\ checkIn \in Nat /\ checkIn <= Interval
        /\ Interval \in Nat /\ Retry \in Nat /\ Retry <= Interval /\ Skew \in Nat
        /\ schedule \in Schedules /\ online \in BOOLEAN
        /\ LongEnough \in Nat
    BY IntervalsAssumption DEF ScheduleInv, TypeOK, LongEnough
  <1>2. CASE Feed
    <2>1. meal' = now /\ now' = now
      BY <1>2 DEF Feed
    <2>2. t <= now /\ now < t - Skew /\ t \in Nat
      BY <1>1, <1>2, <2>1, FeedingsAreTimes DEF Overdue, Feed, serverVars
    <2> QED  BY <1>1, <2>2
  <1>3. ASSUME UNCHANGED <<now, schedule, change, meal>>,
               last' # Never \/ hasFed' => last # Never \/ hasFed
        PROVE  /\ t \in FeedingsOf(schedule) /\ Overdue(t) /\ t \in Nat
               /\ WillBeServed(t) \/ SeemsServed(t)
    <2>1. t \in FeedingsOf(schedule) /\ Overdue(t)
      BY <1>3, StillOverdue
    <2> QED  BY <1>1, <2>1, FeedingsAreTimes DEF CatchUpInv
  <1>4. CASE CheckIn
    <2>1. /\ Store /\ feedIn' \in DelaysUntil(NextForDevice)
          /\ UNCHANGED <<now, schedule, change, meal>>
      BY <1>4 DEF CheckIn, observedVars
    <2>2. Overdue(t) /\ t \in FeedingsOf(schedule)
      BY <1>3, <2>1, <1>4 DEF Store, CheckIn
    <2>3. ~SeemsServed(t)' => feedIn' = 0
      BY <2>1, <2>2, OverdueIsOrdered DEF DelaysUntil
    <2> QED  BY <2>3 DEF WillBeServed
  <1>5. CASE CheckInUnanswered
    <2>1. /\ Store /\ NextForDevice = Never
          /\ UNCHANGED <<now, schedule, change, meal, hasFed>>
      BY <1>5 DEF CheckInUnanswered
    <2>2. Overdue(t) /\ t \in FeedingsOf(schedule)
      BY <1>3, <2>1 DEF Store
    <2> QED  BY <1>1, <2>1, <2>2, OverdueIsOrdered, NeverAssumption
  <1>6. CASE CheckInFails
    BY <1>1, <1>6 DEF CheckInFails, WillBeServed, networkVars
  <1>7. CASE Wait
    <2>1. /\ feedIn # 0 /\ checkIn # 0
          /\ now' = now + 1 /\ checkIn' = checkIn - 1
          /\ up' = IF online /\ up < LongEnough THEN up + 1 ELSE up
          /\ UNCHANGED <<schedule, change, last, hasFed, online, meal>>
      BY <1>7 DEF Wait, serverVars, observedVars
    <2>2. t \in FeedingsOf(schedule) /\ t \in Nat
      BY <1>1, <2>1, FeedingsAreTimes
    <2>3. CASE t = now + 1
      BY <1>1, <2>1, <2>2, <2>3 DEF WillBeServed
    <2>4. CASE t <= now
      <3>1. MidnightThisMorning(now) <= MidnightThisMorning(now')
        BY <1>1, <2>1, MidnightIsMonotonic
      <3>2. /\ MidnightThisMorning(now) \in Nat /\ MidnightThisMorning(now') \in Nat
            /\ MidnightThisMorning(now') <= t
        BY <1>1, <2>1, DayOfTime DEF Overdue, MidnightThisMorning
      <3>3. Overdue(t)
        BY <2>1, <2>2, <2>4, <3>1, <3>2 DEF Overdue
      <3>4. \/ now + checkIn <= t + Interval
            \/ checkIn <= Retry /\ (online => up + checkIn <= Retry)
            \/ SeemsServed(t)
        BY <2>1, <2>2, <3>3 DEF CatchUpInv, WillBeServed
      <3> QED  BY <1>1, <2>1, <2>2, <3>4 DEF WillBeServed, SeemsServed
    <2> QED  BY <1>1, <2>1, <2>2, <2>3, <2>4 DEF Overdue
  <1>8. CASE PowerLoss
    BY <1>8 DEF PowerLoss, WillBeServed
  <1>9. CASE Outage
    <2>1. /\ online' = FALSE
          /\ UNCHANGED <<now, schedule, change, last, hasFed, meal, up, feedIn, checkIn>>
      BY <1>9 DEF Outage, serverVars, feederVars, observedVars
    <2>2. WillBeServed(t) \/ SeemsServed(t)
      BY <1>3, <2>1
    <2> QED  BY <2>1, <2>2 DEF WillBeServed, SeemsServed
  <1>10. CASE BackOnline
    <2>1. /\ up' = 0 /\ ~online
          /\ UNCHANGED <<now, schedule, change, last, hasFed, meal, feedIn, checkIn>>
      BY <1>10 DEF BackOnline, serverVars, feederVars, observedVars
    <2>2. WillBeServed(t) \/ SeemsServed(t)
      BY <1>3, <2>1
    <2> QED  BY <1>1, <2>1, <2>2 DEF WillBeServed, SeemsServed
  <1>11. ASSUME NEW s \in Schedules, ChangeSchedule(s)
         PROVE  FALSE
    <2>1. change' = now /\ now' = now /\ schedule' = s
      BY <1>11 DEF ChangeSchedule
    <2>2. t \in Nat /\ t <= now /\ now < t
      BY <1>11, <2>1, FeedingsAreTimes DEF Overdue
    <2> QED  BY <1>1, <2>2
  <1>12. CASE UNCHANGED vars
    <2>1. UNCHANGED <<now, schedule, change, last, hasFed, meal, feedIn, checkIn, online, up>>
      BY <1>12 DEF vars, serverVars, feederVars, networkVars, observedVars
    <2>2. WillBeServed(t) \/ SeemsServed(t)
      BY <1>3, <2>1
    <2> QED  BY <2>1, <2>2 DEF WillBeServed, SeemsServed
  <1> QED
    BY <1>2, <1>4, <1>5, <1>6, <1>7, <1>8, <1>9, <1>10, <1>11, <1>12 DEF Next

\* A feeding of today is served or made up for: once an interval has passed, and
\* the feeder has been online for long enough to check in, a feeding after the
\* last change of the schedule has had its meal, or the server was told that it
\* had. For every schedule, drift and error, whatever outages, power losses and
\* changes there were before.
THEOREM FeedingsAreMadeUpFor == Spec => []FeedingsAreCaughtUp
  <1>1. ScheduleInv /\ CatchUpInv => FeedingsAreCaughtUp
    <2> SUFFICES ASSUME ScheduleInv, CatchUpInv, NEW t \in FeedingsOf(schedule),
                        MidnightThisMorning(now) <= t, change < t, last # Never,
                        now > t + Interval, online, up = LongEnough,
                        feedIn # 0, checkIn # 0
                 PROVE  meal >= t - Skew \/ last >= t - Skew
      BY DEF FeedingsAreCaughtUp
    <2>1. /\ now \in Nat /\ checkIn \in Nat /\ meal \in Nat /\ t \in Nat
          /\ Interval \in Nat /\ Retry \in Nat /\ Skew \in Nat /\ up > Retry /\ up \in Nat
      BY IntervalsAssumption, FeedingsAreTimes DEF ScheduleInv, TypeOK, Chronology, LongEnough
    <2>2. ~WillBeServed(t)
      BY <2>1 DEF WillBeServed
    <2>3. ~Overdue(t) \/ SeemsServed(t)
      BY <2>2 DEF CatchUpInv
    <2> QED  BY <2>1, <2>3 DEF Overdue, SeemsServed
  <1>2. ScheduleInv /\ CatchUpInv /\ [Next]_vars => CatchUpInv'
    BY CatchUpStep
  <1> QED  BY <1>1, <1>2, CatchUpInit, ScheduleInvHolds, PTL DEF Spec
=============================================================================
