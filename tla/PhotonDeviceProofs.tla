------------------------- MODULE PhotonDeviceProofs -------------------------
(***************************************************************************)
(* Proofs about the firmware, for every value of the constants that meets  *)
(* the assumptions of PhotonDevice: any set of delays and of meal sizes,   *)
(* any duration of a check-in, any jump of the clock, any word size.       *)
(***************************************************************************)
EXTENDS PhotonDevice, TLAPS

-----------------------------------------------------------------------------
(* What the functions on the globals return.                               *)

\* Monus stays in the range of a timer.
LEMMA MonusType ==
  ASSUME NEW a \in Time, NEW b \in Nat
  PROVE  Monus(a, b) \in Time
BY DelaysAssumption DEF Monus, Time

\* updateVariables() returns globals of the right types, leaves scoops_to_feed
\* and has_fed alone, and keeps an ordered meal ordered.
LEMMA UpdateVariablesEffect ==
  ASSUME NEW w \in Ram, NEW ms \in Time
  PROVE  /\ UpdateVariables(w, ms) \in Ram
         /\ UpdateVariables(w, ms).scoops_to_feed = w.scoops_to_feed
         /\ UpdateVariables(w, ms).has_fed = w.has_fed
         /\ UpdateVariables(w, ms).feed_now
              <=> w.feed_now \/ w.delay_before_next_feeding_ms \in 1 .. ms
         /\ UpdateVariables(w, ms).delay_before_next_feeding_ms
              = Monus(w.delay_before_next_feeding_ms, ms)
         /\ \/ UpdateVariables(w, ms).check_in_now
            \/ UpdateVariables(w, ms).delay_before_next_check_in_ms > 0
<1> DEFINE u == UpdateVariables(w, ms)
           f == w.feed_now \/ w.delay_before_next_feeding_ms \in 1 .. ms
           c == w.check_in_now \/ w.delay_before_next_check_in_ms <= ms
           d == Monus(w.delay_before_next_feeding_ms, ms)
           e == Monus(w.delay_before_next_check_in_ms, ms)
           t == IF w.has_fed THEN (w.time_since_last_feeding_ms + ms) % U64
                ELSE w.time_since_last_feeding_ms
<1>1. u = [w EXCEPT !.delay_before_next_feeding_ms = d, !.feed_now = f,
                    !.delay_before_next_check_in_ms = e, !.check_in_now = c,
                    !.time_since_last_feeding_ms = t]
  BY DEF UpdateVariables, Ram
<1>2. d \in Time /\ e \in Time
  BY MonusType DEF Ram, Time
<1>3. t \in Time
  BY DelaysAssumption DEF Ram, Time
<1>4. f \in BOOLEAN /\ c \in BOOLEAN
  BY DEF Ram
<1>5. c \/ e > 0
  BY DEF Ram, Time, Monus
<1> HIDE DEF u, f, c, d, e, t
<1>6. u \in Ram
  BY <1>1, <1>2, <1>3, <1>4 DEF Ram
<1>7. /\ u.scoops_to_feed = w.scoops_to_feed
      /\ u.has_fed = w.has_fed
      /\ u.feed_now = f
      /\ u.delay_before_next_feeding_ms = d
      /\ u.check_in_now = c
      /\ u.delay_before_next_check_in_ms = e
  BY <1>1 DEF Ram
<1> QED
  BY <1>5, <1>6, <1>7 DEF u, f, d

\* The fields of a response, decoded or default.
LEMMA ResponseType ==
  ASSUME NEW r \in Response \cup {DefaultResponse}
  PROVE  /\ r.check_in \in Time
         /\ r.feeding \in Time
         /\ r.scoops \in ScoopCounts \cup {0}
         /\ r.has_feeding \in BOOLEAN
         /\ r.consumed \in BOOLEAN
         /\ r.has_feeding \/ r.feeding = 0
<1>1. Delays \cup {DefaultCheckInMs, 0} \subseteq Time
  BY DelaysAssumption DEF Time
<1>2. CASE r \in Response
  BY <1>1, <1>2 DEF Response
<1>3. CASE r = DefaultResponse
  BY <1>1, <1>3 DEF DefaultResponse
<1> QED
  BY <1>2, <1>3

\* check_in() returns globals of the right types; a meal is ordered exactly
\* when the response holds a delay, and then the size is an allowed one.
LEMMA CheckInEffect ==
  ASSUME NEW w \in Ram, ~w.feed_now, NEW r \in Response \cup {DefaultResponse}
  PROVE  /\ CheckIn(w, r) \in Ram
         /\ CheckIn(w, r).scoops_to_feed = AtLeast(r.scoops, MinimumScoops)
         /\ CheckIn(w, r).has_fed <=> w.has_fed /\ ~r.consumed
         /\ CheckIn(w, r).feed_now <=> r.has_feeding /\ r.feeding = 0
         /\ CheckIn(w, r).delay_before_next_feeding_ms = r.feeding
<1> DEFINE u == CheckIn(w, r)
           c == w.check_in_now \/ r.check_in = 0
           f == r.has_feeding /\ (w.feed_now \/ r.feeding = 0)
           d == IF r.has_feeding THEN r.feeding ELSE 0
           t == IF r.consumed THEN 0 ELSE w.time_since_last_feeding_ms
           h == w.has_fed /\ ~r.consumed
           n == AtLeast(r.scoops, MinimumScoops)
<1>1. u = [w EXCEPT !.scoops_to_feed = n,
                    !.delay_before_next_check_in_ms = r.check_in,
                    !.check_in_now = c,
                    !.delay_before_next_feeding_ms = d,
                    !.feed_now = f,
                    !.time_since_last_feeding_ms = t,
                    !.has_fed = h]
  BY DEF CheckIn, Ram
<1>2. /\ r.check_in \in Time
      /\ r.feeding \in Time
      /\ r.scoops \in Nat
      /\ r.has_feeding \in BOOLEAN
      /\ r.consumed \in BOOLEAN
      /\ r.has_feeding \/ r.feeding = 0
  <2>1. r.scoops \in ScoopCounts \cup {0}
    BY ResponseType
  <2>2. ScoopCounts \cup {0} \subseteq Nat
    BY CountsAssumption
  <2>3. r.scoops \in Nat
    BY <2>1, <2>2, Zenon
  <2> QED
    BY <2>3, ResponseType
<1>3. /\ d \in Time
      /\ d = r.feeding
      /\ t \in Time
      /\ n \in Nat
  <2>1. 0 \in Time
    BY DelaysAssumption DEF Time
  <2>2. d = r.feeding
    BY <1>2
  <2>3. t \in Time
    BY <1>2, <2>1 DEF Ram
  <2>4. n \in Nat
    BY <1>2, CountsAssumption DEF AtLeast
  <2> QED
    BY <1>2, <2>2, <2>3, <2>4
<1>4. f \in BOOLEAN /\ c \in BOOLEAN /\ h \in BOOLEAN
  BY <1>2 DEF Ram
<1>5. f <=> r.has_feeding /\ r.feeding = 0
  OBVIOUS
<1> HIDE DEF u, f, c, d, t, h, n
<1>6. u \in Ram
  <2>1. u = [delay_before_next_feeding_ms |-> d,
             feed_now |-> f,
             delay_before_next_check_in_ms |-> r.check_in,
             check_in_now |-> c,
             time_since_last_feeding_ms |-> t,
             has_fed |-> h,
             scoops_to_feed |-> n]
    BY <1>1 DEF Ram
  <2> QED
    BY <1>2, <1>3, <1>4, <2>1 DEF Ram
<1>7. /\ u.scoops_to_feed = n
      /\ u.has_fed = h
      /\ u.feed_now = f
      /\ u.delay_before_next_feeding_ms = d
  BY <1>1 DEF Ram
<1> QED
  BY <1>3, <1>5, <1>6, <1>7 DEF u, h, n

\* What is added to the timers after a check-in is a number of milliseconds,
\* also when the multiplication overflows.
LEMMA CountedMsType ==
  ASSUME NEW s \in Nat, NEW ms \in CountedMs(s)
  PROVE  ms \in Time
<1>1. s * MsPerS \in Nat
  BY ClockAssumption
<1> QED
  BY <1>1, DelaysAssumption, ClockAssumption DEF CountedMs, Time

LEMMA CountedSecondsType ==
  ASSUME NEW real \in Nat, NEW jump \in Int, NEW s \in CountedSeconds(real, jump)
  PROVE  s \in Nat
BY DEF CountedSeconds, AtLeast

-----------------------------------------------------------------------------
(* The inductive invariant.                                                *)

\* Out of a check-in or a feeding, loop() has a flag set or a timer running.
WakeupInv ==
  pc \in {"setup", "disable_servo", "loop"} =>
    \/ ram.feed_now
    \/ ram.check_in_now
    \/ ram.delay_before_next_check_in_ms > 0

\* The feeding timer and feed_now are never both set: an order is one meal.
\* Nothing is ordered while a meal is served.
OrderInv ==
  /\ ram.feed_now => ram.delay_before_next_feeding_ms = 0
  /\ pc = "feed" => ~Armed
  /\ pc = "check_in" => ~ram.feed_now
  /\ ram.scoops_to_feed \in MealSizes

\* The servo cycles belong to feed(), which pushes no more often than told.
CycleInv ==
  /\ pc # "feed" => cycle = Parked
  /\ pc = "feed" => cycle.call # "none"
  /\ pc = "feed" /\ servo \in {"extend", "jiggle"} => cycle.left > 0

\* Where the servo was last driven is where the arm is; it is only switched
\* off when retracted, except by a power loss.
ServoInv ==
  /\ servo # "disable" => servo = arm
  /\ pc = "disable_servo" => arm = "retract"
  /\ pc \in {"loop", "check_in"} => servo = "disable"
  /\ pc \in {"loop", "check_in", "feed"} /\ servo = "disable" => arm = "retract"

IInv == TypeOK /\ WakeupInv /\ OrderInv /\ CycleInv /\ ServoInv

LEMMA InitInv == Init => IInv
<1> SUFFICES ASSUME Init PROVE IInv
  OBVIOUS
<1>1. RamAtReset \in Ram
  BY DelaysAssumption, CountsAssumption DEF RamAtReset, Ram, Time
<1>2. TypeOK
  BY <1>1, DelaysAssumption, CountsAssumption
  DEF Init, TypeOK, Parked, Time
<1>3. MinimumScoops \in MealSizes
  BY CountsAssumption DEF MealSizes, AtLeast
<1> QED
  BY <1>2, <1>3 DEF Init, IInv, WakeupInv, OrderInv, CycleInv, ServoInv,
                    RamAtReset, Parked, Armed

\* A delay() moves the timers and leaves every part of the invariant that
\* speaks of them intact.
LEMMA DelayEffect ==
  ASSUME TypeOK, OrderInv, NEW ms \in Time, Delay(ms)
  PROVE  /\ ram' \in Ram
         /\ due' \in Time
         /\ ram'.scoops_to_feed = ram.scoops_to_feed
         /\ ram'.has_fed = ram.has_fed
         /\ Armed' <=> Armed
         /\ ram'.feed_now => ram'.delay_before_next_feeding_ms = 0
         /\ ram'.check_in_now \/ ram'.delay_before_next_check_in_ms > 0
<1>1. ram \in Ram /\ due \in Time /\ ms \in Nat
  BY DelaysAssumption DEF TypeOK, Time
<1>2. ram' = UpdateVariables(ram, ms) /\ due' = Monus(due, ms)
  BY DEF Delay
<1>3. due' \in Time
  BY <1>1, <1>2, MonusType
<1>4. /\ ram' \in Ram
      /\ ram'.scoops_to_feed = ram.scoops_to_feed
      /\ ram'.has_fed = ram.has_fed
      /\ ram'.feed_now <=> \/ ram.feed_now
                          \/ ram.delay_before_next_feeding_ms \in 1 .. ms
      /\ ram'.delay_before_next_feeding_ms
           = Monus(ram.delay_before_next_feeding_ms, ms)
      /\ ram'.check_in_now \/ ram'.delay_before_next_check_in_ms > 0
  BY <1>1, <1>2, UpdateVariablesEffect
<1>5. ram.delay_before_next_feeding_ms \in Nat
  BY <1>1, DelaysAssumption DEF Ram, Time
<1>6. ram.feed_now => ram.delay_before_next_feeding_ms = 0
  BY DEF OrderInv
<1> HIDE DEF Armed
<1>7. Armed' <=> Armed
  BY <1>1, <1>4, <1>5 DEF Armed, Monus
<1>8. ram'.feed_now => ram'.delay_before_next_feeding_ms = 0
  BY <1>1, <1>4, <1>5, <1>6 DEF Monus
<1> QED
  BY <1>3, <1>4, <1>7, <1>8

\* The check-in sets the timers and advances them; the order it leaves is the
\* response's.
LEMMA FinishCheckInEffect ==
  ASSUME TypeOK, OrderInv,
         NEW r \in Response \cup {DefaultResponse},
         NEW real \in CheckInTimes, NEW jump \in ClockJumps,
         FinishCheckIn(r, real, jump)
  PROVE  /\ ram' \in Ram
         /\ due' \in Time
         /\ ram'.scoops_to_feed = AtLeast(r.scoops, MinimumScoops)
         /\ ram'.scoops_to_feed \in MealSizes
         /\ ram'.has_fed <=> ram.has_fed /\ ~r.consumed
         /\ Armed' <=> r.has_feeding
         /\ ram'.feed_now => ram'.delay_before_next_feeding_ms = 0
         /\ ram'.check_in_now \/ ram'.delay_before_next_check_in_ms > 0
<1>1. ram \in Ram /\ ~ram.feed_now /\ real \in Nat /\ jump \in Int
  BY ClockAssumption DEF TypeOK, OrderInv, FinishCheckIn
<1>2. PICK s \in CountedSeconds(real, jump) : \E ms \in CountedMs(s) :
        ram' = UpdateVariables(CheckIn(ram, r), ms)
  BY DEF FinishCheckIn
<1>3. PICK ms \in CountedMs(s) : ram' = UpdateVariables(CheckIn(ram, r), ms)
  BY <1>2
<1>4. ms \in Time
  BY <1>1, CountedSecondsType, CountedMsType
<1> DEFINE w == CheckIn(ram, r)
<1>5. /\ w \in Ram
      /\ w.scoops_to_feed = AtLeast(r.scoops, MinimumScoops)
      /\ w.has_fed <=> ram.has_fed /\ ~r.consumed
      /\ w.feed_now <=> r.has_feeding /\ r.feeding = 0
      /\ w.delay_before_next_feeding_ms = r.feeding
  BY <1>1, CheckInEffect
<1> HIDE DEF w
<1>6. /\ ram' \in Ram
      /\ ram'.scoops_to_feed = w.scoops_to_feed
      /\ ram'.has_fed = w.has_fed
      /\ ram'.feed_now
           <=> w.feed_now \/ w.delay_before_next_feeding_ms \in 1 .. ms
      /\ ram'.delay_before_next_feeding_ms
           = Monus(w.delay_before_next_feeding_ms, ms)
      /\ ram'.check_in_now \/ ram'.delay_before_next_check_in_ms > 0
  BY <1>3, <1>4, <1>5, UpdateVariablesEffect DEF w
<1>7. /\ r.feeding \in Time
      /\ r.scoops \in ScoopCounts \cup {0}
      /\ r.has_feeding \/ r.feeding = 0
  BY ResponseType
<1>8. due' \in Time
  BY <1>1, <1>7, MonusType DEF FinishCheckIn
<1>9. AtLeast(r.scoops, MinimumScoops) \in MealSizes
  BY <1>7 DEF MealSizes
<1>10. ms \in Nat /\ r.feeding \in Nat
  BY <1>4, <1>7, DelaysAssumption DEF Time
<1>11. Armed' <=> r.has_feeding
  BY <1>5, <1>6, <1>7, <1>10 DEF Armed, Monus
<1>12. ram'.feed_now => ram'.delay_before_next_feeding_ms = 0
  BY <1>5, <1>6, <1>10 DEF Monus
<1> QED
  BY <1>5, <1>6, <1>8, <1>9, <1>11, <1>12

LEMMA NextInv == IInv /\ [Next]_vars => IInv'
<1> SUFFICES ASSUME IInv, [Next]_vars PROVE IInv'
  OBVIOUS
<1> USE DEF IInv
<1>0. /\ ram \in Ram
      /\ cycle.left \in Nat
      /\ MoveMs \in Time /\ JiggleMs \in Time
  BY DelaysAssumption DEF TypeOK, Time
<1>1. CASE RetractAtSetup
  BY <1>1 DEF RetractAtSetup, MoveServo, TypeOK, WakeupInv, OrderInv, CycleInv,
              ServoInv, Armed
<1>2. CASE DisableAtSetup
  BY <1>2 DEF DisableAtSetup, TypeOK, WakeupInv, OrderInv, CycleInv, ServoInv,
              Armed
<1>3. CASE BeginFeeding
  <2>1. /\ ram' \in Ram
        /\ ~ram'.feed_now
        /\ ram'.delay_before_next_feeding_ms = ram.delay_before_next_feeding_ms
        /\ ram'.scoops_to_feed = ram.scoops_to_feed
    BY <1>0, <1>3 DEF BeginFeeding, Ram
  <2>2. ~Armed'
    BY <1>0, <1>3, <2>1 DEF BeginFeeding, OrderInv, Armed, Ram, Time
  <2>3. TypeOK'
    BY <1>3, <2>1, CountsAssumption DEF BeginFeeding, TypeOK
  <2> QED
    BY <1>3, <2>1, <2>2, <2>3
    DEF BeginFeeding, WakeupInv, OrderInv, CycleInv, ServoInv
<1>4. CASE ExtendServo
  <2>1. MoveDelay \in Time /\ Delay(MoveDelay)
    BY <1>0, <1>4 DEF ExtendServo, MoveDelay
  <2>2. TypeOK'
    BY <1>4, <2>1, DelayEffect DEF ExtendServo, MoveServo, TypeOK
  <2>3. OrderInv'
    BY <1>4, <2>1, DelayEffect DEF ExtendServo, OrderInv
  <2> QED
    BY <1>4, <2>2, <2>3
    DEF ExtendServo, MoveServo, WakeupInv, CycleInv, ServoInv
<1>5. CASE RetractServo
  <2>1. MoveDelay \in Time /\ Delay(MoveDelay)
    BY <1>0, <1>5 DEF RetractServo, MoveDelay
  <2>2. /\ cycle'.call = cycle.call
        /\ cycle' \in [call : {"none", "shake", "serve", "settle"}, left : Nat]
    BY <1>0, <1>5 DEF RetractServo, CycleInv, TypeOK
  <2>3. TypeOK'
    BY <1>5, <2>1, <2>2, DelayEffect DEF RetractServo, MoveServo, TypeOK
  <2>4. OrderInv'
    BY <1>5, <2>1, DelayEffect DEF RetractServo, OrderInv
  <2> QED
    BY <1>5, <2>2, <2>3, <2>4
    DEF RetractServo, MoveServo, WakeupInv, CycleInv, ServoInv
<1>6. CASE NextCycles
  <2>1. ram.scoops_to_feed \in Nat
    BY <1>0 DEF Ram
  <2> QED
    BY <1>6, <2>1, CountsAssumption
    DEF NextCycles, TypeOK, WakeupInv, OrderInv, CycleInv, ServoInv, Armed
<1>7. CASE EndFeeding
  <2>1. /\ ram' \in Ram
        /\ ram'.check_in_now
        /\ ram'.feed_now = ram.feed_now
        /\ ram'.delay_before_next_feeding_ms = ram.delay_before_next_feeding_ms
        /\ ram'.scoops_to_feed = ram.scoops_to_feed
    <3>1. 0 \in Time
      BY DelaysAssumption DEF Time
    <3> QED
      BY <1>0, <1>7, <3>1 DEF EndFeeding, Ram
  <2>2. TypeOK'
    BY <1>7, <2>1 DEF EndFeeding, TypeOK, Parked
  <2> QED
    BY <1>7, <2>1, <2>2
    DEF EndFeeding, WakeupInv, OrderInv, CycleInv, ServoInv, Armed
<1>8. CASE BeginCheckIn
  <2>1. /\ ram' \in Ram
        /\ ram'.feed_now = ram.feed_now
        /\ ram'.delay_before_next_feeding_ms = ram.delay_before_next_feeding_ms
        /\ ram'.scoops_to_feed = ram.scoops_to_feed
    BY <1>0, <1>8 DEF BeginCheckIn, Ram
  <2>2. TypeOK'
    BY <1>8, <2>1 DEF BeginCheckIn, TypeOK
  <2> QED
    BY <1>8, <2>1, <2>2
    DEF BeginCheckIn, WakeupInv, OrderInv, CycleInv, ServoInv, Armed
<1>9. ASSUME NEW r \in Response \cup {DefaultResponse},
             NEW real \in CheckInTimes, NEW jump \in ClockJumps,
             FinishCheckIn(r, real, jump)
      PROVE  IInv'
  <2>1. TypeOK'
    BY <1>9, FinishCheckInEffect DEF FinishCheckIn, TypeOK
  <2>2. WakeupInv' /\ OrderInv'
    BY <1>9, FinishCheckInEffect DEF FinishCheckIn, WakeupInv, OrderInv
  <2> QED
    BY <1>9, <2>1, <2>2 DEF FinishCheckIn, CycleInv, ServoInv
<1>10. CASE Wait
  <2>1. SleepMs \in Time
    BY <1>0 DEF SleepMs, Ram
  <2>2. SleepMs > 0 /\ Delay(SleepMs)
    BY <1>0, <1>10 DEF Wait, WakeupInv, SleepMs
  <2>3. TypeOK'
    BY <1>10, <2>1, <2>2, DelayEffect DEF Wait, TypeOK
  <2>4. WakeupInv' /\ OrderInv'
    BY <1>10, <2>1, <2>2, DelayEffect DEF Wait, WakeupInv, OrderInv
  <2> QED
    BY <1>10, <2>3, <2>4 DEF Wait, CycleInv, ServoInv
<1>11. CASE PowerLoss
  <2>1. /\ RamAtReset \in Ram
        /\ MinimumScoops \in MealSizes
        /\ 0 \in Time
    BY DelaysAssumption, CountsAssumption
    DEF RamAtReset, Ram, Time, MealSizes, AtLeast
  <2>2. TypeOK'
    BY <1>11, <2>1, CountsAssumption DEF PowerLoss, TypeOK, Parked
  <2> QED
    BY <1>11, <2>1, <2>2
    DEF PowerLoss, WakeupInv, OrderInv, CycleInv, ServoInv, RamAtReset, Armed
<1>12. CASE UNCHANGED vars
  BY <1>12 DEF vars, TypeOK, WakeupInv, OrderInv, CycleInv, ServoInv, Armed
<1> QED
  BY <1>1, <1>2, <1>3, <1>4, <1>5, <1>6, <1>7, <1>8, <1>9, <1>10, <1>11, <1>12
  DEF Next, OwnStep

\* The inductive invariant holds in every reachable state.
THEOREM Invariance == Spec => []IInv
BY InitInv, NextInv, PTL DEF Spec

\* Type correctness of the firmware's state: no timer wraps below zero.
THEOREM TypeCorrectness == Spec => []TypeOK
BY Invariance, PTL DEF IInv

\* The "bad state" of app.cpp:121 is unreachable, for all responses, durations
\* of the check-in and jumps of the clock.
THEOREM BadStateUnreachable == Spec => []NeverInBadState
<1>1. IInv => NeverInBadState
  BY DEF IInv, WakeupInv, NeverInBadState, SleepMs
<1> QED
  BY <1>1, Invariance, PTL

\* The servo is off and the chute shut whenever the device waits or talks to
\* the server, power losses in the middle of a scoop included.
THEOREM ChuteIsShut == Spec => []ChuteShutWhenIdle
<1>1. IInv => ChuteShutWhenIdle
  BY DEF IInv, ServoInv, ChuteShutWhenIdle
<1> QED
  BY <1>1, Invariance, PTL

-----------------------------------------------------------------------------
(* How accurate the feeding timer is.                                      *)

\* No time sync moves the clock, and no check-in is too long for an int.
ClockSteady ==
  /\ ClockJumps = {0}
  /\ \A real \in CheckInTimes : real + MsPerS <= IntMax

\* Counted in whole seconds, a check-in is off by less than a second.
LEMMA CountedWithinASecond ==
  ASSUME ClockSteady, NEW real \in CheckInTimes,
         NEW s \in CountedSeconds(real, 0), NEW ms \in CountedMs(s)
  PROVE  ms \in Nat /\ ms < real + MsPerS /\ real < ms + MsPerS
<1>1. real \in Nat /\ MsPerS \in Nat /\ IntMax \in Nat
  BY ClockAssumption
<1>2. PICK n \in 0 .. real + 1 : /\ n * MsPerS < real + MsPerS
                               /\ real < (n + 1) * MsPerS
                               /\ s = AtLeast(n + 0, 0)
  BY DEF CountedSeconds
<1>3. s = n /\ n \in Nat
  BY <1>1, <1>2 DEF AtLeast
<1>4. s * MsPerS \in Nat /\ (n + 1) * MsPerS = s * MsPerS + MsPerS
  BY <1>1, <1>3
<1>5. s * MsPerS < real + MsPerS
  BY <1>2, <1>3
<1>6. s * MsPerS <= IntMax
  BY <1>1, <1>4, <1>5 DEF ClockSteady
<1>7. ms = s * MsPerS
  BY <1>6 DEF CountedMs
<1> QED
  BY <1>1, <1>2, <1>4, <1>5, <1>7

\* Two timers that are less than m apart still are after the same delay.
LEMMA MonusKeepsDistance ==
  ASSUME NEW a \in Nat, NEW b \in Nat, NEW ms \in Nat, NEW m \in Nat \ {0},
         a < b + m, b < a + m
  PROVE  /\ Monus(a, ms) < Monus(b, ms) + m
         /\ Monus(b, ms) < Monus(a, ms) + m
BY DEF Monus

\* The same timer advanced by two amounts less than m apart.
LEMMA MonusOfDistant ==
  ASSUME NEW a \in Nat, NEW x \in Nat, NEW y \in Nat, NEW m \in Nat \ {0},
         x < y + m, y < x + m
  PROVE  /\ Monus(a, x) < Monus(a, y) + m
         /\ Monus(a, y) < Monus(a, x) + m
BY DEF Monus

LEMMA DelayKeepsAccuracy ==
  ASSUME TypeOK, OrderInv, TimerAccurate, NEW ms \in Time, Delay(ms)
  PROVE  TimerAccurate'
<1>1. /\ ram \in Ram
      /\ ms \in Nat
      /\ due \in Nat
      /\ ram.delay_before_next_feeding_ms \in Nat
      /\ MsPerS \in Nat \ {0}
  BY DelaysAssumption, ClockAssumption DEF TypeOK, Time, Ram
<1>2. /\ ram'.delay_before_next_feeding_ms
           = Monus(ram.delay_before_next_feeding_ms, ms)
      /\ due' = Monus(due, ms)
  BY <1>1, UpdateVariablesEffect DEF Delay
<1>3. Armed' <=> Armed
  BY DelayEffect
<1>4. SUFFICES ASSUME Armed
               PROVE  /\ ram'.delay_before_next_feeding_ms < due' + MsPerS
                      /\ due' < ram'.delay_before_next_feeding_ms + MsPerS
  BY <1>3 DEF TimerAccurate
<1>5. /\ ram.delay_before_next_feeding_ms < due + MsPerS
      /\ due < ram.delay_before_next_feeding_ms + MsPerS
  BY <1>4 DEF TimerAccurate
<1> QED
  BY <1>1, <1>2, <1>5, MonusKeepsDistance

LEMMA CheckInIsAccurate ==
  ASSUME ClockSteady, TypeOK, OrderInv,
         NEW r \in Response \cup {DefaultResponse},
         NEW real \in CheckInTimes, FinishCheckIn(r, real, 0)
  PROVE  TimerAccurate'
<1>1. /\ ram \in Ram /\ ~ram.feed_now
      /\ real \in Nat
      /\ r.feeding \in Nat
      /\ MsPerS \in Nat \ {0}
  BY ResponseType, DelaysAssumption, ClockAssumption
  DEF TypeOK, OrderInv, FinishCheckIn, Time
<1>2. PICK s \in CountedSeconds(real, 0) : \E ms \in CountedMs(s) :
        ram' = UpdateVariables(CheckIn(ram, r), ms)
  BY DEF FinishCheckIn
<1>3. PICK ms \in CountedMs(s) : ram' = UpdateVariables(CheckIn(ram, r), ms)
  BY <1>2
<1>4. ms \in Nat /\ ms < real + MsPerS /\ real < ms + MsPerS
  BY CountedWithinASecond
<1>5. ms \in Time
  BY <1>1, CountedSecondsType, CountedMsType
<1>6. /\ CheckIn(ram, r) \in Ram
      /\ CheckIn(ram, r).delay_before_next_feeding_ms = r.feeding
  BY <1>1, CheckInEffect
<1>7. ram'.delay_before_next_feeding_ms = Monus(r.feeding, ms)
  BY <1>3, <1>5, <1>6, UpdateVariablesEffect
<1>8. due' = Monus(r.feeding, real)
  BY DEF FinishCheckIn
<1> QED
  BY <1>1, <1>4, <1>7, <1>8, MonusOfDistant DEF TimerAccurate

LEMMA NextAccurate ==
  ASSUME ClockSteady
  PROVE  IInv /\ TimerAccurate /\ [Next]_vars => TimerAccurate'
<1> SUFFICES ASSUME IInv, TimerAccurate, [Next]_vars PROVE TimerAccurate'
  OBVIOUS
<1>0. /\ ram \in Ram /\ TypeOK /\ OrderInv
      /\ MoveMs \in Time /\ JiggleMs \in Time
  BY DelaysAssumption DEF IInv, TypeOK, Time
<1>1. CASE RetractAtSetup \/ DisableAtSetup \/ NextCycles
  BY <1>1 DEF RetractAtSetup, DisableAtSetup, NextCycles, TimerAccurate, Armed
<1>2. CASE BeginFeeding
  <2>1. /\ ~ram'.feed_now
        /\ ram'.delay_before_next_feeding_ms = ram.delay_before_next_feeding_ms
    BY <1>0, <1>2 DEF BeginFeeding, Ram
  <2>2. ~Armed'
    BY <1>0, <1>2, <2>1, DelaysAssumption
    DEF BeginFeeding, OrderInv, Armed, Ram, Time
  <2> QED
    BY <2>2 DEF TimerAccurate
<1>3. CASE ExtendServo \/ RetractServo
  <2>1. MoveDelay \in Time /\ Delay(MoveDelay)
    BY <1>0, <1>3 DEF ExtendServo, RetractServo, MoveDelay
  <2> QED
    BY <1>0, <2>1, DelayKeepsAccuracy
<1>4. CASE EndFeeding \/ BeginCheckIn
  <2>1. /\ ram'.feed_now = ram.feed_now
        /\ ram'.delay_before_next_feeding_ms = ram.delay_before_next_feeding_ms
        /\ due' = due
    BY <1>0, <1>4 DEF EndFeeding, BeginCheckIn, Ram
  <2> QED
    BY <2>1 DEF TimerAccurate, Armed
<1>5. ASSUME NEW r \in Response \cup {DefaultResponse},
             NEW real \in CheckInTimes, NEW jump \in ClockJumps,
             FinishCheckIn(r, real, jump)
      PROVE  TimerAccurate'
  <2>1. jump = 0
    BY DEF ClockSteady
  <2> QED
    BY <1>0, <1>5, <2>1, CheckInIsAccurate
<1>6. CASE Wait
  <2>1. SleepMs \in Time
    BY <1>0 DEF SleepMs, Ram
  <2>2. Delay(SleepMs)
    BY <1>0, <1>6 DEF IInv, Wait, WakeupInv, SleepMs
  <2> QED
    BY <1>0, <2>1, <2>2, DelayKeepsAccuracy
<1>7. CASE PowerLoss
  BY <1>7, DelaysAssumption DEF PowerLoss, TimerAccurate, Armed, RamAtReset
<1>8. CASE UNCHANGED vars
  BY <1>8 DEF vars, TimerAccurate, Armed
<1> QED
  BY <1>1, <1>2, <1>3, <1>4, <1>5, <1>6, <1>7, <1>8 DEF Next, OwnStep

\* As long as the clock is steady and check-ins fit an int, the feeding timer
\* is always within a second of the real time left before the ordered meal.
THEOREM TimerIsAccurate ==
  ASSUME ClockSteady
  PROVE  Spec => []TimerAccurate
<1>1. Init => TimerAccurate
  BY DEF Init, TimerAccurate, Armed, RamAtReset
<1>2. IInv /\ TimerAccurate /\ [Next]_vars => TimerAccurate'
  BY NextAccurate
<1> QED
  BY <1>1, <1>2, Invariance, PTL DEF Spec

-----------------------------------------------------------------------------
(* The firmware implements DeviceContract.                                 *)

\* Every meal has at least one scoop.
LEMMA MealSizesPositive == MealSizes \subseteq Nat \ {0}
BY CountsAssumption DEF MealSizes, AtLeast

\* A step that leaves the phase, the order, the portion and the report of the
\* contract unchanged is a step of the contract that does nothing.
LEMMA Stutter ==
  ASSUME Phase' = Phase, Order' = Order, Portion' = Portion,
         ram'.has_fed = ram.has_fed, losses' = losses
  PROVE  UNCHANGED Contract!contractVars
BY DEF Contract!contractVars

LEMMA InitImplements == Init => Contract!ContractInit
BY DEF Init, RamAtReset, Parked, Contract!ContractInit, Phase, Order, Portion,
       Armed

LEMMA StepImplements ==
  IInv /\ [Next]_vars => [Contract!ContractNext]_(Contract!contractVars)
<1> SUFFICES ASSUME IInv, [Next]_vars
             PROVE  [Contract!ContractNext]_(Contract!contractVars)
  OBVIOUS
<1>0. /\ ram \in Ram /\ TypeOK /\ OrderInv /\ CycleInv
      /\ ram.scoops_to_feed \in Nat \ {0}
      /\ cycle.left \in Nat
      /\ MoveMs \in Time /\ JiggleMs \in Time
  <2>1. ram.scoops_to_feed \in MealSizes
    BY DEF IInv, OrderInv
  <2>2. ram.scoops_to_feed \in Nat \ {0}
    BY <2>1, MealSizesPositive
  <2>3. cycle.left \in Nat
    BY DEF IInv, TypeOK
  <2>4. MoveMs \in Time /\ JiggleMs \in Time
    BY DelaysAssumption DEF Time
  <2> QED
    BY <2>2, <2>3, <2>4 DEF IInv, TypeOK
<1>1. CASE RetractAtSetup \/ DisableAtSetup
  <2>1. Phase' = Phase /\ UNCHANGED <<ram, cycle, losses>>
    BY <1>1 DEF RetractAtSetup, DisableAtSetup, Phase
  <2> QED
    BY <2>1, Stutter DEF Order, Portion, Armed
<1>2. CASE BeginFeeding
  <2>1. /\ ram'.scoops_to_feed = ram.scoops_to_feed
        /\ ram'.has_fed = ram.has_fed
        /\ ~ram'.feed_now
        /\ ram'.delay_before_next_feeding_ms = ram.delay_before_next_feeding_ms
    BY <1>0, <1>2 DEF BeginFeeding, Ram
  <2>2. ~Armed' /\ Armed
    BY <1>0, <1>2, <2>1, DelaysAssumption
    DEF BeginFeeding, OrderInv, Armed, Ram, Time
  <2>3. /\ Phase = "idle" /\ Phase' = "feeding"
        /\ Portion' = ram'.scoops_to_feed
        /\ losses' = losses
    BY <1>2 DEF BeginFeeding, Phase, Portion
  <2>4. Order = ram.scoops_to_feed /\ Order' = 0
    BY <2>2 DEF Order
  <2>5. Contract!StartMeal
    BY <1>0, <2>1, <2>3, <2>4 DEF Contract!StartMeal
  <2> QED
    BY <2>5 DEF Contract!ContractNext
<1>3. CASE ExtendServo
  <2>1. MoveDelay \in Time /\ Delay(MoveDelay)
    BY <1>0, <1>3 DEF ExtendServo, MoveDelay
  <2>2. /\ ram'.scoops_to_feed = ram.scoops_to_feed
        /\ ram'.has_fed = ram.has_fed
        /\ Armed' <=> Armed
        /\ UNCHANGED <<pc, cycle, losses>>
    BY <1>0, <1>3, <2>1, DelayEffect DEF ExtendServo
  <2> QED
    BY <2>2, Stutter DEF Phase, Order, Portion
<1>4. CASE RetractServo
  <2>1. MoveDelay \in Time /\ Delay(MoveDelay)
    BY <1>0, <1>4 DEF RetractServo, MoveDelay
  <2>2. /\ ram'.scoops_to_feed = ram.scoops_to_feed
        /\ ram'.has_fed = ram.has_fed
        /\ Armed' <=> Armed
        /\ pc = "feed" /\ pc' = "feed" /\ losses' = losses
    BY <1>0, <1>4, <2>1, DelayEffect DEF RetractServo
  <2>3. /\ cycle'.call = cycle.call
        /\ cycle'.left = cycle.left - 1
        /\ cycle.left > 0
    BY <1>0, <1>4 DEF RetractServo, CycleInv, TypeOK
  <2>4. Phase = "feeding" /\ Phase' = "feeding" /\ Order' = Order
    BY <2>2 DEF Phase, Order
  <2>5. CASE cycle.call = "serve"
    <3>1. Portion = cycle.left /\ Portion' = cycle.left - 1
      BY <2>3, <2>5 DEF Portion
    <3>2. Contract!ServeScoop
      BY <2>2, <2>3, <2>4, <3>1 DEF Contract!ServeScoop
    <3> QED
      BY <3>2 DEF Contract!ContractNext
  <2>6. CASE cycle.call # "serve"
    BY <2>2, <2>3, <2>4, <2>6, Stutter DEF Portion
  <2> QED
    BY <2>5, <2>6
<1>5. CASE NextCycles
  <2>1. /\ UNCHANGED <<pc, ram, losses>>
        /\ Portion' = Portion
    BY <1>0, <1>5, CountsAssumption DEF NextCycles, Portion
  <2> QED
    BY <2>1, Stutter DEF Phase, Order, Armed
<1>6. CASE EndFeeding
  <2>1. /\ ram'.has_fed
        /\ ram'.feed_now = ram.feed_now
        /\ ram'.delay_before_next_feeding_ms = ram.delay_before_next_feeding_ms
        /\ ram'.scoops_to_feed = ram.scoops_to_feed
    BY <1>0, <1>6 DEF EndFeeding, Ram
  <2>2. /\ Phase = "feeding" /\ Phase' = "idle"
        /\ Portion = 0 /\ Portion' = 0
        /\ Order' = Order
        /\ losses' = losses
    BY <1>6, <2>1 DEF EndFeeding, Phase, Portion, Order, Armed, Parked
  <2>3. Contract!FinishMeal
    BY <1>0, <1>6, <2>1, <2>2 DEF EndFeeding, Contract!FinishMeal, Ram
  <2> QED
    BY <2>3 DEF Contract!ContractNext
<1>7. CASE BeginCheckIn
  <2>1. /\ ram'.has_fed = ram.has_fed
        /\ ram'.feed_now = ram.feed_now
        /\ ram'.delay_before_next_feeding_ms = ram.delay_before_next_feeding_ms
        /\ ram'.scoops_to_feed = ram.scoops_to_feed
        /\ UNCHANGED cycle
    BY <1>0, <1>7 DEF BeginCheckIn, Ram
  <2>2. /\ Phase = "idle" /\ Phase' = "asking"
        /\ Order' = Order /\ Portion' = Portion /\ losses' = losses
    BY <1>0, <1>7, <2>1 DEF BeginCheckIn, Phase, Portion, Order, Armed, CycleInv,
                            Parked
  <2>3. Contract!Ask
    BY <2>1, <2>2 DEF Contract!Ask
  <2> QED
    BY <2>3 DEF Contract!ContractNext
<1>8. ASSUME NEW r \in Response \cup {DefaultResponse},
             NEW real \in CheckInTimes, NEW jump \in ClockJumps,
             FinishCheckIn(r, real, jump)
      PROVE  Contract!ContractNext
  <2>1. /\ ram'.scoops_to_feed \in MealSizes
        /\ ram'.has_fed \in BOOLEAN
        /\ ram'.has_fed <=> ram.has_fed /\ ~r.consumed
        /\ ram.has_fed \in BOOLEAN /\ r.consumed \in BOOLEAN
    BY <1>0, <1>8, FinishCheckInEffect, ResponseType DEF Ram
  <2>2. /\ Phase = "asking" /\ Phase' = "idle" /\ Portion' = Portion
        /\ losses' = losses
    BY <1>0, <1>8 DEF FinishCheckIn, Phase, Portion, CycleInv, Parked
  <2>3. Order' \in MealSizes \cup {0}
    BY <2>1 DEF Order
  <2>4. ram'.has_fed = (ram.has_fed /\ ~r.consumed)
    BY <2>1
  <2>5. Contract!Answer(Order', r.consumed)
    BY <2>2, <2>4 DEF Contract!Answer
  <2> QED
    BY <2>1, <2>3, <2>5 DEF Contract!ContractNext
<1>9. CASE Wait
  <2>1. SleepMs \in Time
    BY <1>0 DEF SleepMs, Ram
  <2>2. Delay(SleepMs) /\ UNCHANGED <<pc, cycle, losses>>
    BY <1>0, <1>9 DEF IInv, Wait, WakeupInv, SleepMs
  <2>3. /\ ram'.scoops_to_feed = ram.scoops_to_feed
        /\ ram'.has_fed = ram.has_fed
        /\ Armed' <=> Armed
    BY <1>0, <2>1, <2>2, DelayEffect
  <2> QED
    BY <2>2, <2>3, Stutter DEF Phase, Order, Portion
<1>10. CASE PowerLoss
  <2>1. /\ Phase' = "idle" /\ Order' = 0 /\ Portion' = 0
        /\ ram'.has_fed = FALSE
        /\ losses' = losses + 1
    BY <1>10 DEF PowerLoss, RamAtReset, Parked, Phase, Order, Portion, Armed
  <2>2. Contract!LosePower
    BY <2>1 DEF Contract!LosePower
  <2> QED
    BY <2>2 DEF Contract!ContractNext
<1>11. CASE UNCHANGED vars
  BY <1>11, Stutter DEF vars, Phase, Order, Portion, Armed
<1> QED
  BY <1>1, <1>2, <1>3, <1>4, <1>5, <1>6, <1>7, <1>8, <1>9, <1>10, <1>11
  DEF Next, OwnStep

\* The firmware implements DeviceContract: every order is served at most once
\* and to its last scoop, no meal is served without an order, and a served
\* meal is reported until the server has consumed the report.
THEOREM Refinement == Spec => ImplementsContract
<1>1. IInv /\ [Next]_vars => [Contract!ContractNext]_(Contract!contractVars)
  BY StepImplements
<1> QED
  BY <1>1, InitImplements, Invariance, PTL
  DEF Spec, ImplementsContract, Contract!ContractSpec
=============================================================================
