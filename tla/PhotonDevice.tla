---------------------------- MODULE PhotonDevice ----------------------------
(***************************************************************************)
(* The firmware of the feeder: src/photon/app.cpp.                         *)
(*                                                                         *)
(* One thread runs setup() and then loop() for ever. Every blocking call   *)
(* (a delay(), a check-in) ends one action, so that a power loss can       *)
(* happen between any two of them. What the server answers is arbitrary.   *)
(* The fields of `ram' are the globals of app.cpp:62-77; the connection    *)
(* and the decoding of the response are the business of HttpClient and     *)
(* nanopb, here a response is a record or DefaultResponse.                 *)
(***************************************************************************)
EXTENDS Integers

CONSTANTS
  Delays,            \* the delays a server may ask for, in ms
  ScoopCounts,       \* the values of scoops_to_feed a server may send
  CheckInTimes,      \* how long a check-in may really take, in ms
  ClockJumps,        \* by how many seconds a time sync may move Time.now()
  DefaultCheckInMs,  \* default of delay_until_next_check_in_ms
  MinimumScoops,     \* MINIMUM_SCOOPS_TO_FEED
  JiggleCount,       \* JAM_PREVENTION_JIGGLE_COUNT
  MoveMs,            \* SERVO_MOVE_DELAY_MS
  JiggleMs,          \* SERVO_JIGGLE_MOVE_DELAY_MS
  MsPerS,            \* 1000
  IntMax,            \* the largest int
  U64,               \* 2^64
  MaxPowerLosses     \* bound on the number of power losses

ASSUME DelaysAssumption ==
  /\ U64 \in Nat \ {0}
  /\ Delays \subseteq 0 .. U64 - 1
  /\ DefaultCheckInMs \in 1 .. U64 - 1
  /\ MoveMs \in 1 .. U64 - 1
  /\ JiggleMs \in 1 .. U64 - 1
ASSUME CountsAssumption ==
  /\ ScoopCounts \subseteq Nat
  /\ MinimumScoops \in Nat \ {0}
  /\ JiggleCount \in Nat
  /\ MaxPowerLosses \in Nat
ASSUME ClockAssumption ==
  /\ CheckInTimes \subseteq Nat
  /\ ClockJumps \subseteq Int
  /\ MsPerS \in Nat \ {0}
  /\ IntMax \in Nat
  /\ IntMax < U64

VARIABLES
  pc,      \* "setup", "loop", "feed" or "check_in"
  ram,     \* the globals of app.cpp
  servo,   \* the last duty cycle written to the servo pin
  arm,     \* where the servo's last move left the arm of the chute
  cycle,   \* feed(): the call of cycle_servo under way and its cycles left
  due,     \* observed: ms before the meal last ordered is really due
  losses   \* power losses so far

vars == <<pc, ram, servo, arm, cycle, due, losses>>

Time == 0 .. U64 - 1

Ram == [delay_before_next_feeding_ms : Time,
        feed_now : BOOLEAN,
        delay_before_next_check_in_ms : Time,
        check_in_now : BOOLEAN,
        time_since_last_feeding_ms : Time,
        has_fed : BOOLEAN,
        scoops_to_feed : Nat]

\* The globals after a reset: an immediate check-in.
RamAtReset ==
  [delay_before_next_feeding_ms |-> 0,
   feed_now |-> FALSE,
   delay_before_next_check_in_ms |-> 0,
   check_in_now |-> TRUE,
   time_since_last_feeding_ms |-> 0,
   has_fed |-> FALSE,
   scoops_to_feed |-> MinimumScoops]

\* A decoded EmbeddedResponse. The delay until the next feeding is optional,
\* and 0 when it is absent.
Response ==
  { r \in [check_in : Delays \cup {DefaultCheckInMs}, has_feeding : BOOLEAN,
           feeding : Delays \cup {0}, scoops : ScoopCounts \cup {0},
           consumed : BOOLEAN] :
      r.has_feeding \/ r.feeding = 0 }

\* What sendRequest() returns when it could not connect, got another status
\* than 200 or could not decode the body.
DefaultResponse ==
  [check_in |-> DefaultCheckInMs, has_feeding |-> FALSE, feeding |-> 0,
   scoops |-> 0, consumed |-> FALSE]

AtLeast(a, b) == IF a >= b THEN a ELSE b

\* Mutant: a timer is decremented without a look at what is left of it.
Monus_NoClamp(a, b) == a - b

\* a - b, or 0 when b is larger.
Monus(a, b) == IF a > b THEN a - b ELSE 0

-----------------------------------------------------------------------------
(* The effect on the globals of the two functions that update them.        *)

\* Mutant: a check-in timer that ends exactly now does not raise its flag.
UpdateVariables_StrictTimer(w, ms) ==
  [w EXCEPT
    !.delay_before_next_feeding_ms = Monus(@, ms),
    !.feed_now = @ \/ w.delay_before_next_feeding_ms \in 1 .. ms,
    !.delay_before_next_check_in_ms = Monus(@, ms),
    !.check_in_now = @ \/ w.delay_before_next_check_in_ms < ms,
    !.time_since_last_feeding_ms = IF w.has_fed THEN (@ + ms) % U64 ELSE @]

\* updateVariables(): a timer that reaches 0 raises its flag. The feeding
\* timer at 0 is not running; the check-in timer always is.
UpdateVariables(w, ms) ==
  [w EXCEPT
    !.delay_before_next_feeding_ms = Monus(@, ms),
    !.feed_now = @ \/ w.delay_before_next_feeding_ms \in 1 .. ms,
    !.delay_before_next_check_in_ms = Monus(@, ms),
    !.check_in_now = @ \/ w.delay_before_next_check_in_ms <= ms,
    !.time_since_last_feeding_ms = IF w.has_fed THEN (@ + ms) % U64 ELSE @]

\* check_in(), from the response on.
CheckIn(w, r) ==
  [w EXCEPT
    !.scoops_to_feed = AtLeast(r.scoops, MinimumScoops),
    !.delay_before_next_check_in_ms = r.check_in,
    !.check_in_now = @ \/ r.check_in = 0,
    !.delay_before_next_feeding_ms = IF r.has_feeding THEN r.feeding ELSE 0,
    !.feed_now = r.has_feeding /\ (@ \/ r.feeding = 0),
    !.time_since_last_feeding_ms = IF r.consumed THEN 0 ELSE @,
    !.has_fed = @ /\ ~r.consumed]

\* Time.now() counts whole seconds: over real milliseconds it advances by the
\* seconds that begin in between, plus the jump of a time sync; a negative
\* difference counts as 0.
CountedSeconds(real, jump) ==
  { AtLeast(s + jump, 0) : s \in { n \in 0 .. real + 1 :
                                     /\ n * MsPerS < real + MsPerS
                                     /\ real < (n + 1) * MsPerS } }

\* Mutant: the seconds are passed on as milliseconds.
CountedMs_Unscaled(seconds) == {seconds}

\* The argument of updateVariables() after a check-in: an int multiplication,
\* widened to 64 bits without a sign. Its overflow is undefined: any int.
CountedMs(seconds) ==
  IF seconds * MsPerS <= IntMax
  THEN {seconds * MsPerS}
  ELSE { m \in Time : m <= IntMax \/ m >= U64 - 1 - IntMax }

-----------------------------------------------------------------------------
(* The steps of setup(), loop() and feed().                                *)

Parked == [call |-> "none", left |-> 0]

Init ==
  /\ pc = "setup"
  /\ ram = RamAtReset
  /\ servo = "disable"
  /\ arm \in {"retract", "jiggle", "extend"}
  /\ cycle = Parked
  /\ due = 0
  /\ losses = 0

\* analogWrite() with a duty cycle of the servo's range, and the move.
MoveServo(position) ==
  /\ servo' = position
  /\ arm' = position

\* Mutant: setup() takes it for granted that the servo is retracted.
RetractAtSetup_Assumed ==
  /\ pc = "setup"
  /\ pc' = "disable_servo"
  /\ UNCHANGED <<ram, servo, arm, cycle, due, losses>>

\* setup() retracts the servo, in case power was lost while it was extended.
RetractAtSetup ==
  /\ pc = "setup"
  /\ MoveServo("retract")
  /\ pc' = "disable_servo"
  /\ UNCHANGED <<ram, cycle, due, losses>>

DisableAtSetup ==
  /\ pc = "disable_servo"
  /\ servo' = "disable"
  /\ pc' = "loop"
  /\ UNCHANGED <<arm, ram, cycle, due, losses>>

\* Mutant: feed_now is not cleared.
BeginFeeding_FlagKept ==
  /\ pc = "loop"
  /\ ram.feed_now
  /\ cycle' = [call |-> "shake", left |-> JiggleCount]
  /\ pc' = "feed"
  /\ UNCHANGED <<ram, servo, arm, due, losses>>

\* loop(), first branch: feed() begins with a jiggle.
BeginFeeding ==
  /\ pc = "loop"
  /\ ram.feed_now
  /\ ram' = [ram EXCEPT !.feed_now = FALSE]
  /\ cycle' = [call |-> "shake", left |-> JiggleCount]
  /\ pc' = "feed"
  /\ UNCHANGED <<servo, arm, due, losses>>

\* Time the device spends in delay(): its timers advance with it.
Delay(ms) ==
  /\ ram' = UpdateVariables(ram, ms)
  /\ due' = Monus(due, ms)

MoveDelay == IF cycle.call = "serve" THEN MoveMs ELSE JiggleMs

\* The two halves of a cycle of cycle_servo().
ExtendServo ==
  /\ pc = "feed"
  /\ servo \in {"disable", "retract"}
  /\ cycle.left > 0
  /\ MoveServo(IF cycle.call = "serve" THEN "extend" ELSE "jiggle")
  /\ Delay(MoveDelay)
  /\ UNCHANGED <<pc, cycle, losses>>

RetractServo ==
  /\ pc = "feed"
  /\ servo \in {"extend", "jiggle"}
  /\ MoveServo("retract")
  /\ cycle' = [cycle EXCEPT !.left = @ - 1]
  /\ Delay(MoveDelay)
  /\ UNCHANGED <<pc, losses>>

\* One call of cycle_servo() returned: the scoops follow the first jiggle,
\* the second jiggle follows the scoops.
NextCycles ==
  /\ pc = "feed"
  /\ servo \in {"disable", "retract"}
  /\ cycle.left = 0
  /\ \/ /\ cycle.call = "shake"
        /\ cycle' = [call |-> "serve", left |-> ram.scoops_to_feed]
     \/ /\ cycle.call = "serve"
        /\ cycle' = [call |-> "settle", left |-> JiggleCount]
  /\ UNCHANGED <<pc, ram, servo, arm, due, losses>>

\* Mutant: the meal leaves no report.
EndFeeding_NoReport ==
  /\ pc = "feed"
  /\ servo \in {"disable", "retract"}
  /\ cycle.call = "settle"
  /\ cycle.left = 0
  /\ servo' = "disable"
  /\ cycle' = Parked
  /\ ram' = [ram EXCEPT !.time_since_last_feeding_ms = 0, !.check_in_now = TRUE]
  /\ pc' = "loop"
  /\ UNCHANGED <<arm, due, losses>>

\* The end of feed(), and the rest of loop()'s first branch.
EndFeeding ==
  /\ pc = "feed"
  /\ servo \in {"disable", "retract"}
  /\ cycle.call = "settle"
  /\ cycle.left = 0
  /\ servo' = "disable"
  /\ cycle' = Parked
  /\ ram' = [ram EXCEPT !.time_since_last_feeding_ms = 0,
                        !.has_fed = TRUE,
                        !.check_in_now = TRUE]
  /\ pc' = "loop"
  /\ UNCHANGED <<arm, due, losses>>

\* Mutant: a check-in may come before a meal that is due.
BeginCheckIn_BeforeFeeding ==
  /\ pc = "loop"
  /\ ram.check_in_now
  /\ ram' = [ram EXCEPT !.check_in_now = FALSE]
  /\ pc' = "check_in"
  /\ UNCHANGED <<servo, arm, cycle, due, losses>>

\* loop(), second branch: the request goes out.
BeginCheckIn ==
  /\ pc = "loop"
  /\ ~ram.feed_now
  /\ ram.check_in_now
  /\ ram' = [ram EXCEPT !.check_in_now = FALSE]
  /\ pc' = "check_in"
  /\ UNCHANGED <<servo, arm, cycle, due, losses>>

\* The check-in ends with response r after `real' ms: the timers it set are
\* advanced by the time the whole check-in took, as Time.now() tells it.
FinishCheckIn(r, real, jump) ==
  /\ pc = "check_in"
  /\ \E s \in CountedSeconds(real, jump) : \E ms \in CountedMs(s) :
       ram' = UpdateVariables(CheckIn(ram, r), ms)
  /\ due' = Monus(r.feeding, real)
  /\ pc' = "loop"
  /\ UNCHANGED <<servo, arm, cycle, losses>>

\* loop(), last branch: sleep until the first timer ends. The feeding timer
\* counts only when it runs and ends before the check-in timer.
SleepMs ==
  IF /\ ram.delay_before_next_feeding_ms > 0
     /\ ram.delay_before_next_feeding_ms < ram.delay_before_next_check_in_ms
  THEN ram.delay_before_next_feeding_ms
  ELSE ram.delay_before_next_check_in_ms

Wait ==
  /\ pc = "loop"
  /\ ~ram.feed_now
  /\ ~ram.check_in_now
  /\ IF SleepMs > 0
     THEN Delay(SleepMs)
     ELSE ram' = [ram EXCEPT !.check_in_now = TRUE] /\ UNCHANGED due
  /\ UNCHANGED <<pc, servo, arm, cycle, losses>>

\* Power can fail at any point; RAM is lost, the arm stays where it is.
PowerLoss ==
  /\ losses < MaxPowerLosses
  /\ losses' = losses + 1
  /\ pc' = "setup"
  /\ ram' = RamAtReset
  /\ cycle' = Parked
  /\ due' = 0
  /\ servo' = "disable"
  /\ UNCHANGED arm

\* What the thread does without the server.
OwnStep ==
  \/ RetractAtSetup \/ DisableAtSetup
  \/ BeginFeeding \/ ExtendServo \/ RetractServo \/ NextCycles \/ EndFeeding
  \/ BeginCheckIn
  \/ Wait

Next ==
  \/ OwnStep
  \/ \E r \in Response \cup {DefaultResponse}, real \in CheckInTimes,
        jump \in ClockJumps : FinishCheckIn(r, real, jump)
  \/ PowerLoss

Spec == Init /\ [][Next]_vars

\* The thread runs on. It is not assumed that a check-in ends: sendRequest()
\* reads without a timeout for as long as it believes it is connected
\* (http-client.cpp:34, 86, 113), and a server that is killed may leave it so
\* (Backend.java:22).
FairSpec == Spec /\ WF_vars(OwnStep)

-----------------------------------------------------------------------------
(* Properties.                                                             *)

\* Every variable keeps its type; the timers never wrap below 0.
TypeOK ==
  /\ pc \in {"setup", "disable_servo", "loop", "feed", "check_in"}
  /\ ram \in Ram
  /\ servo \in {"disable", "retract", "jiggle", "extend"}
  /\ arm \in {"retract", "jiggle", "extend"}
  /\ cycle \in [call : {"none", "shake", "serve", "settle"}, left : Nat]
  /\ due \in Time
  /\ losses \in 0 .. MaxPowerLosses

\* loop() never finds nothing to do and nothing to wait for: the "bad state"
\* its last branch repairs (app.cpp:121) is out of reach, whatever the server
\* answers and however long the check-in takes.
NeverInBadState ==
  pc = "loop" /\ ~ram.feed_now /\ ~ram.check_in_now => SleepMs > 0

\* A meal is due: the device holds an order it has not started to serve.
Armed == ram.feed_now \/ ram.delay_before_next_feeding_ms > 0

\* While a meal is ordered the feeding timer is less than a second away from
\* the real time left, so that the cat is fed neither early nor late: the
\* check-in's own duration is taken off (in whole seconds), and so is every
\* delay() and every jiggle.
TimerAccurate ==
  Armed => /\ ram.delay_before_next_feeding_ms < due + MsPerS
           /\ due < ram.delay_before_next_feeding_ms + MsPerS

\* What app.cpp:60 says of the feeding timer: when it raises feed_now the
\* ordered delay is over, to the second.
NotFedEarly == ram.feed_now => due < MsPerS

\* Outside setup() and feed() the servo is not driven and the chute is shut,
\* also when power was lost while the arm was extended.
ChuteShutWhenIdle ==
  pc \in {"loop", "check_in"} => servo = "disable" /\ arm = "retract"

\* What a state of the firmware is in terms of DeviceContract.
MealSizes == { AtLeast(n, MinimumScoops) : n \in ScoopCounts \cup {0} }
Phase == CASE pc = "feed" -> "feeding"
           [] pc = "check_in" -> "asking"
           [] OTHER -> "idle"
Order == IF Armed THEN ram.scoops_to_feed ELSE 0
Portion == CASE cycle.call = "shake" -> ram.scoops_to_feed
             [] cycle.call = "serve" -> cycle.left
             [] OTHER -> 0

Contract == INSTANCE DeviceContract WITH
  Scoops <- MealSizes, phase <- Phase, order <- Order, portion <- Portion,
  report <- ram.has_fed

\* The firmware implements DeviceContract: an order is served once, to its
\* last scoop, and a served meal is reported until the server consumed it.
ImplementsContract == Contract!ContractSpec

\* The device never falls silent: it checks in again and again, whatever
\* delays it is given and even if every check-in fails. It may stay in a
\* check-in that does not return, and nowhere else.
AlwaysChecksInAgain == []<>(pc = "check_in")

\* A meal that is due is served: nothing but a power loss comes between
\* feed_now and feed(), least of all a check-in, which might not return.
FeedNowServed == ram.feed_now ~> (pc \in {"feed", "setup"})
=============================================================================
