------------------------------ MODULE CatFeeder ------------------------------
(***************************************************************************)
(* The whole system: the feeder, the server, the user, and the network     *)
(* between them.                                                           *)
(*                                                                         *)
(* The feeder is DeviceContract, which the firmware implements (module     *)
(* PhotonDevice); the server is Backend. They meet in a check-in: one      *)
(* HTTP exchange, which may fail at any point. The feeder gives up on a    *)
(* broken connection, the thread that serves it does not notice.           *)
(***************************************************************************)
EXTENDS Backend

CONSTANTS
  NetworkMayFail,  \* connections fail, break, or lose the end of the answer
  MaxPowerLosses,  \* bound on the feeder's power losses
  MaxFailures,     \* bound on these and the server's crashes together
  MaxClicks,       \* bound on the clicks on "feed now"
  MaxUpdates       \* bound on the forms the user sends and the pages he opens

ASSUME CatFeederAssumption ==
  /\ NetworkMayFail \in BOOLEAN
  /\ MaxPowerLosses \in Nat
  /\ MaxFailures \in Nat
  /\ MaxClicks \in Nat
  /\ MaxUpdates \in Nat

VARIABLES
  phase, order, portion, report, losses,  \* the feeder: see DeviceContract
  link,      \* the thread at the other end of the check-in: {} or {t}
  reliable,  \* the network has failed for the last time
  meals,     \* meals served; the feeder reports the last one, number `meals'
  promised,  \* observed: the meal that the last click asked for
  clicks, updates  \* counted up to their bounds

deviceVars == <<phase, order, portion, report, losses>>
worldVars == <<link, reliable, meals, promised, clicks, updates>>
vars == <<backendVars, deviceVars, worldVars>>

Device == INSTANCE DeviceContract WITH Scoops <- ScoopSettings \cup {1}

Init ==
  /\ BackendInit
  /\ Device!ContractInit
  /\ link = {}
  /\ reliable = ~NetworkMayFail
  /\ meals = 0
  /\ promised = 0
  /\ clicks = 0
  /\ updates = 0

-----------------------------------------------------------------------------
(* A check-in, seen from the feeder.                                       *)

\* Mutant: the request leaves the last feeding out.
Connect_WithoutReport(t) ==
  /\ Device!Ask
  /\ Accept(t, CheckInRequest(NoMeal))
  /\ link' = {t}
  /\ UNCHANGED <<reliable, meals, promised, clicks, updates>>

\* The connection is made, the request sent, and a thread has parsed it.
Connect(t) ==
  /\ Device!Ask
  /\ Accept(t, CheckInRequest(IF report THEN meals ELSE NoMeal))
  /\ link' = {t}
  /\ UNCHANGED <<reliable, meals, promised, clicks, updates>>

ConnectFails ==
  /\ ~reliable
  /\ Device!Ask
  /\ UNCHANGED <<backendVars, worldVars>>

\* The connection breaks. The thread at its other end goes on.
ConnectionBreaks ==
  /\ ~reliable
  /\ link # {}
  /\ link' = {}
  /\ UNCHANGED <<backendVars, deviceVars, reliable, meals, promised, clicks, updates>>

\* Mutant: a failed check-in consumes the report as well.
CheckInFails_Consuming ==
  /\ link = {} \/ \E t \in link : At(t, "died")
  /\ Device!Answer(0, TRUE)
  /\ link' = {}
  /\ UNCHANGED <<backendVars, reliable, meals, promised, clicks, updates>>

\* No connection, a broken one, one closed without an answer: sendRequest()
\* returns the default response, which orders nothing and consumes nothing.
CheckInFails ==
  /\ link = {} \/ \E t \in link : At(t, "died")
  /\ Device!Answer(0, FALSE)
  /\ link' = {}
  /\ UNCHANGED <<backendVars, reliable, meals, promised, clicks, updates>>

\* Mutant: the answer never consumes the report.
ReceiveAnswer_NotConsuming(t) ==
  /\ t \in link
  /\ At(t, "answered")
  /\ Device!Answer(conn[t].scoops, FALSE)
  /\ Close(t)
  /\ link' = {}
  /\ UNCHANGED <<reliable, meals, promised, clicks, updates>>

\* The answer arrives whole. It consumes the report the request carried.
ReceiveAnswer(t) ==
  /\ t \in link
  /\ At(t, "answered")
  /\ Device!Answer(conn[t].scoops, conn[t].req.meal # NoMeal)
  /\ Close(t)
  /\ link' = {}
  /\ UNCHANGED <<reliable, meals, promised, clicks, updates>>

\* The connection breaks within the body, at the end of a field: the client
\* does not compare the length and nanopb decodes what there is. The delay
\* until the next feeding may be there without the scoops, and both without
\* last_feeding_time_consumed.
ReceivePartOfAnswer(t) ==
  /\ ~reliable
  /\ t \in link
  /\ At(t, "answered")
  /\ \E n \in {1, conn[t].scoops} : Device!Answer(n, FALSE)
  /\ Close(t)
  /\ link' = {}
  /\ UNCHANGED <<reliable, meals, promised, clicks, updates>>

\* External: the network. It may fail until here.
NetworkSettles ==
  /\ ~reliable
  /\ reliable' = TRUE
  /\ UNCHANGED <<backendVars, deviceVars, link, meals, promised, clicks, updates>>

-----------------------------------------------------------------------------
(* The feeder between check-ins.                                           *)

StartMeal ==
  /\ meals + 1 \in Meals
  /\ Device!StartMeal
  /\ UNCHANGED <<backendVars, worldVars>>

ServeScoop ==
  /\ Device!ServeScoop
  /\ UNCHANGED <<backendVars, worldVars>>

FinishMeal ==
  /\ Device!FinishMeal
  /\ meals' = meals + 1
  /\ UNCHANGED <<backendVars, link, reliable, promised, clicks, updates>>

PowerLoss ==
  /\ losses < MaxPowerLosses
  /\ losses + crashes < MaxFailures
  /\ Device!LosePower
  /\ link' = {}
  /\ UNCHANGED <<backendVars, reliable, meals, promised, clicks, updates>>

-----------------------------------------------------------------------------
(* The user and the server.                                                *)

ClickFeedNow(t) ==
  /\ clicks < MaxClicks
  /\ clicks' = clicks + 1
  /\ Accept(t, FeedNowRequest)
  /\ UNCHANGED <<deviceVars, link, reliable, meals, promised, updates>>

SendForm(t) ==
  /\ updates < MaxUpdates
  /\ updates' = updates + 1
  /\ \E s \in Schedules, n \in ScoopSettings \cup {0} : Accept(t, UpdateRequest(s, n))
  /\ UNCHANGED <<deviceVars, link, reliable, meals, promised, clicks>>

OpenHome(t) ==
  /\ updates < MaxUpdates
  /\ updates' = updates + 1
  /\ Accept(t, HomeRequest)
  /\ UNCHANGED <<deviceVars, link, reliable, meals, promised, clicks>>

\* The meals the feeder has begun.
MealsStarted == IF phase = "feeding" THEN meals + 1 ELSE meals

\* A thread goes on, whether or not its client is still there.
Serve(t) ==
  /\ ThreadStep(t)
  /\ promised' = IF At(t, "put") /\ conn[t].req.kind = "feed_now"
                 THEN MealsStarted + 1 ELSE promised
  /\ UNCHANGED <<deviceVars, link, reliable, meals, clicks, updates>>

\* A thread the feeder does not wait for closes its connection.
CloseOther(t) ==
  /\ t \notin link
  /\ Close(t)
  /\ UNCHANGED <<deviceVars, worldVars>>

\* A text that the admin should get fails, whatever the file does
\* (OutageNotifier.java:46); the timer is dead until the server is restarted.
TextingFails ==
  /\ TimerDies
  /\ UNCHANGED <<deviceVars, worldVars>>

ServerCrash ==
  /\ losses + crashes < MaxFailures
  /\ Crash
  /\ link' = {}
  /\ UNCHANGED <<deviceVars, reliable, meals, promised, clicks, updates>>

Next ==
  \/ \E t \in Conns : \/ Connect(t) \/ ReceiveAnswer(t) \/ ReceivePartOfAnswer(t)
                      \/ ClickFeedNow(t) \/ SendForm(t) \/ OpenHome(t)
                      \/ Serve(t) \/ CloseOther(t)
  \/ ConnectFails \/ ConnectionBreaks \/ NetworkSettles \/ CheckInFails
  \/ StartMeal \/ ServeScoop \/ FinishMeal
  \/ PowerLoss \/ TextingFails \/ ServerCrash

Spec == Init /\ [][Next]_vars

\* What the feeder does next in the phase it is in.
FeederGoesOn ==
  \/ \E t \in Conns : Connect(t) \/ ReceiveAnswer(t)
  \/ CheckInFails \/ ServeScoop \/ FinishMeal

\* The feeder and the threads are scheduled, an answer that is on a connection
\* that does not break arrives, and the network does not fail for ever. With
\* CheckInFails it is assumed that every check-in returns in the end: that a
\* broken connection is noticed, for there is no timeout (http-client.cpp:34),
\* and that server and client do not wait for each other (see ExchangeEnds in
\* CheckInExchange). The feeder that is ordered a meal again and again does not
\* always ask before it is due: one that is due at once comes before the next
\* check-in (see FeedNowServed in PhotonDevice).
Fairness ==
  /\ WF_vars(NetworkSettles)
  /\ SF_vars(StartMeal)
  /\ WF_vars(FeederGoesOn)
  /\ \A t \in Conns : WF_vars(Serve(t) \/ CloseOther(t))

FairSpec == Spec /\ Fairness

-----------------------------------------------------------------------------
(* Properties.                                                             *)

TypeOK ==
  /\ BackendTypeOK
  /\ phase \in {"idle", "asking", "feeding"}
  /\ order \in ScoopSettings \cup {0, 1}
  /\ portion \in Nat
  /\ report \in BOOLEAN
  /\ losses \in 0 .. MaxPowerLosses
  /\ link \subseteq Conns
  /\ reliable \in BOOLEAN
  /\ meals \in Meals \cup {0}

\* The feeder remembers one meal. It never serves another one, nor holds an
\* order to, before the last one has been recorded by the server: whatever
\* is lost, delayed or restarted, no meal goes unreported by being overwritten.
NoMealIsOverwritten ==
  report /\ (order > 0 \/ phase = "feeding") => meals \in recorded

\* The feeder stops reporting a meal only when the server did record it.
NoReportIsDropped ==
  [][report /\ ~report' /\ ~PowerLoss => meals \in recorded]_vars

\* The history is in the order in which the meals were served.
HistoryIsInOrder ==
  \A i, j \in DOMAIN Current.last_ten :
    i < j => Current.last_ten[i] >= Current.last_ten[j]

\* cat_feeder.proto:20: without a schedule the answer holds no delay until the
\* next feeding; that is, there is an answer (as long as the timer is alive).
CheckInsAreAnswered ==
  timerDead \/ \A t \in Conns : ~At(t, "died")

\* A meal is reported until the server has consumed the report, and that
\* happens in the end, whatever the server's file lost in a crash. Excepted is
\* a server that answers no check-in: one without a schedule, whose file may
\* have lost it (ProtoBodyRenderer.java:20), and one that failed to send a text.
\* That ends the timer (OutageNotifier.java:46), and until the server restarts
\* every check-in dies where it sets the next timeout (Backend.java:64).
ReportIsConsumed ==
  report ~> ~report \/ timerDead \/ Current.feeding_schedule # "FEED"

\* A click is followed by a meal, through power losses and failed check-ins,
\* with and without a schedule. The meal may be a scheduled one, because the
\* report of an earlier meal takes the click back (FeedingTimeUpdater.java:33);
\* without a schedule there is then none. Excepted are also a server whose timer
\* died of a failed text, which answers no check-in until it restarts
\* (OutageNotifier.java:46, Backend.java:64), and one that crashed (the last
\* meal of the model has none after it).
ClickFeedsTheCat ==
  (MealsStarted < promised /\ promised \in Meals)
    ~> \/ MealsStarted >= promised
       \/ timerDead
       \/ crashes > 0
       \/ ~Current.feed_asap /\ Current.feeding_schedule # "FEED"
=============================================================================
