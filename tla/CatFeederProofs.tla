--------------------------- MODULE CatFeederProofs ---------------------------
(***************************************************************************)
(* Proofs about the whole system, for any number of connections, meals,    *)
(* clicks, forms, crashes and power losses: a meal the feeder served is    *)
(* not forgotten between the feeder and the server.                        *)
(***************************************************************************)
EXTENDS CatFeeder, BackendProofs

-----------------------------------------------------------------------------
(* The inductive invariants.                                               *)

\* The feeder reports meals it served, and an order is used up when the meal
\* it is for begins.
FeederInv ==
  /\ phase \in {"idle", "asking", "feeding"}
  /\ order \in ScoopSettings \cup {0, 1}
  /\ portion \in Nat
  /\ report \in BOOLEAN
  /\ losses \in 0 .. MaxPowerLosses
  /\ link \subseteq Conns
  /\ reliable \in BOOLEAN
  /\ meals \in Meals \cup {0}
  /\ report => meals \in Meals
  /\ phase = "feeding" => order = 0 /\ meals + 1 \in Meals

\* Thread t handled its request as far as set().
HasPut(t) == conn[t].pc \notin {"free", "get", "load", "fill", "put"}

\* Past set(), the meal that thread t's request reports is recorded.
PutIsRecorded(t) ==
  HasPut(t) /\ Reports(conn[t].req) => conn[t].req.meal \in recorded

\* Thread t serves the check-in the feeder waits for: its request is still the
\* one the feeder would send now.
ServesFeeder(t) ==
  /\ phase = "asking"
  /\ conn[t] # Free
  /\ conn[t].req = CheckInRequest(IF report THEN meals ELSE NoMeal)

\* The strengthening of NoMealIsOverwritten and NoReportIsDropped: an answer
\* comes from a thread that has recorded the meal the feeder still reports.
ReportInv ==
  /\ \A t \in Conns : PutIsRecorded(t)
  /\ \A t \in link : ServesFeeder(t)
  /\ NoMealIsOverwritten

InOrder(h) == \A i, j \in DOMAIN h : i < j => h[i] >= h[j]

\* A thread that is about to record a meal reports the latest one.
LatestInv(t) ==
  conn[t].pc \in {"get", "load", "fill", "put"} /\ Reports(conn[t].req) =>
    conn[t].req.meal <= meals /\ \A m \in recorded : m <= conn[t].req.meal

\* Every history that anybody holds is in order.
HistoriesInOrder ==
  /\ InOrder(disk.last_ten)
  /\ cache # <<>> => InOrder(cache[1].last_ten)
  /\ \A t \in Conns : conn[t] # Free => InOrder(conn[t].copy.last_ten)

\* The strengthening of HistoryIsInOrder.
OrderInv ==
  /\ \A m \in recorded : m <= meals
  /\ \A t \in Conns : LatestInv(t)
  /\ HistoriesInOrder

-----------------------------------------------------------------------------
(* The composition: the system's steps as the server and the feeder see    *)
(* them.                                                                   *)

\* The step of one thread, as the server alone would take it.
LEMMA AnyThreadStep ==
  ASSUME NEW t \in Conns,
         (\E req \in Requests : Accept(t, req)) \/ ThreadStep(t) \/ Close(t)
  PROVE  BackendNext
BY DEF BackendNext

\* The server knows of the rest of the system through its requests only: every
\* step of the system is a step of the server, or none.
LEMMA ServerStep ==
  ASSUME FeederInv, [Next]_vars
  PROVE  [BackendNext]_backendVars
<1>1. ASSUME NEW t \in Conns, Connect(t) \/ ClickFeedNow(t) \/ SendForm(t) \/ OpenHome(t)
      PROVE  \E req \in Requests : Accept(t, req)
  <2>1. CASE Connect(t)
    <3>1. (IF report THEN meals ELSE NoMeal) \in Meals \cup {NoMeal}
      BY DEF FeederInv
    <3> QED
      BY <2>1, <3>1 DEF Connect, Requests
  <2>2. CASE ClickFeedNow(t) \/ OpenHome(t)
    BY <2>2 DEF ClickFeedNow, OpenHome, Requests
  <2>3. CASE SendForm(t)
    BY <2>3 DEF SendForm, Requests
  <2> QED
    BY <1>1, <2>1, <2>2, <2>3
<1>2. ASSUME NEW t \in Conns, ReceiveAnswer(t) \/ ReceivePartOfAnswer(t) \/ CloseOther(t)
      PROVE  Close(t)
  BY <1>2 DEF ReceiveAnswer, ReceivePartOfAnswer, CloseOther
<1>3. ASSUME NEW t \in Conns, Serve(t)
      PROVE  ThreadStep(t)
  BY <1>3 DEF Serve
<1>4. CASE TextingFails \/ ServerCrash
  BY <1>4 DEF TextingFails, ServerCrash, BackendNext
<1>5. CASE \/ ConnectFails \/ ConnectionBreaks \/ NetworkSettles \/ CheckInFails
           \/ StartMeal \/ ServeScoop \/ FinishMeal \/ PowerLoss
           \/ UNCHANGED vars
  BY <1>5 DEF ConnectFails, ConnectionBreaks, NetworkSettles, CheckInFails, StartMeal,
              ServeScoop, FinishMeal, PowerLoss, vars
<1> QED
  BY <1>1, <1>2, <1>3, <1>4, <1>5, AnyThreadStep DEF Next

\* What the steps do to the feeder, its connection and its count of meals.
LEMMA FeederStep ==
  ASSUME BackendInv, FeederInv, [Next]_vars
  PROVE  FeederInv'
<1> USE DEF FeederInv
<1>0. ScoopSettings \cup {0, 1} \subseteq Nat /\ Meals \cup {0} \subseteq Nat
  BY RegisterAssumption
<1>1. ASSUME NEW t \in Conns, Connect(t)
      PROVE  FeederInv'
  BY <1>1 DEF Connect, Device!Ask
<1>2. ASSUME NEW t \in Conns, ReceiveAnswer(t) \/ ReceivePartOfAnswer(t)
      PROVE  FeederInv'
  <2>1. conn[t].scoops \in ScoopSettings \cup {0, 1}
    BY <1>2, ThreadType DEF ReceiveAnswer, ReceivePartOfAnswer, At
  <2>2. PICK n \in ScoopSettings \cup {0, 1}, consumed \in BOOLEAN :
          Device!Answer(n, consumed)
    BY <1>2, <2>1 DEF ReceiveAnswer, ReceivePartOfAnswer
  <2>3. link' = {} /\ UNCHANGED <<reliable, meals>>
    BY <1>2 DEF ReceiveAnswer, ReceivePartOfAnswer
  <2> QED
    BY <2>2, <2>3 DEF Device!Answer
<1>3. ASSUME NEW t \in Conns,
             ClickFeedNow(t) \/ SendForm(t) \/ OpenHome(t) \/ Serve(t) \/ CloseOther(t)
      PROVE  FeederInv'
  BY <1>3 DEF ClickFeedNow, SendForm, OpenHome, Serve, CloseOther, deviceVars, worldVars
<1>4. CASE ConnectFails
  BY <1>4 DEF ConnectFails, Device!Ask, worldVars
<1>5. CASE ConnectionBreaks \/ NetworkSettles \/ TextingFails \/ ServerCrash
  <2>1. /\ UNCHANGED <<phase, order, portion, report, losses, meals>>
        /\ link' \in {link, {}}
        /\ reliable' \in {reliable, TRUE}
    BY <1>5 DEF ConnectionBreaks, NetworkSettles, TextingFails, ServerCrash,
                deviceVars, worldVars
  <2> QED
    BY <2>1
<1>6. CASE CheckInFails
  BY <1>6 DEF CheckInFails, Device!Answer
<1>7. CASE StartMeal
  BY <1>0, <1>7 DEF StartMeal, Device!StartMeal, worldVars
<1>8. CASE ServeScoop
  BY <1>0, <1>8 DEF ServeScoop, Device!ServeScoop, worldVars
<1>9. CASE FinishMeal
  BY <1>0, <1>9 DEF FinishMeal, Device!FinishMeal
<1>10. CASE PowerLoss
  <2>1. losses' \in 0 .. MaxPowerLosses
    BY <1>10, CatFeederAssumption DEF PowerLoss, Device!LosePower
  <2> QED
    BY <1>10, <2>1 DEF PowerLoss, Device!LosePower
<1>11. CASE UNCHANGED vars
  BY <1>11 DEF vars, deviceVars, worldVars
<1> QED
  BY <1>1, <1>2, <1>3, <1>4, <1>5, <1>6, <1>7, <1>8, <1>9, <1>10, <1>11 DEF Next

LEMMA FeederInvInit == Init => FeederInv
<1> SUFFICES ASSUME Init
             PROVE  FeederInv
  OBVIOUS
<1>1. losses \in 0 .. MaxPowerLosses
  BY CatFeederAssumption DEF Init, Device!ContractInit
<1>2. reliable \in BOOLEAN
  BY Zenon DEF Init
<1> QED
  BY <1>1, <1>2 DEF Init, Device!ContractInit, FeederInv

LEMMA FeederInvHolds == Spec => [](BackendInv /\ FeederInv)
<1>1. Init => BackendInv /\ FeederInv
  BY BackendInitInv, FeederInvInit DEF Init
<1>2. BackendInv /\ FeederInv /\ [Next]_vars => (BackendInv /\ FeederInv)'
  BY ServerStep, BackendInvStep, FeederStep
<1> QED
  BY <1>1, <1>2, PTL DEF Spec

\* Whatever the feeder, the user and the network do, the server in the system
\* behaves like the server alone: all that is proved of it holds here.
THEOREM SystemRunsBackend == Spec => BackendSpec
<1>1. Init => BackendInit
  BY DEF Init
<1>2. FeederInv /\ [Next]_vars => [BackendNext]_backendVars
  BY ServerStep
<1> QED
  BY <1>1, <1>2, FeederInvHolds, PTL DEF Spec, BackendSpec

\* The state of the whole system is well-formed: the feeder's globals, its one
\* connection, the server's threads and preferences.
THEOREM SystemIsTyped == Spec => []TypeOK
<1>1. BackendInv /\ FeederInv => TypeOK
  BY BackendInvIsEnough DEF FeederInv, TypeOK
<1> QED
  BY <1>1, FeederInvHolds, PTL

\* In the whole system, too, no feeding is made up.
THEOREM SystemInventsNoFeeding == Spec => []NoFeedingIsInvented
BY SystemRunsBackend, FeedingsAreReported, PTL

-----------------------------------------------------------------------------
(* A meal stays in the feeder's memory until it is in the server's.        *)

\* What a step of thread t does to the requests: it takes t further, and only
\* by PutIntoCache past set() when the request reports a meal.
LEMMA ThreadProgress ==
  ASSUME BackendInv, NEW t \in Conns, ThreadStep(t)
  PROVE  /\ conn[t] # Free
         /\ conn'[t].pc # "free"
         /\ conn'[t].req = conn[t].req
         /\ HasPut(t) => HasPut(t)'
         /\ HasPut(t)' /\ Reports(conn[t].req) => HasPut(t) \/ PutIntoCache(t)
         /\ \A u \in Conns \ {t} : /\ conn'[u].pc = conn[u].pc
                                   /\ conn'[u].req = conn[u].req
         /\ recorded' = IF PutIntoCache(t) /\ Reports(conn[t].req)
                        THEN recorded \cup {conn[t].req.meal} ELSE recorded
<1>1. /\ conn[t] # Free /\ conn[t] \in Busy
      /\ conn \in [Conns -> {Free} \cup Busy]
  BY ThreadType DEF BackendInv, ThreadStep, GetFromCache, GetMissed, Deserialize,
                    FillCache, PutIntoCache, TruncateFile, WriteFile,
                    RearmOutageTimeout, RenderFeedAsap, RenderNextFeeding,
                    RenderScoops, At
<1>2. CASE PutIntoCache(t)
  <2>1. /\ conn'[t].pc = "truncate" /\ conn'[t].req = conn[t].req
        /\ \A u \in Conns \ {t} : conn'[u] = conn[u]
    BY <1>1, <1>2 DEF PutIntoCache, Busy
  <2>2. recorded' = IF Reports(conn[t].req)
                    THEN recorded \cup {conn[t].req.meal} ELSE recorded
    BY <1>2 DEF PutIntoCache, Reports
  <2>3. conn[t].pc = "put"
    BY <1>2 DEF PutIntoCache, At
  <2> QED
    BY <1>1, <1>2, <2>1, <2>2, <2>3 DEF HasPut
<1>3. CASE ~PutIntoCache(t)
  <2>1. recorded' = recorded
    BY <1>3 DEF ThreadStep, GetFromCache, GetMissed, Deserialize, FillCache,
                TruncateFile, WriteFile, RearmOutageTimeout, RenderFeedAsap,
                RenderNextFeeding, RenderScoops
  <2>2. CASE GetFromCache(t) \/ FillCache(t)
    <3>1. /\ conn[t].pc \in {"get", "fill"}
          /\ conn'[t].pc = AfterGet(t) /\ conn'[t].req = conn[t].req
          /\ \A u \in Conns \ {t} : conn'[u] = conn[u]
      BY <1>1, <2>2 DEF GetFromCache, FillCache, Goto, At, Busy
    <3>2. \/ conn'[t].pc = "put"
          \/ ~Reports(conn[t].req) /\ conn'[t].pc = "answered"
      BY <3>1 DEF AfterGet, Reports
    <3> QED
      BY <1>1, <1>3, <2>1, <3>1, <3>2 DEF HasPut
  <2>3. CASE GetMissed(t) \/ Deserialize(t)
    <3>1. /\ conn[t].pc \in {"get", "load"}
          /\ conn'[t].pc \in {"load", "fill"} /\ conn'[t].req = conn[t].req
          /\ \A u \in Conns \ {t} : conn'[u] = conn[u]
      BY <1>1, <2>3 DEF GetMissed, Deserialize, Goto, At, Busy
    <3> QED
      BY <1>1, <1>3, <2>1, <3>1 DEF HasPut
  <2>4. CASE TruncateFile(t) \/ WriteFile(t)
    <3>1. /\ conn[t].pc \in {"truncate", "write"}
          /\ conn'[t].pc \in {"write", "notify", "answered"}
          /\ conn'[t].req = conn[t].req
      <4>1. CASE TruncateFile(t)
        BY <1>1, <4>1 DEF TruncateFile, AfterSet, At, Busy
      <4>2. CASE WriteFile(t)
        BY <1>1, <4>2 DEF WriteFile, AfterSet, At, Busy
      <4> QED
        BY <2>4, <4>1, <4>2
    <3>2. ASSUME NEW u \in Conns \ {t}
          PROVE  conn'[u].pc = conn[u].pc /\ conn'[u].req = conn[u].req
      <4>1. CASE TruncateFile(t)
        BY <1>1, <4>1 DEF TruncateFile
      <4>2. CASE WriteFile(t)
        <5>1. conn'[u] = IF At(u, "write") THEN [conn[u] EXCEPT !.alone = FALSE] ELSE conn[u]
          BY <4>2 DEF WriteFile
        <5>2. At(u, "write") => conn[u] \in Busy
          BY ThreadType DEF At
        <5> QED
          BY <5>1, <5>2 DEF Busy
      <4> QED
        BY <2>4, <4>1, <4>2
    <3> QED
      BY <1>1, <1>3, <2>1, <3>1, <3>2 DEF HasPut
  <2>5. CASE \/ RearmOutageTimeout(t)
             \/ RenderFeedAsap(t) \/ RenderNextFeeding(t) \/ RenderScoops(t)
    <3>1. conn[t].pc \in {"notify", "render", "render_schedule", "render_scoops"}
      BY <2>5 DEF RearmOutageTimeout, RenderFeedAsap, RenderNextFeeding, RenderScoops, At
    <3>2. /\ conn'[t].pc \in {"died", "render", "render_schedule", "render_scoops",
                              "answered"}
          /\ conn'[t].req = conn[t].req
          /\ \A u \in Conns \ {t} : conn'[u] = conn[u]
      <4>1. CASE RearmOutageTimeout(t)
        BY <1>1, <4>1 DEF RearmOutageTimeout, Goto, Busy
      <4>2. CASE RenderFeedAsap(t)
        BY <1>1, <4>2 DEF RenderFeedAsap, Busy
      <4>3. CASE RenderNextFeeding(t)
        BY <1>1, <4>3 DEF RenderNextFeeding, Goto, Busy
      <4>4. CASE RenderScoops(t)
        BY <1>1, <4>4 DEF RenderScoops, Busy
      <4> QED
        BY <2>5, <4>1, <4>2, <4>3, <4>4
    <3> QED
      BY <1>1, <1>3, <2>1, <3>1, <3>2 DEF HasPut
  <2> QED
    BY <1>3, <2>2, <2>3, <2>4, <2>5 DEF ThreadStep
<1> QED
  BY <1>2, <1>3

\* Accept(t, req) puts thread t at the start of request req.
LEMMA AcceptEffect ==
  ASSUME BackendInv, NEW t \in Conns, NEW req \in Requests, Accept(t, req)
  PROVE  /\ conn[t] = Free
         /\ conn'[t] # Free /\ conn'[t].pc = "get" /\ conn'[t].req = req
         /\ conn'[t].copy = DefaultPreferences
         /\ \A u \in Conns \ {t} : conn'[u] = conn[u]
         /\ UNCHANGED <<cache, disk, recorded>>
BY ThreadType DEF Accept, At, BackendInv, Free

\* Close(t) frees thread t.
LEMMA CloseEffect ==
  ASSUME BackendInv, NEW t \in Conns, Close(t)
  PROVE  /\ conn'[t] = Free
         /\ \A u \in Conns \ {t} : conn'[u] = conn[u]
         /\ UNCHANGED <<cache, disk, recorded>>
BY DEF Close, BackendInv

\* The server forgets no report it has recorded, and a thread passes set() by
\* recording the report of its request.
LEMMA RecordingStep ==
  ASSUME BackendInv, \A t \in Conns : PutIsRecorded(t), [BackendNext]_backendVars
  PROVE  /\ recorded \subseteq recorded'
         /\ \A t \in Conns : PutIsRecorded(t)'
<1> USE DEF PutIsRecorded, HasPut
<1>1. ASSUME NEW t \in Conns, NEW req \in Requests, Accept(t, req)
      PROVE  recorded \subseteq recorded' /\ \A u \in Conns : PutIsRecorded(u)'
  BY <1>1, AcceptEffect
<1>2. ASSUME NEW t \in Conns, ThreadStep(t)
      PROVE  recorded \subseteq recorded' /\ \A u \in Conns : PutIsRecorded(u)'
  BY <1>2, ThreadProgress DEF Reports
<1>3. ASSUME NEW t \in Conns, Close(t)
      PROVE  recorded \subseteq recorded' /\ \A u \in Conns : PutIsRecorded(u)'
  BY <1>3, CloseEffect DEF Free
<1>4. CASE TimerDies \/ UNCHANGED backendVars
  BY <1>4 DEF TimerDies, backendVars
<1>5. CASE Crash
  BY <1>5 DEF Crash, Free
<1> QED
  BY <1>1, <1>2, <1>3, <1>4, <1>5 DEF BackendNext

\* The connection of a check-in leads to the thread that serves it, whatever
\* other threads, clients and the network do.
LEMMA LinkStep ==
  ASSUME BackendInv, FeederInv, \A t \in link : ServesFeeder(t), [Next]_vars
  PROVE  \A t \in link' : ServesFeeder(t)'
<1> USE DEF ServesFeeder
<1>0. link \subseteq Conns
  BY DEF FeederInv
<1>1. CASE link' = {}
  BY <1>1
<1>2. ASSUME NEW t \in Conns, Connect(t)
      PROVE  \A u \in link' : ServesFeeder(u)'
  <2> DEFINE m == IF report THEN meals ELSE NoMeal
  <2>1. CheckInRequest(m) \in Requests
    BY DEF FeederInv, Requests
  <2>2. conn'[t] # Free /\ conn'[t].req = CheckInRequest(m)
    BY <1>2, <2>1, AcceptEffect DEF Connect
  <2>3. phase' = "asking" /\ link' = {t} /\ report' = report /\ meals' = meals
    BY <1>2 DEF Connect, Device!Ask
  <2> QED
    BY <2>2, <2>3
<1>3. ASSUME NEW t \in Conns, ClickFeedNow(t) \/ SendForm(t) \/ OpenHome(t)
      PROVE  \A u \in link' : ServesFeeder(u)'
  <2>1. PICK req \in Requests : Accept(t, req)
    BY <1>3 DEF ClickFeedNow, SendForm, OpenHome, Requests
  <2>2. UNCHANGED <<phase, report, link, meals>>
    BY <1>3 DEF ClickFeedNow, SendForm, OpenHome, deviceVars
  <2>3. conn[t] = Free /\ \A u \in Conns \ {t} : conn'[u] = conn[u]
    BY <2>1, AcceptEffect
  <2> QED
    BY <1>0, <2>2, <2>3
<1>4. ASSUME NEW t \in Conns, Serve(t)
      PROVE  \A u \in link' : ServesFeeder(u)'
  <2>1. UNCHANGED <<phase, report, link, meals>>
    BY <1>4 DEF Serve, deviceVars
  <2>2. \A u \in link : conn[u].pc # "free"
    BY <1>0, ThreadType
  <2>3. \A u \in link : conn'[u].pc # "free" /\ conn'[u].req = conn[u].req
    BY <1>0, <1>4, <2>2, ThreadProgress DEF Serve
  <2> QED
    BY <2>1, <2>3 DEF Free
<1>5. ASSUME NEW t \in Conns, CloseOther(t)
      PROVE  \A u \in link' : ServesFeeder(u)'
  <2>1. t \notin link /\ Close(t) /\ UNCHANGED <<phase, report, link, meals>>
    BY <1>5 DEF CloseOther, deviceVars, worldVars
  <2> QED
    BY <1>0, <2>1, CloseEffect
<1>6. CASE TextingFails \/ NetworkSettles \/ UNCHANGED vars
  BY <1>6 DEF TextingFails, TimerDies, NetworkSettles, vars, backendVars, deviceVars,
              worldVars
<1>7. CASE ConnectFails \/ StartMeal \/ ServeScoop \/ FinishMeal
  <2>1. link = {}
    BY <1>7 DEF ConnectFails, StartMeal, ServeScoop, FinishMeal, Device!Ask,
                Device!StartMeal, Device!ServeScoop, Device!FinishMeal
  <2> QED
    BY <1>7, <2>1 DEF ConnectFails, StartMeal, ServeScoop, FinishMeal, worldVars
<1>8. ASSUME NEW t \in Conns, ReceiveAnswer(t) \/ ReceivePartOfAnswer(t)
      PROVE  link' = {}
  BY <1>8 DEF ReceiveAnswer, ReceivePartOfAnswer
<1>9. CASE ConnectionBreaks \/ CheckInFails \/ PowerLoss \/ ServerCrash
  BY <1>9 DEF ConnectionBreaks, CheckInFails, PowerLoss, ServerCrash
<1> QED
  BY <1>1, <1>2, <1>3, <1>4, <1>5, <1>6, <1>7, <1>8, <1>9 DEF Next

\* An answer that reaches the feeder was sent after set(): what the feeder
\* still reports, the server has recorded.
LEMMA AnswerIsAfterPut ==
  ASSUME BackendInv, FeederInv, ReportInv, report,
         NEW t \in link, At(t, "answered")
  PROVE  /\ meals \in recorded
         /\ conn[t].req.meal = meals /\ conn[t].req.meal # NoMeal
<1>1. t \in Conns /\ ServesFeeder(t) /\ PutIsRecorded(t)
  BY DEF FeederInv, ReportInv
<1>2. meals \in Meals /\ meals # NoMeal
  BY RegisterAssumption DEF FeederInv, NoMeal
<1>3. conn[t].req.kind = "photon" /\ conn[t].req.meal = meals
  BY <1>1 DEF ServesFeeder, CheckInRequest
<1> QED
  BY <1>1, <1>2, <1>3 DEF PutIsRecorded, HasPut, Reports, At

\* No order reaches a feeder whose last meal the server has not recorded.
LEMMA OverwriteStep ==
  ASSUME BackendInv, FeederInv, ReportInv, [Next]_vars
  PROVE  NoMealIsOverwritten'
<1> USE DEF NoMealIsOverwritten
<1>0. recorded \subseteq recorded'
  BY ServerStep, RecordingStep DEF ReportInv
<1>1. CASE UNCHANGED <<report, order, phase, meals>>
  BY <1>0, <1>1 DEF ReportInv
<1>2. ASSUME NEW t \in Conns, Connect(t)
      PROVE  NoMealIsOverwritten'
  BY <1>0, <1>2 DEF Connect, Device!Ask, ReportInv
<1>3. CASE ConnectFails
  BY <1>0, <1>3 DEF ConnectFails, Device!Ask, worldVars, ReportInv
<1>4. ASSUME NEW t \in Conns, ReceiveAnswer(t) \/ ReceivePartOfAnswer(t)
      PROVE  NoMealIsOverwritten'
  <2>1. t \in link /\ At(t, "answered") /\ meals' = meals
    BY <1>4 DEF ReceiveAnswer, ReceivePartOfAnswer
  <2>2. report' => report
    BY <1>4 DEF ReceiveAnswer, ReceivePartOfAnswer, Device!Answer
  <2> QED
    BY <1>0, <2>1, <2>2, AnswerIsAfterPut
<1>5. CASE CheckInFails
  BY <1>5 DEF CheckInFails, Device!Answer
<1>6. CASE StartMeal
  BY <1>0, <1>6 DEF StartMeal, Device!StartMeal, worldVars, ReportInv
<1>7. CASE FinishMeal
  <2>1. phase' = "idle" /\ order' = 0
    BY <1>7 DEF FinishMeal, Device!FinishMeal, FeederInv
  <2> QED
    BY <2>1
<1>8. CASE PowerLoss
  BY <1>8 DEF PowerLoss, Device!LosePower
<1>9. CASE ServeScoop
  BY <1>0, <1>9 DEF ServeScoop, Device!ServeScoop, worldVars, ReportInv
<1>10. ASSUME NEW t \in Conns,
              ClickFeedNow(t) \/ SendForm(t) \/ OpenHome(t) \/ Serve(t) \/ CloseOther(t)
       PROVE  UNCHANGED <<report, order, phase, meals>>
  BY <1>10 DEF ClickFeedNow, SendForm, OpenHome, Serve, CloseOther, deviceVars, worldVars
<1>11. CASE \/ ConnectionBreaks \/ NetworkSettles \/ TextingFails \/ ServerCrash
            \/ UNCHANGED vars
  BY <1>1, <1>11 DEF ConnectionBreaks, NetworkSettles, TextingFails, ServerCrash, vars,
                     deviceVars, worldVars
<1> QED
  BY <1>1, <1>2, <1>3, <1>4, <1>5, <1>6, <1>7, <1>8, <1>9, <1>10, <1>11 DEF Next

LEMMA ReportInvStep ==
  ASSUME BackendInv, FeederInv, ReportInv, [Next]_vars
  PROVE  ReportInv'
BY ServerStep, RecordingStep, LinkStep, OverwriteStep DEF ReportInv

LEMMA ReportInvInit == Init => ReportInv
BY DEF Init, BackendInit, Device!ContractInit, ReportInv, PutIsRecorded, HasPut, Free,
       NoMealIsOverwritten

LEMMA ReportInvHolds == Spec => [](BackendInv /\ FeederInv /\ ReportInv)
<1>1. BackendInv /\ FeederInv /\ ReportInv /\ [Next]_vars => ReportInv'
  BY ReportInvStep
<1> QED
  BY <1>1, FeederInvHolds, ReportInvInit, PTL DEF Spec

\* The feeder has room for the time of one meal. It never holds an order, nor
\* serves one, while it remembers a meal that the server has not recorded:
\* through broken connections, answers cut short, stale threads, failing reads
\* and writes and crashes of the server.
THEOREM MealsAreNotOverwritten == Spec => []NoMealIsOverwritten
<1>1. ReportInv => NoMealIsOverwritten
  BY DEF ReportInv
<1> QED
  BY <1>1, ReportInvHolds, PTL

\* The feeder stops reporting a meal only when the server has recorded it, or
\* when it loses power.
THEOREM ReportsAreNotDropped == Spec => NoReportIsDropped
<1>1. ASSUME BackendInv, FeederInv, ReportInv, [Next]_vars
      PROVE  report /\ ~report' /\ ~PowerLoss => meals \in recorded
  <2> SUFFICES ASSUME report, ~report', ~PowerLoss
               PROVE  meals \in recorded
    OBVIOUS
  <2>1. ASSUME NEW t \in Conns, ReceiveAnswer(t)
        PROVE  meals \in recorded
    BY <1>1, <2>1, AnswerIsAfterPut DEF ReceiveAnswer
  <2>2. ASSUME NEW t \in Conns, \/ Connect(t) \/ ReceivePartOfAnswer(t) \/ ClickFeedNow(t)
                                \/ SendForm(t) \/ OpenHome(t) \/ Serve(t) \/ CloseOther(t)
        PROVE  report'
    BY <2>2 DEF Connect, ReceivePartOfAnswer, ClickFeedNow, SendForm, OpenHome, Serve,
                CloseOther, Device!Ask, Device!Answer, deviceVars, worldVars
  <2>3. CASE \/ ConnectFails \/ ConnectionBreaks \/ NetworkSettles \/ CheckInFails
             \/ StartMeal \/ ServeScoop \/ FinishMeal \/ TextingFails \/ ServerCrash
             \/ UNCHANGED vars
    BY <2>3 DEF ConnectFails, ConnectionBreaks, NetworkSettles, CheckInFails, StartMeal,
                ServeScoop, FinishMeal, TextingFails, ServerCrash, Device!Ask,
                Device!Answer, Device!StartMeal, Device!ServeScoop, Device!FinishMeal,
                vars, deviceVars, worldVars
  <2> QED
    BY <1>1, <2>1, <2>2, <2>3 DEF Next
<1>2. BackendInv /\ FeederInv /\ ReportInv /\ [Next]_vars
        => [report /\ ~report' /\ ~PowerLoss => meals \in recorded]_vars
  BY <1>1
<1> QED
  BY <1>2, ReportInvHolds, PTL DEF Spec, NoReportIsDropped

-----------------------------------------------------------------------------
(* The order of the history, while requests come one at a time.            *)

\* A meal that is as late as any in a history goes in front of it.
LEMMA RememberInOrder ==
  ASSUME NEW h \in Seq(Meals), Len(h) <= HistoryLength, InOrder(h),
         NEW m \in Meals, \A i \in DOMAIN h : h[i] <= m
  PROVE  InOrder(Remember(h, m))
<1> DEFINE r == Remember(h, m)
<1>1. /\ r \in Seq(Meals)
      /\ r[1] = m
      /\ \A i \in 2 .. Len(r) : i - 1 \in DOMAIN h /\ r[i] = h[i - 1]
  BY RememberEffect
<1> HIDE DEF r
<1>2. DOMAIN r = 1 .. Len(r) /\ Len(r) \in Nat
  BY <1>1, LenProperties
<1>3. Meals \subseteq Nat
  BY RegisterAssumption
<1>4. ASSUME NEW i \in DOMAIN r, NEW j \in DOMAIN r, i < j
      PROVE  r[i] >= r[j]
  <2>1. j \in 2 .. Len(r)
    BY <1>2, <1>4
  <2>2. CASE i = 1
    <3>1. h[j - 1] <= m /\ r[j] = h[j - 1] /\ r[i] = m
      BY <1>1, <2>1, <2>2
    <3>2. r[j] <= m
      BY <3>1
    <3> QED
      BY <1>1, <1>2, <1>3, <3>1, <3>2, ElementOfSeq
  <2>3. CASE i # 1
    <3>1. /\ i \in 2 .. Len(r)
          /\ i - 1 < j - 1
      BY <1>2, <1>4, <2>1, <2>3
    <3>2. /\ i - 1 \in DOMAIN h /\ r[i] = h[i - 1]
          /\ j - 1 \in DOMAIN h /\ r[j] = h[j - 1]
      BY <1>1, <2>1, <3>1
    <3> QED
      BY <3>1, <3>2 DEF InOrder
  <2> QED
    BY <2>2, <2>3
<1>5. InOrder(r)
  BY <1>4 DEF InOrder
<1> QED
  BY <1>5 DEF r

\* Threads only copy histories, or start empty ones, except in PutIntoCache.
LEMMA HistoriesStep ==
  ASSUME BackendInv, HistoriesInOrder, [BackendNext]_backendVars,
         \A t \in Conns :
           PutIntoCache(t) => InOrder(Applied(conn[t].copy, conn[t].req).last_ten)
  PROVE  HistoriesInOrder'
<1>0. InOrder(DefaultPreferences.last_ten)
  BY DEF DefaultPreferences, InOrder
<1>1. ASSUME NEW t \in Conns, NEW req \in Requests, Accept(t, req)
      PROVE  HistoriesInOrder'
  BY <1>0, <1>1, AcceptEffect DEF HistoriesInOrder
<1>2. ASSUME NEW t \in Conns, Close(t)
      PROVE  HistoriesInOrder'
  BY <1>2, CloseEffect DEF HistoriesInOrder
<1>3. ASSUME NEW t \in Conns, ThreadStep(t)
      PROVE  HistoriesInOrder'
  <2>0. /\ conn[t] # Free /\ conn[t] \in Busy
        /\ conn \in [Conns -> {Free} \cup Busy]
    BY <1>3, ThreadProgress, ThreadType DEF BackendInv
  <2>1. CASE GetFromCache(t)
    <3>1. /\ conn'[t].copy = cache[1] /\ cache # <<>>
          /\ \A u \in Conns \ {t} : conn'[u] = conn[u]
          /\ UNCHANGED <<cache, disk>>
      BY <2>0, <2>1 DEF GetFromCache, Busy
    <3> QED
      BY <3>1 DEF HistoriesInOrder
  <2>2. CASE Deserialize(t)
    <3>1. PICK prefs \in {disk, DefaultPreferences} :
            conn' = [conn EXCEPT ![t].pc = "fill", ![t].copy = prefs]
      BY <2>2 DEF Deserialize
    <3>2. /\ conn'[t].copy = prefs
          /\ \A u \in Conns \ {t} : conn'[u] = conn[u]
          /\ UNCHANGED <<cache, disk>>
      BY <2>0, <2>2, <3>1 DEF Deserialize, Busy
    <3> QED
      BY <1>0, <3>2 DEF HistoriesInOrder
  <2>3. CASE FillCache(t)
    <3>1. /\ conn'[t].copy = conn[t].copy /\ cache' = <<conn[t].copy>>
          /\ \A u \in Conns \ {t} : conn'[u] = conn[u]
          /\ UNCHANGED disk
      BY <2>0, <2>3 DEF FillCache, Goto, Busy
    <3> QED
      BY <2>0, <3>1 DEF HistoriesInOrder
  <2>4. CASE PutIntoCache(t)
    <3> DEFINE prefs == Applied(conn[t].copy, conn[t].req)
    <3>1. InOrder(prefs.last_ten)
      BY <2>4
    <3>2. /\ cache' = <<prefs>>
          /\ conn' = [conn EXCEPT ![t].pc = "truncate", ![t].copy = prefs]
          /\ UNCHANGED disk
      BY <2>4 DEF PutIntoCache
    <3> HIDE DEF prefs
    <3>3. /\ conn'[t].copy = prefs
          /\ \A u \in Conns \ {t} : conn'[u] = conn[u]
      BY <2>0, <3>2 DEF Busy
    <3> QED
      BY <3>1, <3>2, <3>3 DEF HistoriesInOrder
  <2>5. CASE TruncateFile(t)
    <3>1. /\ conn'[t].copy \in {conn[t].copy, DefaultPreferences}
          /\ \A u \in Conns \ {t} : conn'[u] = conn[u]
          /\ disk' \in {disk, DefaultPreferences} /\ UNCHANGED cache
      BY <2>0, <2>5 DEF TruncateFile, Busy
    <3> QED
      BY <1>0, <2>0, <3>1 DEF HistoriesInOrder
  <2>6. CASE WriteFile(t)
    <3>1. disk' \in {conn[t].copy, DefaultPreferences, disk} /\ UNCHANGED cache
      BY <2>6 DEF WriteFile
    <3>2. ASSUME NEW u \in Conns, conn'[u] # Free
          PROVE  InOrder(conn'[u].copy.last_ten)
      <4>1. CASE u = t
        BY <1>0, <2>0, <2>6, <4>1 DEF WriteFile, Busy
      <4>2. CASE u # t
        <5>1. conn'[u] = IF At(u, "write") THEN [conn[u] EXCEPT !.alone = FALSE]
                                           ELSE conn[u]
          BY <2>6, <4>2 DEF WriteFile
        <5>2. At(u, "write") => conn[u] \in Busy /\ conn[u] # Free
          BY ThreadType DEF At
        <5>3. conn[u] # Free /\ conn'[u].copy = conn[u].copy
          BY <3>2, <5>1, <5>2 DEF Busy
        <5> QED
          BY <5>3 DEF HistoriesInOrder
      <4> QED
        BY <4>1, <4>2
    <3> QED
      BY <1>0, <2>0, <3>1, <3>2 DEF HistoriesInOrder
  <2>7. CASE \/ GetMissed(t) \/ RearmOutageTimeout(t)
             \/ RenderFeedAsap(t) \/ RenderNextFeeding(t) \/ RenderScoops(t)
    <3>1. /\ \A u \in Conns \ {t} : conn'[u] = conn[u]
          /\ UNCHANGED <<cache, disk>>
      BY <2>0, <2>7 DEF GetMissed, RearmOutageTimeout, RenderFeedAsap,
                        RenderNextFeeding, RenderScoops, Goto
    <3>2. conn'[t].copy = conn[t].copy
      <4>1. CASE GetMissed(t) \/ RearmOutageTimeout(t)
        BY <2>0, <4>1 DEF GetMissed, RearmOutageTimeout, Goto, Busy
      <4>2. CASE RenderFeedAsap(t)
        BY <2>0, <4>2 DEF RenderFeedAsap, Busy
      <4>3. CASE RenderNextFeeding(t)
        BY <2>0, <4>3 DEF RenderNextFeeding, Goto, Busy
      <4>4. CASE RenderScoops(t)
        BY <2>0, <4>4 DEF RenderScoops, Busy
      <4> QED
        BY <2>7, <4>1, <4>2, <4>3, <4>4
    <3> QED
      BY <2>0, <3>1, <3>2 DEF HistoriesInOrder
  <2> QED
    BY <1>3, <2>1, <2>2, <2>3, <2>4, <2>5, <2>6, <2>7 DEF ThreadStep
<1>4. CASE TimerDies \/ UNCHANGED backendVars
  BY <1>4 DEF TimerDies, backendVars, HistoriesInOrder
<1>5. CASE Crash
  BY <1>5 DEF Crash, HistoriesInOrder
<1> QED
  BY <1>1, <1>2, <1>3, <1>4, <1>5 DEF BackendNext

\* The threads that may still record a meal have the latest one to record.
LEMMA LatestStep ==
  ASSUME BackendInv, FeederInv, OrderInv, OneAtATime, [Next]_vars
  PROVE  /\ \A m \in recorded' : m <= meals'
         /\ \A t \in Conns : LatestInv(t)'
<1>1. /\ recorded \subseteq Nat /\ meals \in Nat
      /\ \A m \in recorded : m <= meals
      /\ \A t \in Conns : LatestInv(t)
  BY RegisterAssumption DEF BackendInv, FeederInv, OrderInv
<1>2. ASSUME NEW t \in Conns, NEW req \in Requests, Accept(t, req), meals' = meals,
             Reports(req) => req.meal = meals
      PROVE  (\A m \in recorded' : m <= meals') /\ \A u \in Conns : LatestInv(u)'
  <2>1. /\ conn'[t].req = req
        /\ \A u \in Conns \ {t} : conn'[u] = conn[u]
        /\ recorded' = recorded
    BY <1>2, AcceptEffect
  <2>2. LatestInv(t)'
    BY <1>1, <1>2, <2>1 DEF LatestInv
  <2>3. \A u \in Conns \ {t} : LatestInv(u)'
    BY <1>1, <1>2, <2>1 DEF LatestInv
  <2> QED
    BY <1>1, <1>2, <2>1, <2>2, <2>3
<1>3. ASSUME NEW t \in Conns, Connect(t)
      PROVE  (\A m \in recorded' : m <= meals') /\ \A u \in Conns : LatestInv(u)'
  <2> DEFINE req == CheckInRequest(IF report THEN meals ELSE NoMeal)
  <2>1. req \in Requests
    BY DEF FeederInv, Requests
  <2>2. Reports(req) => req.meal = meals
    BY DEF Reports, CheckInRequest
  <2>3. Accept(t, req) /\ meals' = meals
    BY <1>3 DEF Connect
  <2> HIDE DEF req
  <2> QED
    BY <1>2, <2>1, <2>2, <2>3
<1>4. ASSUME NEW t \in Conns, ClickFeedNow(t) \/ SendForm(t) \/ OpenHome(t)
      PROVE  (\A m \in recorded' : m <= meals') /\ \A u \in Conns : LatestInv(u)'
  <2>1. PICK req \in Requests : Accept(t, req) /\ req.kind # "photon"
    <3>1. CASE ClickFeedNow(t) \/ OpenHome(t)
      BY <3>1 DEF ClickFeedNow, OpenHome, Requests, FeedNowRequest, HomeRequest
    <3>2. CASE SendForm(t)
      <4>1. PICK s \in Schedules, n \in ScoopSettings \cup {0} :
              Accept(t, UpdateRequest(s, n))
        BY <3>2 DEF SendForm
      <4>2. UpdateRequest(s, n) \in Requests /\ UpdateRequest(s, n).kind = "update"
        BY DEF Requests, UpdateRequest
      <4> QED
        BY <4>1, <4>2
    <3> QED
      BY <1>4, <3>1, <3>2
  <2>2. meals' = meals
    BY <1>4 DEF ClickFeedNow, SendForm, OpenHome
  <2> QED
    BY <1>2, <2>1, <2>2 DEF Reports
<1>5. ASSUME NEW t \in Conns, Serve(t)
      PROVE  (\A m \in recorded' : m <= meals') /\ \A u \in Conns : LatestInv(u)'
  <2>1. ThreadStep(t) /\ meals' = meals
    BY <1>5 DEF Serve
  <2>2. conn[t] # Free /\ conn[t].pc # "free"
    BY <2>1, ThreadProgress, ThreadType
  <2>3. /\ conn'[t].req = conn[t].req
        /\ \A u \in Conns \ {t} : conn'[u].pc = conn[u].pc /\ conn'[u].req = conn[u].req
    BY <2>1, ThreadProgress
  <2>4. CASE PutIntoCache(t) /\ Reports(conn[t].req)
    <3>1. recorded' = recorded \cup {conn[t].req.meal}
      BY <2>1, <2>4, ThreadProgress
    <3>2. conn[t].req.meal <= meals
      BY <1>1, <2>4 DEF PutIntoCache, At, LatestInv
    <3>3. conn'[t].pc = "truncate"
      BY <2>2, <2>4, ThreadType DEF PutIntoCache, Busy, BackendInv
    <3>4. \A u \in Conns \ {t} : conn'[u].pc = "free"
      BY <2>2, <2>3, OthersAreFree
    <3>5. \A u \in Conns : LatestInv(u)'
      BY <3>3, <3>4 DEF LatestInv
    <3> QED
      BY <1>1, <2>1, <3>1, <3>2, <3>5
  <2>5. CASE ~(PutIntoCache(t) /\ Reports(conn[t].req))
    <3>1. recorded' = recorded
      BY <2>1, <2>5, ThreadProgress
    <3>2. HasPut(t) => HasPut(t)'
      BY <2>1, ThreadProgress
    <3>3. conn'[t].pc \in {"get", "load", "fill", "put"}
            => conn[t].pc \in {"get", "load", "fill", "put"}
      BY <2>2, <3>2 DEF HasPut
    <3>4. \A u \in Conns : LatestInv(u)'
      BY <1>1, <2>1, <2>3, <3>1, <3>3 DEF LatestInv
    <3> QED
      BY <1>1, <2>1, <3>1, <3>4
  <2> QED
    BY <2>4, <2>5
<1>6. ASSUME NEW t \in Conns, ReceiveAnswer(t) \/ ReceivePartOfAnswer(t) \/ CloseOther(t)
      PROVE  (\A m \in recorded' : m <= meals') /\ \A u \in Conns : LatestInv(u)'
  <2>1. Close(t) /\ meals' = meals
    BY <1>6 DEF ReceiveAnswer, ReceivePartOfAnswer, CloseOther, worldVars
  <2>2. /\ conn'[t].pc = "free"
        /\ \A u \in Conns \ {t} : conn'[u] = conn[u]
        /\ recorded' = recorded
    BY <2>1, CloseEffect DEF Free
  <2>3. LatestInv(t)'
    BY <2>2 DEF LatestInv
  <2>4. ASSUME NEW u \in Conns \ {t}
        PROVE  LatestInv(u)'
    <3>1. LatestInv(u)
      BY <1>1
    <3> QED
      BY <2>1, <2>2, <3>1 DEF LatestInv
  <2> QED
    BY <1>1, <2>1, <2>2, <2>3, <2>4
<1>7. CASE FinishMeal
  <2>1. meals' = meals + 1 /\ UNCHANGED <<conn, recorded>>
    BY <1>7 DEF FinishMeal, backendVars
  <2>2. ASSUME NEW u \in Conns
        PROVE  LatestInv(u)'
    <3>1. CASE conn[u].pc \in {"get", "load", "fill", "put"} /\ Reports(conn[u].req)
      <4>1. conn[u].req.meal \in Nat
        BY <3>1, ThreadType, ReportedMealType, RegisterAssumption
      <4> QED
        BY <1>1, <2>1, <3>1, <4>1 DEF LatestInv
    <3>2. CASE ~(conn[u].pc \in {"get", "load", "fill", "put"} /\ Reports(conn[u].req))
      BY <2>1, <3>2 DEF LatestInv
    <3> QED
      BY <3>1, <3>2
  <2> QED
    BY <1>1, <2>1, <2>2
<1>8. CASE ServerCrash
  BY <1>1, <1>8 DEF ServerCrash, Crash, Free, LatestInv
<1>9. CASE \/ ConnectFails \/ ConnectionBreaks \/ NetworkSettles \/ CheckInFails
           \/ StartMeal \/ ServeScoop \/ PowerLoss \/ TextingFails
           \/ UNCHANGED vars
  <2>1. UNCHANGED <<conn, recorded, meals>>
    BY <1>9 DEF ConnectFails, ConnectionBreaks, NetworkSettles, CheckInFails, StartMeal,
                ServeScoop, PowerLoss, TextingFails, TimerDies, vars, backendVars, worldVars
  <2>2. \A t \in Conns : LatestInv(t)'
    BY <1>1, <2>1 DEF LatestInv
  <2> QED
    BY <1>1, <2>1, <2>2
<1> QED
  BY <1>3, <1>4, <1>5, <1>6, <1>7, <1>8, <1>9 DEF Next

LEMMA OrderInvStep ==
  ASSUME BackendInv, FeederInv, OrderInv, OneAtATime, [Next]_vars
  PROVE  OrderInv'
<1>1. ASSUME NEW t \in Conns, PutIntoCache(t)
      PROVE  InOrder(Applied(conn[t].copy, conn[t].req).last_ten)
  <2> DEFINE h == conn[t].copy.last_ten
             req == conn[t].req
  <2>1. conn[t] # Free /\ conn[t].pc = "put" /\ req \in Requests
    BY <1>1, ThreadType DEF PutIntoCache, At
  <2>2. /\ conn[t].copy \in Preferences
        /\ h \in Seq(Meals) /\ Len(h) <= HistoryLength
        /\ \A i \in DOMAIN h : h[i] \in recorded
    BY <2>1, ThreadType DEF Sound, Preferences
  <2>3. InOrder(h)
    BY <2>1 DEF OrderInv, HistoriesInOrder
  <2>4. CASE Reports(req)
    <3>1. req.meal \in Meals
      BY <2>1, <2>4, ReportedMealType
    <3>2. \A i \in DOMAIN h : h[i] <= req.meal
      BY <2>1, <2>2, <2>4 DEF OrderInv, LatestInv
    <3>3. InOrder(Remember(h, req.meal))
      BY <2>2, <2>3, <3>1, <3>2, RememberInOrder
    <3> QED
      BY <2>1, <2>2, <2>4, <3>3, AppliedHistory
  <2>5. CASE ~Reports(req)
    BY <2>1, <2>2, <2>3, <2>5, AppliedHistory
  <2> QED
    BY <2>4, <2>5
<1>2. HistoriesInOrder'
  BY <1>1, ServerStep, HistoriesStep DEF OrderInv
<1> QED
  BY <1>2, LatestStep DEF OrderInv

LEMMA OrderInvInit == Init => OrderInv
<1> SUFFICES ASSUME Init
             PROVE  OrderInv
  OBVIOUS
<1>1. InOrder(disk.last_ten)
  BY DEF Init, BackendInit, DefaultPreferences, InOrder
<1> QED
  BY <1>1 DEF Init, BackendInit, OrderInv, LatestInv, HistoriesInOrder, Free

\* The history the server keeps is in the order in which the meals were served,
\* as long as its requests come one at a time: a thread that outlives its
\* connection, a file that is lost and a report that is repeated do not upset it.
THEOREM HistoryStaysInOrder == Spec /\ []OneAtATime => []HistoryIsInOrder
<1>1. BackendInv /\ FeederInv /\ OrderInv /\ OneAtATime /\ [Next]_vars => OrderInv'
  BY OrderInvStep
<1>2. OrderInv => HistoryIsInOrder
  BY DEF OrderInv, HistoriesInOrder, InOrder, HistoryIsInOrder, Current
<1> QED
  BY <1>1, <1>2, OrderInvInit, FeederInvHolds, PTL DEF Spec

\* The server of the system is a register, on the same terms as alone.
THEOREM SystemUsesRegister ==
  ASSUME ~IoMayFail
  PROVE  Spec /\ []OneAtATime => ImplementsRegister /\ []ReportedFeedingsAreStored
BY SystemRunsBackend, BackendImplementsRegister, ReportsAreStored, PTL
==============================================================================
