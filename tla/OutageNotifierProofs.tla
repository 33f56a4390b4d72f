------------------------ MODULE OutageNotifierProofs ------------------------
(***************************************************************************)
(* Proofs about the watchdog, for any set of connection threads, any delay *)
(* and any number of calls.                                                *)
(***************************************************************************)
EXTENDS OutageNotifier, FiniteSetTheorems, TLAPS

\* The threads that wait for the monitor to call alertIfNotCalledWithin().
Entering == {u \in Threads : caller[u] = "entering"}

\* The waiting threads are among the calls that the bound leaves.
EnteringInv ==
  /\ IsFiniteSet(Entering)
  /\ calls + Cardinality(Entering) <= MaxCalls

\* The field holds the latest timeout; a scheduled one is that one, and its
\* time and the silence since the last call make up the delay.
TimeoutInv ==
  /\ ongoingTimeout = calls
  /\ \A i \in Timeouts : task[i] = "scheduled" =>
       i = ongoingTimeout /\ left[i] + silence = DelayMs

\* The strengthening of TypeOK, NoOrphanTimeout and AlertsOnlyAfterSilence.
NotifierInv == TypeOK /\ EnteringInv /\ TimeoutInv

-----------------------------------------------------------------------------

\* A thread that comes to the monitor was not counted before, one that has
\* been in it is not any more.
LEMMA EnteringStep ==
  ASSUME TypeOK, EnteringInv, [Next]_vars
  PROVE  EnteringInv' /\ calls' \in 0 .. MaxCalls
<1>0. /\ IsFiniteSet(Entering)
      /\ Cardinality(Entering) \in Nat
      /\ calls \in Nat /\ MaxCalls \in Nat
      /\ calls + Cardinality(Entering) <= MaxCalls
  BY NotifierAssumption, FS_CardinalityType DEF TypeOK, EnteringInv
<1>1. ASSUME NEW t \in Threads, Call(t)
      PROVE  EnteringInv' /\ calls' \in 0 .. MaxCalls
  <2>1. Entering' = Entering \cup {t} /\ t \notin Entering
    BY <1>1 DEF Call, Entering, TypeOK
  <2>2. IsFiniteSet(Entering') /\ Cardinality(Entering') = Cardinality(Entering) + 1
    BY <1>0, <2>1, FS_AddElement
  <2>3. calls' = calls /\ calls + Cardinality(Entering) < MaxCalls
    BY <1>1 DEF Call, Entering
  <2> QED
    BY <1>0, <2>2, <2>3 DEF EnteringInv
<1>2. ASSUME NEW t \in Threads, AlertIfNotCalledWithin(t)
      PROVE  EnteringInv' /\ calls' \in 0 .. MaxCalls
  <2>1. PICK s \in {"idle", "failed"} : caller' = [caller EXCEPT ![t] = s]
    BY <1>2 DEF AlertIfNotCalledWithin
  <2>2. Entering' = Entering \ {t} /\ t \in Entering
    BY <1>2, <2>1 DEF AlertIfNotCalledWithin, Entering, TypeOK
  <2>3. IsFiniteSet(Entering') /\ Cardinality(Entering') = Cardinality(Entering) - 1
    BY <1>0, <2>2, FS_RemoveElement
  <2>4. Cardinality(Entering') \in Nat
    BY <2>3, FS_CardinalityType
  <2>5. calls' = calls + 1
    BY <1>2 DEF AlertIfNotCalledWithin
  <2> QED
    BY <1>0, <2>3, <2>4, <2>5 DEF EnteringInv
<1>3. CASE UNCHANGED <<caller, calls>>
  BY <1>0, <1>3 DEF EnteringInv, Entering
<1> QED
  BY <1>1, <1>2, <1>3 DEF Next, StartupAlert, Fire, EnterAlert, SmsSent, SmsFails, Tick, vars

\* The body of alertIfNotCalledWithin(): what was pending is cancelled, and
\* nothing but the new timeout is scheduled.
LEMMA CallEffect ==
  ASSUME TypeOK, TimeoutInv, calls' \in 0 .. MaxCalls,
         NEW t \in Threads, AlertIfNotCalledWithin(t)
  PROVE  TypeOK' /\ TimeoutInv'
<1> DEFINE tasks == Cancelled(task, ongoingTimeout)
<1>1. /\ calls \in Nat /\ calls' = calls + 1 /\ calls' \in Timeouts
      /\ ongoingTimeout = calls /\ ongoingTimeout' = calls'
      /\ DelayMs \in Nat /\ silence' = 0
  BY NotifierAssumption DEF TypeOK, TimeoutInv, Timeouts, AlertIfNotCalledWithin
<1>2. /\ tasks \in [Timeouts -> {"virgin", "scheduled", "cancelled", "executed"}]
      /\ \A i \in Timeouts : tasks[i] # "scheduled"
  <2>1. CASE ongoingTimeout = 0
    <3>1. \A i \in Timeouts : i # 0
      BY NotifierAssumption DEF Timeouts
    <3> QED
      BY <2>1, <3>1 DEF TypeOK, TimeoutInv, Cancelled
  <2>2. CASE ongoingTimeout # 0
    <3>1. ongoingTimeout \in Timeouts
      BY <2>2, NotifierAssumption DEF TypeOK, Timeouts
    <3> QED
      BY <2>2, <3>1 DEF TypeOK, TimeoutInv, Cancelled
  <2> QED
    BY <2>1, <2>2
<1> HIDE DEF tasks
<1>3. /\ silence' \in 0 .. DelayMs /\ alerted' \in BOOLEAN
      /\ UNCHANGED <<mainThread, timerThread, monitor>>
  <2>1. alerted' = FALSE /\ UNCHANGED <<mainThread, timerThread, monitor>>
    BY DEF AlertIfNotCalledWithin
  <2>2. alerted' \in BOOLEAN
    BY <2>1
  <2>3. silence' \in 0 .. DelayMs
    BY <1>1
  <2> QED
    BY <2>1, <2>2, <2>3
<1>4. CASE timerThread # "dead"
  <2>1. /\ task' = [tasks EXCEPT ![calls'] = "scheduled"]
        /\ left' = [left EXCEPT ![calls'] = DelayMs]
        /\ caller' = [caller EXCEPT ![t] = "idle"]
    BY <1>4 DEF AlertIfNotCalledWithin, tasks
  <2>2. left' \in [Timeouts -> 0 .. DelayMs]
    BY <1>1, <2>1 DEF TypeOK
  <2>3. task' \in [Timeouts -> {"virgin", "scheduled", "cancelled", "executed"}]
    BY <1>2, <2>1
  <2>4. caller' \in [Threads -> {"idle", "entering", "failed"}]
    BY <2>1 DEF TypeOK
  <2>5. TypeOK'
    BY <1>1, <1>3, <2>2, <2>3, <2>4 DEF TypeOK
  <2>6. TimeoutInv'
    BY <1>1, <1>2, <2>1 DEF TimeoutInv, TypeOK
  <2> QED
    BY <2>5, <2>6
<1>5. CASE timerThread = "dead"
  <2>1. /\ task' = tasks
        /\ left' = left
        /\ caller' = [caller EXCEPT ![t] = "failed"]
    BY <1>5 DEF AlertIfNotCalledWithin, tasks
  <2>2. caller' \in [Threads -> {"idle", "entering", "failed"}]
    BY <2>1 DEF TypeOK
  <2>3. TypeOK'
    BY <1>1, <1>2, <1>3, <2>1, <2>2 DEF TypeOK
  <2>4. TimeoutInv'
    BY <1>1, <1>2, <2>1 DEF TimeoutInv
  <2> QED
    BY <2>3, <2>4
<1> QED
  BY <1>4, <1>5

\* While time passes, a scheduled timeout loses what the silence gains.
LEMMA TickEffect ==
  ASSUME TypeOK, TimeoutInv, Tick
  PROVE  TypeOK' /\ TimeoutInv'
<1>1. DelayMs \in Nat /\ silence \in 0 .. DelayMs
  BY NotifierAssumption DEF TypeOK
<1>2. silence' \in 0 .. DelayMs
  BY <1>1 DEF Tick
<1>3. ASSUME NEW i \in Timeouts
      PROVE  /\ left'[i] \in 0 .. DelayMs
             /\ task[i] = "scheduled" => left'[i] + silence' = DelayMs
  <2>1. left[i] \in 0 .. DelayMs
    BY DEF TypeOK
  <2>2. left'[i] = IF task[i] = "scheduled" /\ left[i] > 0 THEN left[i] - 1 ELSE left[i]
    BY DEF Tick
  <2>3. task[i] = "scheduled" => left[i] + silence = DelayMs
    BY DEF TimeoutInv
  <2>4. silence' = IF silence < DelayMs THEN silence + 1 ELSE silence
    BY DEF Tick
  <2> QED
    BY <1>1, <2>1, <2>2, <2>3, <2>4
<1>4. left' \in [Timeouts -> 0 .. DelayMs]
  BY <1>3 DEF Tick
<1>5. TypeOK'
  BY <1>2, <1>4 DEF Tick, TypeOK
<1>6. TimeoutInv'
  BY <1>3 DEF Tick, TimeoutInv
<1> QED
  BY <1>5, <1>6

LEMMA NotifierInvStep ==
  ASSUME NotifierInv, [Next]_vars
  PROVE  NotifierInv'
<1> USE DEF NotifierInv
<1>0. EnteringInv' /\ calls' \in 0 .. MaxCalls
  BY EnteringStep
<1>1. CASE StartupAlert
  BY <1>0, <1>1 DEF StartupAlert, TypeOK, TimeoutInv
<1>2. ASSUME NEW t \in Threads, Call(t)
      PROVE  TypeOK' /\ TimeoutInv'
  BY <1>2 DEF Call, TypeOK, TimeoutInv
<1>3. ASSUME NEW t \in Threads, AlertIfNotCalledWithin(t)
      PROVE  TypeOK' /\ TimeoutInv'
  BY <1>0, <1>3, CallEffect
<1>4. ASSUME NEW i \in Timeouts, Fire(i)
      PROVE  TypeOK' /\ TimeoutInv'
  BY <1>4 DEF Fire, TypeOK, TimeoutInv
<1>5. CASE EnterAlert \/ SmsSent \/ SmsFails
  BY <1>0, <1>5 DEF EnterAlert, SmsSent, SmsFails, TypeOK, TimeoutInv
<1>6. CASE Tick
  BY <1>0, <1>6, TickEffect
<1>7. CASE UNCHANGED vars
  BY <1>0, <1>7 DEF vars, TypeOK, TimeoutInv
<1> QED
  BY <1>0, <1>1, <1>2, <1>3, <1>4, <1>5, <1>6, <1>7 DEF Next

LEMMA NotifierInvInit == Init => NotifierInv
<1> SUFFICES ASSUME Init
             PROVE  NotifierInv
  OBVIOUS
<1>1. DelayMs \in Nat /\ MaxCalls \in Nat
  BY NotifierAssumption
<1>2. TypeOK
  <2>1. 0 \in 0 .. DelayMs /\ 0 \in 0 .. MaxCalls
    BY <1>1
  <2>2. /\ caller \in [Threads -> {"idle", "entering", "failed"}]
        /\ task \in [Timeouts -> {"virgin", "scheduled", "cancelled", "executed"}]
        /\ left \in [Timeouts -> 0 .. DelayMs]
    BY <2>1 DEF Init
  <2> QED
    BY <2>1, <2>2 DEF Init, TypeOK
<1>3. Entering = {}
  BY DEF Init, Entering
<1>4. EnteringInv
  BY <1>1, <1>3, FS_EmptySet DEF Init, EnteringInv
<1>5. TimeoutInv
  BY DEF Init, TimeoutInv
<1> QED
  BY <1>2, <1>4, <1>5 DEF NotifierInv

LEMMA NotifierInvHolds == Spec => []NotifierInv
<1>1. NotifierInv /\ [Next]_vars => NotifierInv'
  BY NotifierInvStep
<1> QED
  BY <1>1, NotifierInvInit, PTL DEF Spec

\* The watchdog's state is well-formed; nobody holds the monitor but the timer
\* thread, and no call goes beyond the bound of the model.
THEOREM NotifierIsTyped == Spec => []TypeOK
<1>1. NotifierInv => TypeOK
  BY DEF NotifierInv
<1> QED
  BY <1>1, NotifierInvHolds, PTL

\* However many connection threads call at once, every timeout that can still
\* fire is the one that the next call cancels.
THEOREM NoTimeoutIsOrphaned == Spec => []NoOrphanTimeout
<1>1. NotifierInv => NoOrphanTimeout
  BY DEF NotifierInv, TimeoutInv, NoOrphanTimeout
<1> QED
  BY <1>1, NotifierInvHolds, PTL

\* The admin is not alarmed while the device checks in: a timeout goes off only
\* after the whole delay has passed without a call.
THEOREM AlertsComeAfterSilence == Spec => AlertsOnlyAfterSilence
<1>1. ASSUME NotifierInv, NEW i \in Timeouts, Fire(i)
      PROVE  silence = DelayMs
  <2>1. left[i] = 0 /\ left[i] + silence = DelayMs /\ silence \in Int
    BY <1>1, NotifierAssumption DEF NotifierInv, TimeoutInv, TypeOK, Fire
  <2> QED
    BY <2>1
<1>2. NotifierInv => [\A i \in Timeouts : Fire(i) => silence = DelayMs]_vars
  BY <1>1
<1> QED
  BY <1>2, NotifierInvHolds, PTL DEF AlertsOnlyAfterSilence
=============================================================================
