--------------------------- MODULE OutageNotifier ---------------------------
(***************************************************************************)
(* The watchdog of the server: alert/OutageNotifier.java.                  *)
(*                                                                         *)
(* Every check-in of the device calls alertIfNotCalledWithin(), which      *)
(* replaces the pending timeout by a new one; a timeout that fires texts   *)
(* the admin. Three kinds of threads meet at the monitor of the singleton: *)
(* connection threads, the thread of the java.util.Timer, and main() with  *)
(* its start-up message. The text is sent inside the monitor.              *)
(*                                                                         *)
(* java.util.Timer and Twilio are external: a timer thread runs one task   *)
(* at a time, a task that throws ends it, and schedule() throws from then  *)
(* on; sending a text takes a while and may fail with an exception.        *)
(***************************************************************************)
EXTENDS Naturals, FiniteSets

CONSTANTS
  Threads,     \* connection threads
  DelayMs,     \* delayMs: check-in interval plus a minute
  MaxCalls,    \* bound on the calls of alertIfNotCalledWithin()
  SmsMayFail   \* whether Twilio may throw

ASSUME NotifierAssumption ==
  /\ DelayMs \in Nat \ {0}
  /\ MaxCalls \in Nat
  /\ SmsMayFail \in BOOLEAN

VARIABLES
  mainThread,      \* "starting", "accepting" or "exited"
  caller,          \* per thread: "idle", "entering" the monitor, "failed"
  calls,           \* timeouts created so far: they are numbered 1 .. calls
  ongoingTimeout,  \* the field of that name, 0 for null
  task,            \* per timeout: its TimerTask state
  left,            \* per timeout: ms before a scheduled one is to run
  timerThread,     \* "waiting", "fired" (in run()) or "dead"
  monitor,         \* who is in the monitor: "nobody" or "alert"
  silence,         \* observed: ms since the last call, up to DelayMs
  alerted          \* observed: a text was tried since the last call

vars == <<mainThread, caller, calls, ongoingTimeout, task, left, timerThread,
          monitor, silence, alerted>>

Timeouts == 1 .. MaxCalls

Init ==
  /\ mainThread = "starting"
  /\ caller = [t \in Threads |-> "idle"]
  /\ calls = 0
  /\ ongoingTimeout = 0
  /\ task = [i \in Timeouts |-> "virgin"]
  /\ left = [i \in Timeouts |-> 0]
  /\ timerThread = "waiting"
  /\ monitor = "nobody"
  /\ silence = 0
  /\ alerted = FALSE

\* main(): alert("CatFeeder backend restarted!") comes before the server
\* socket; an exception of Twilio ends the program.
StartupAlert ==
  /\ mainThread = "starting"
  /\ \/ mainThread' = "accepting"
     \/ SmsMayFail /\ mainThread' = "exited"
  /\ UNCHANGED <<caller, calls, ongoingTimeout, task, left, timerThread,
                 monitor, silence, alerted>>

\* A connection thread handles a check-in and wants the monitor.
Call(t) ==
  /\ mainThread = "accepting"
  /\ caller[t] # "entering"
  /\ calls + Cardinality({u \in Threads : caller[u] = "entering"}) < MaxCalls
  /\ caller' = [caller EXCEPT ![t] = "entering"]
  /\ UNCHANGED <<mainThread, calls, ongoingTimeout, task, left, timerThread,
                 monitor, silence, alerted>>

\* Mutant: the pending timeout is not cancelled.
Cancelled_Not(tasks, i) == tasks

\* TimerTask.cancel() on a field that may be null.
Cancelled(tasks, i) == IF i = 0 THEN tasks ELSE [tasks EXCEPT ![i] = "cancelled"]

\* Mutant: the field is assigned before what it holds is cancelled.
AlertIfNotCalledWithin_CancelsNew(t) ==
  /\ caller[t] = "entering"
  /\ monitor = "nobody"
  /\ calls' = calls + 1
  /\ ongoingTimeout' = calls'
  /\ task' = Cancelled(task, calls')
  /\ caller' = [caller EXCEPT ![t] = "failed"]
  /\ silence' = 0
  /\ alerted' = FALSE
  /\ UNCHANGED <<mainThread, left, timerThread, monitor>>

\* The body of alertIfNotCalledWithin(), in the monitor. schedule() throws
\* when the timer thread is dead, after the field was assigned.
AlertIfNotCalledWithin(t) ==
  /\ caller[t] = "entering"
  /\ monitor = "nobody"
  /\ calls' = calls + 1
  /\ ongoingTimeout' = calls'
  /\ IF timerThread # "dead"
     THEN /\ task' = [Cancelled(task, ongoingTimeout) EXCEPT ![calls'] = "scheduled"]
          /\ left' = [left EXCEPT ![calls'] = DelayMs]
          /\ caller' = [caller EXCEPT ![t] = "idle"]
     ELSE /\ task' = Cancelled(task, ongoingTimeout)
          /\ caller' = [caller EXCEPT ![t] = "failed"]
          /\ UNCHANGED left
  /\ silence' = 0
  /\ alerted' = FALSE
  /\ UNCHANGED <<mainThread, timerThread, monitor>>

\* The timer thread takes a task that is due off its queue.
Fire(i) ==
  /\ timerThread = "waiting"
  /\ task[i] = "scheduled"
  /\ left[i] = 0
  /\ task' = [task EXCEPT ![i] = "executed"]
  /\ timerThread' = "fired"
  /\ UNCHANGED <<mainThread, caller, calls, ongoingTimeout, left, monitor,
                 silence, alerted>>

\* run() calls alert(), which is synchronized too.
EnterAlert ==
  /\ timerThread = "fired"
  /\ monitor = "nobody"
  /\ monitor' = "alert"
  /\ UNCHANGED <<mainThread, caller, calls, ongoingTimeout, task, left,
                 timerThread, silence, alerted>>

SmsSent ==
  /\ monitor = "alert"
  /\ monitor' = "nobody"
  /\ timerThread' = "waiting"
  /\ alerted' = TRUE
  /\ UNCHANGED <<mainThread, caller, calls, ongoingTimeout, task, left, silence>>

\* Mutant: the exception leaves the monitor locked.
SmsFails_StillLocked ==
  /\ SmsMayFail
  /\ monitor = "alert"
  /\ monitor' = "failed"
  /\ timerThread' = "dead"
  /\ alerted' = TRUE
  /\ UNCHANGED <<mainThread, caller, calls, ongoingTimeout, task, left, silence>>

\* The exception leaves run() and ends the timer thread.
SmsFails ==
  /\ SmsMayFail
  /\ monitor = "alert"
  /\ monitor' = "nobody"
  /\ timerThread' = "dead"
  /\ alerted' = TRUE
  /\ UNCHANGED <<mainThread, caller, calls, ongoingTimeout, task, left, silence>>

Tick ==
  /\ silence' = IF silence < DelayMs THEN silence + 1 ELSE silence
  /\ left' = [i \in Timeouts |-> IF task[i] = "scheduled" /\ left[i] > 0
                                 THEN left[i] - 1 ELSE left[i]]
  /\ UNCHANGED <<mainThread, caller, calls, ongoingTimeout, task, timerThread,
                 monitor, alerted>>

Next ==
  \/ StartupAlert
  \/ \E t \in Threads : Call(t) \/ AlertIfNotCalledWithin(t)
  \/ \E i \in Timeouts : Fire(i)
  \/ EnterAlert \/ SmsSent \/ SmsFails
  \/ Tick

Spec == Init /\ [][Next]_vars

\* Time passes, the threads are scheduled, a free monitor is entered by who
\* waits for it, and a text is sent or fails in the end. Nothing obliges the
\* device to check in.
Fairness ==
  /\ WF_vars(Tick)
  /\ WF_vars(\E i \in Timeouts : Fire(i))
  /\ WF_vars(EnterAlert)
  /\ WF_vars(SmsSent \/ SmsFails)
  /\ \A t \in Threads : WF_vars(AlertIfNotCalledWithin(t))

FairSpec == Spec /\ Fairness

-----------------------------------------------------------------------------
(* Properties.                                                             *)

TypeOK ==
  /\ mainThread \in {"starting", "accepting", "exited"}
  /\ caller \in [Threads -> {"idle", "entering", "failed"}]
  /\ calls \in 0 .. MaxCalls
  /\ ongoingTimeout \in 0 .. MaxCalls
  /\ task \in [Timeouts -> {"virgin", "scheduled", "cancelled", "executed"}]
  /\ left \in [Timeouts -> 0 .. DelayMs]
  /\ timerThread \in {"waiting", "fired", "dead"}
  /\ monitor \in {"nobody", "alert"}
  /\ silence \in 0 .. DelayMs
  /\ alerted \in BOOLEAN

\* No timeout is orphaned: one that can still fire is the one the next call
\* will cancel, however many connection threads call at once.
NoOrphanTimeout ==
  \A i \in Timeouts : task[i] = "scheduled" => i = ongoingTimeout

\* A timeout goes off only after DelayMs without any check-in: a check-in
\* that was still in time always disarms it.
AlertsOnlyAfterSilence ==
  [][\A i \in Timeouts : Fire(i) => silence = DelayMs]_vars

\* As long as no text has failed, every silence is answered by a text, even if
\* check-ins stop while an older timeout fires or waits for the monitor.
OutageIsAlertedAtFirst ==
  (calls > 0 /\ silence = DelayMs)
    ~> (alerted \/ silence < DelayMs \/ timerThread = "dead")

\* What the comment of alertIfNotCalledWithin() says (OutageNotifier.java:23):
\* when it is not called again in time a text goes out (or is refused by
\* Twilio at that very moment).
OutageIsAlerted ==
  (calls > 0 /\ silence = DelayMs) ~> (alerted \/ silence < DelayMs)

\* A check-in that waits for the monitor while a text is being sent gets it.
CheckInsAreNotBlocked ==
  \A t \in Threads : (caller[t] = "entering") ~> (caller[t] # "entering")
=============================================================================
