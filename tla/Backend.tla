------------------------------ MODULE Backend ------------------------------
(***************************************************************************)
(* The server: Backend.handleRequest(), the updaters, ProtoBodyRenderer    *)
(* and Storage.                                                            *)
(*                                                                         *)
(* Backend.runBlocking() starts a thread per connection. A thread reads    *)
(* the preferences (from the cache of Storage, or once from the file),     *)
(* changes its own copy, puts the copy into the cache and then into the    *)
(* file, and answers. Nothing synchronizes these steps, so each access to  *)
(* the cache and to the file is an action here. The process may crash and  *)
(* restart at any point.                                                   *)
(*                                                                         *)
(* Requests arrive parsed: HttpServer, HttpHeader, MapParser and the login *)
(* are left out. So is when the next meal is due (time/Time.java): with a  *)
(* feeding schedule there always is a next meal, without there is none.    *)
(***************************************************************************)
EXTENDS FeedingPreferences

CONSTANTS
  Conns,            \* connection threads that may be alive at the same time
  StoredSchedules,  \* the schedule in the file when the server first starts
  IoMayFail,        \* whether reading or writing the file may fail
  MaxCrashes        \* bound on the crashes of the server

ASSUME BackendAssumption ==
  /\ StoredSchedules \subseteq Schedules
  /\ IoMayFail \in BOOLEAN
  /\ MaxCrashes \in Nat

VARIABLES
  cache,      \* Storage.cache's PREFERENCES: <<>> or <<preferences>>
  disk,       \* what reading the file would return
  conn,       \* per connection thread: where it is and what it holds
  timerDead,  \* the thread of OutageNotifier's timer has died
  crashes,    \* crashes so far
  log,        \* observed: the last meals handed to set(), newest first
  recorded    \* observed: all the meals ever handed to set()

backendVars == <<cache, disk, conn, timerDead, crashes, log, recorded>>

Free == [pc |-> "free"]

\* A thread that is handling request req, or has finished doing so.
Busy == [pc : {"get", "load", "fill", "put", "truncate", "write", "notify",
               "render", "render_schedule", "render_scoops", "answered", "died"},
         req : Requests,
         copy : Preferences,           \* its copy of the preferences
         alone : BOOLEAN,              \* nobody wrote since it truncated
         scoops : ScoopSettings \cup {0, 1}]  \* the order in its answer

BackendInit ==
  /\ cache = <<>>
  /\ \E s \in StoredSchedules :
       disk = [DefaultPreferences EXCEPT !.feeding_schedule = s]
  /\ conn = [t \in Conns |-> Free]
  /\ timerDead = FALSE
  /\ crashes = 0
  /\ log = <<>>
  /\ recorded = {}

At(t, place) == conn[t].pc = place

Goto(t, place) == conn' = [conn EXCEPT ![t].pc = place]

\* handleRequest() is called for request req.
Accept(t, req) ==
  /\ At(t, "free")
  /\ conn' = [conn EXCEPT ![t] = [pc |-> "get", req |-> req,
                                  copy |-> DefaultPreferences,
                                  alone |-> TRUE, scoops |-> 0]]
  /\ UNCHANGED <<cache, disk, timerDead, crashes, log, recorded>>

-----------------------------------------------------------------------------
(* Storage.getItemBlocking(), called by the updaters and by the renderer   *)
(* of the home page. The renderer calls it several times, but only the     *)
(* first call can find the cache empty.                                    *)

AfterGet(t) == IF conn[t].req.kind = "home" THEN "answered" ELSE "put"

GetFromCache(t) ==
  /\ At(t, "get")
  /\ cache # <<>>
  /\ conn' = [conn EXCEPT ![t].pc = AfterGet(t), ![t].copy = cache[1]]
  /\ UNCHANGED <<cache, disk, timerDead, crashes, log, recorded>>

GetMissed(t) ==
  /\ At(t, "get")
  /\ cache = <<>>
  /\ Goto(t, "load")
  /\ UNCHANGED <<cache, disk, timerDead, crashes, log, recorded>>

\* PreferencesSerializer.deserialize(): an IOException yields the default.
Deserialize(t) ==
  /\ At(t, "load")
  /\ \E prefs \in {disk} \cup (IF IoMayFail THEN {DefaultPreferences} ELSE {}) :
       conn' = [conn EXCEPT ![t].pc = "fill", ![t].copy = prefs]
  /\ UNCHANGED <<cache, disk, timerDead, crashes, log, recorded>>

FillCache(t) ==
  /\ At(t, "fill")
  /\ cache' = <<conn[t].copy>>
  /\ Goto(t, AfterGet(t))
  /\ UNCHANGED <<disk, timerDead, crashes, log, recorded>>

-----------------------------------------------------------------------------
(* The updaters change their copy and call Storage.setItemBlocking().      *)

\* Mutant: the copy is put into the cache as it was read.
PutIntoCache_Unchanged(t) ==
  /\ At(t, "put")
  /\ cache' = <<conn[t].copy>>
  /\ conn' = [conn EXCEPT ![t].pc = "truncate"]
  /\ IF conn[t].req.kind = "photon" /\ conn[t].req.meal # NoMeal
     THEN /\ log' = Remember(log, conn[t].req.meal)
          /\ recorded' = recorded \cup {conn[t].req.meal}
     ELSE UNCHANGED <<log, recorded>>
  /\ UNCHANGED <<disk, timerDead, crashes>>

PutIntoCache(t) ==
  /\ At(t, "put")
  /\ LET prefs == Applied(conn[t].copy, conn[t].req)
     IN  /\ cache' = <<prefs>>
         /\ conn' = [conn EXCEPT ![t].pc = "truncate", ![t].copy = prefs]
  /\ IF conn[t].req.kind = "photon" /\ conn[t].req.meal # NoMeal
     THEN /\ log' = Remember(log, conn[t].req.meal)
          /\ recorded' = recorded \cup {conn[t].req.meal}
     ELSE UNCHANGED <<log, recorded>>
  /\ UNCHANGED <<disk, timerDead, crashes>>

\* What follows set(): a check-in goes on, the other requests are redirected.
AfterSet(t) == IF conn[t].req.kind = "photon" THEN "notify" ELSE "answered"

\* Mutant: the cache is never saved.
TruncateFile_NotSaved(t) ==
  /\ At(t, "truncate")
  /\ Goto(t, AfterSet(t))
  /\ UNCHANGED <<cache, disk, timerDead, crashes, log, recorded>>

\* Files.write() opens the file with TRUNCATE_EXISTING ...
TruncateFile(t) ==
  /\ At(t, "truncate")
  /\ \/ /\ disk' = DefaultPreferences
        /\ conn' = [conn EXCEPT ![t].pc = "write", ![t].alone = TRUE]
     \/ /\ IoMayFail
        /\ conn' = [conn EXCEPT ![t].pc = AfterSet(t), ![t].copy = DefaultPreferences]
        /\ UNCHANGED disk
  /\ UNCHANGED <<cache, timerDead, crashes, log, recorded>>

\* ... and writes from its start. The bytes of a writer that got in between
\* may reach beyond the new ones; the file is then readable or it is not.
\* A failed write leaves the file empty: serialize() swallows the exception.
WriteFile(t) ==
  /\ At(t, "write")
  /\ \/ disk' = conn[t].copy
     \/ ~conn[t].alone /\ disk' = DefaultPreferences
     \/ IoMayFail /\ UNCHANGED disk
  /\ conn' = [u \in Conns |->
                CASE u = t -> [conn[t] EXCEPT !.pc = AfterSet(t),
                                              !.copy = DefaultPreferences]
                  [] u # t /\ At(u, "write") -> [conn[u] EXCEPT !.alone = FALSE]
                  [] OTHER -> conn[u]]
  /\ UNCHANGED <<cache, timerDead, crashes, log, recorded>>

-----------------------------------------------------------------------------
(* The rest of SERVE_PHOTON.                                               *)

\* alertIfNotCalledWithin(): schedule() throws when the timer thread is dead,
\* and the connection is closed without an answer.
RearmOutageTimeout(t) ==
  /\ At(t, "notify")
  /\ Goto(t, IF timerDead THEN "died" ELSE "render")
  /\ UNCHANGED <<cache, disk, timerDead, crashes, log, recorded>>

\* Mutant: the answer takes no notice of feed_asap.
RenderFeedAsap_Ignored(t) ==
  /\ At(t, "render")
  /\ Goto(t, "render_schedule")
  /\ UNCHANGED <<cache, disk, timerDead, crashes, log, recorded>>

\* ProtoBodyRenderer.render(): every PreferencesStorage.get() is a read of the
\* cache of its own.
RenderFeedAsap(t) ==
  /\ At(t, "render")
  /\ conn' = IF cache[1].feed_asap
             THEN [conn EXCEPT ![t].pc = "answered", ![t].scoops = 1]
             ELSE [conn EXCEPT ![t].pc = "render_schedule"]
  /\ UNCHANGED <<cache, disk, timerDead, crashes, log, recorded>>

\* Without a next feeding getTimeToNextFeedingMs() is null, and unboxing it
\* for setDelayUntilNextFeedingMs(long) throws.
RenderNextFeeding(t) ==
  /\ At(t, "render_schedule")
  /\ Goto(t, IF cache[1].feeding_schedule = "FEED" THEN "render_scoops" ELSE "died")
  /\ UNCHANGED <<cache, disk, timerDead, crashes, log, recorded>>

RenderScoops(t) ==
  /\ At(t, "render_scoops")
  /\ conn' = [conn EXCEPT ![t].pc = "answered",
                          ![t].scoops = IF cache[1].scoops > 1 THEN cache[1].scoops
                                                               ELSE 1]
  /\ UNCHANGED <<cache, disk, timerDead, crashes, log, recorded>>

\* The connection is closed, with or without an answer.
Close(t) ==
  /\ conn[t].pc \in {"answered", "died"}
  /\ conn' = [conn EXCEPT ![t] = Free]
  /\ UNCHANGED <<cache, disk, timerDead, crashes, log, recorded>>

-----------------------------------------------------------------------------
\* A text the admin should have got failed in the timer's thread.
TimerDies ==
  /\ ~timerDead
  /\ timerDead' = TRUE
  /\ UNCHANGED <<cache, disk, conn, crashes, log, recorded>>

\* The process dies and is started again; the file is all that is left.
Crash ==
  /\ crashes < MaxCrashes
  /\ crashes' = crashes + 1
  /\ cache' = <<>>
  /\ conn' = [t \in Conns |-> Free]
  /\ timerDead' = FALSE
  /\ log' = disk.last_ten
  /\ UNCHANGED <<disk, recorded>>

ThreadStep(t) ==
  \/ GetFromCache(t) \/ GetMissed(t) \/ Deserialize(t) \/ FillCache(t)
  \/ PutIntoCache(t) \/ TruncateFile(t) \/ WriteFile(t)
  \/ RearmOutageTimeout(t)
  \/ RenderFeedAsap(t) \/ RenderNextFeeding(t) \/ RenderScoops(t)

BackendNext ==
  \/ \E t \in Conns : \/ \E req \in Requests : Accept(t, req)
                      \/ ThreadStep(t)
                      \/ Close(t)
  \/ TimerDies
  \/ Crash

BackendSpec == BackendInit /\ [][BackendNext]_backendVars

-----------------------------------------------------------------------------
(* Properties.                                                             *)

BackendTypeOK ==
  /\ cache \in Seq(Preferences) /\ Len(cache) <= 1
  /\ disk \in Preferences
  /\ \A t \in Conns : conn[t] = Free \/ conn[t] \in Busy
  /\ timerDead \in BOOLEAN
  /\ crashes \in 0 .. MaxCrashes
  /\ log \in Seq(Meals) /\ Len(log) <= HistoryLength
  /\ recorded \subseteq Meals

\* What a handler that asked now would be told the preferences are.
Current == IF cache = <<>> THEN disk ELSE cache[1]

\* Storage is a register that the requests update one after the other, each
\* update saved before the next one, and that restarts with what was saved.
Register == INSTANCE PreferencesRegister WITH register <- Current, saved <- disk
ImplementsRegister == Register!RegisterSpec

\* FeedingTimeUpdater.java:12: update() stores any feeding the device reports.
\* The history holds the latest reports, whatever was handled meanwhile.
ReportedFeedingsAreStored == cache # <<>> => cache[1].last_ten = log

\* What the cache, the file and the threads hold of feedings was reported, or
\* in the file at the start: threads that overwrite each other's updates, a
\* file that is half written, a check-in without a report add none.
NoFeedingIsInvented ==
  \A prefs \in {Current, disk} \cup { conn[t].copy : t \in {u \in Conns : ~At(u, "free")} } :
    \A i \in DOMAIN prefs.last_ten : prefs.last_ten[i] \in recorded
=============================================================================
