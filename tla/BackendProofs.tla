---------------------------- MODULE BackendProofs ----------------------------
(***************************************************************************)
(* Proofs about the server, for any sets of threads, meals and settings,   *)
(* any length of the history and any number of crashes: first what holds   *)
(* whatever the threads do to each other, then what holds while requests   *)
(* come one at a time.                                                     *)
(***************************************************************************)
EXTENDS Backend, SequenceTheorems, TLAPS

-----------------------------------------------------------------------------
(* The inductive invariants.                                               *)

\* p is of the right type and not too long, and its feedings are all in S.
Sound(p, S) ==
  /\ p \in Preferences
  /\ Len(p.last_ten) <= HistoryLength
  /\ \A i \in DOMAIN p.last_ten : p.last_ten[i] \in S

\* What a thread in the middle of a request relies on. Those that have come as
\* far as the updater's change rely on getItemBlocking() to have filled the
\* cache, and only a crash, which they do not survive, empties it.
ThreadInv(t) ==
  conn[t] # Free =>
    /\ conn[t] \in Busy
    /\ Sound(conn[t].copy, recorded)
    /\ conn[t].pc \notin {"get", "load", "fill", "answered", "died"} => cache # <<>>

\* The strengthening of BackendTypeOK and NoFeedingIsInvented.
BackendInv ==
  /\ cache # <<>> => cache = <<cache[1]>> /\ Sound(cache[1], recorded)
  /\ Sound(disk, recorded)
  /\ conn \in [Conns -> {Free} \cup Busy]
  /\ \A t \in Conns : ThreadInv(t)
  /\ timerDead \in BOOLEAN
  /\ crashes \in 0 .. MaxCrashes
  /\ log \in Seq(Meals) /\ Len(log) <= HistoryLength
  /\ recorded \subseteq Meals

\* Nobody opens a connection before the last one was served and closed.
OneAtATime ==
  \A t, u \in Conns : conn[t] # Free /\ conn[u] # Free => t = u

\* Where thread t, alone, has left the cache and the file.
SerialThreadInv(t) ==
  /\ conn[t].pc \in {"load", "fill"} => cache = <<>>
  /\ conn[t].pc = "fill" => conn[t].copy = disk
  /\ conn[t].pc \in {"put", "truncate", "write"} => cache = <<conn[t].copy>>
  /\ conn[t].pc = "write" => conn[t].alone

\* The strengthening of ReportedFeedingsAreStored and ImplementsRegister.
SerialInv ==
  /\ \A t \in Conns : SerialThreadInv(t)
  /\ (\A t \in Conns : conn[t].pc \notin {"truncate", "write"}) => disk = Current
  /\ Current.last_ten = log

-----------------------------------------------------------------------------
(* What an update returns.                                                 *)

\* lastTenFeedingTimes() puts the meal in front, never gets longer than it
\* may, and holds nothing but the meal and what was there before.
LEMMA RememberEffect ==
  ASSUME NEW h \in Seq(Meals), Len(h) <= HistoryLength, NEW m \in Meals
  PROVE  /\ Remember(h, m) \in Seq(Meals)
         /\ Len(Remember(h, m)) \in 1 .. HistoryLength
         /\ Len(Remember(h, m)) <= Len(h) + 1
         /\ Remember(h, m)[1] = m
         /\ \A i \in 2 .. Len(Remember(h, m)) :
              i - 1 \in DOMAIN h /\ Remember(h, m)[i] = h[i - 1]
<1> DEFINE n == IF Len(h) < HistoryLength THEN Len(h) ELSE HistoryLength - 1
           rest == SubSeq(h, 1, n)
<1>1. /\ HistoryLength \in Nat \ {0}
      /\ Len(h) \in Nat
      /\ DOMAIN h = 1 .. Len(h)
      /\ \A i \in 1 .. Len(h) : h[i] \in Meals
  BY RegisterAssumption, LenProperties, ElementOfSeq
<1>2. n \in Nat /\ n <= Len(h) /\ n < HistoryLength
  BY <1>1
<1> HIDE DEF n
<1>3. /\ rest \in Seq(Meals)
      /\ Len(rest) = n
      /\ \A i \in 1 .. n : rest[i] = h[i]
  <2>1. \A i \in 1 .. n : h[i] \in Meals
    BY <1>1, <1>2
  <2>2. /\ rest \in Seq(Meals)
        /\ Len(rest) = IF 1 <= n THEN n - 1 + 1 ELSE 0
        /\ \A i \in 1 .. n - 1 + 1 : rest[i] = h[1 + i - 1]
    BY <1>2, <2>1, SubSeqProperties
  <2> QED
    BY <1>2, <2>2
<1>4. <<m>> \in Seq(Meals) /\ Len(<<m>>) = 1 /\ <<m>>[1] = m
  OBVIOUS
<1>5. Remember(h, m) = <<m>> \o rest
  BY DEF Remember, n
<1> HIDE DEF rest
<1>6. /\ <<m>> \o rest \in Seq(Meals)
      /\ Len(<<m>> \o rest) = 1 + n
      /\ \A i \in 1 .. 1 + n :
           (<<m>> \o rest)[i] = IF i <= 1 THEN <<m>>[i] ELSE rest[i - 1]
  BY <1>3, <1>4, ConcatProperties
<1>7. (<<m>> \o rest)[1] = m
  BY <1>2, <1>4, <1>6
<1>8. \A i \in 2 .. 1 + n :
        i - 1 \in DOMAIN h /\ (<<m>> \o rest)[i] = h[i - 1]
  BY <1>1, <1>2, <1>3, <1>6
<1> QED
  BY <1>1, <1>2, <1>5, <1>6, <1>7, <1>8

\* The first preferences of all, and what an unreadable file is read as.
LEMMA DefaultIsSound ==
  ASSUME NEW S
  PROVE  Sound(DefaultPreferences, S)
<1>1. <<>> \in Seq(Meals) /\ Len(<<>>) = 0 /\ DOMAIN <<>> = {}
  OBVIOUS
<1> QED
  BY <1>1, RegisterAssumption DEF Sound, DefaultPreferences, Preferences, Schedules

\* What has been reported stays reported.
LEMMA SoundIsMonotonic ==
  ASSUME NEW S, NEW T, S \subseteq T, NEW p, Sound(p, S)
  PROVE  Sound(p, T)
BY DEF Sound

\* The requests that FeedingTimeUpdater.update() stores a feeding of.
Reports(req) == req.kind = "photon" /\ req.meal # NoMeal

\* A request reports a meal of the feeder's.
LEMMA ReportedMealType ==
  ASSUME NEW req \in Requests, Reports(req)
  PROVE  req.meal \in Meals
BY DEF Requests, Reports, NoMeal, CheckInRequest, FeedNowRequest, HomeRequest, UpdateRequest

\* The feedings of the updated preferences: the reported one in front.
LEMMA AppliedHistory ==
  ASSUME NEW p \in Preferences, NEW req \in Requests
  PROVE  Applied(p, req).last_ten
           = IF Reports(req) THEN Remember(p.last_ten, req.meal) ELSE p.last_ten
<1>1. CASE req.kind = "photon"
  BY <1>1 DEF Applied, Reports, Preferences
<1>2. CASE req.kind = "feed_now"
  BY <1>2 DEF Applied, Reports, Preferences
<1>3. CASE req.kind = "update"
  BY <1>3 DEF Applied, Reports, Preferences
<1>4. CASE req.kind = "home"
  BY <1>4 DEF Applied, Reports, Preferences
<1>5. req.kind \in {"photon", "feed_now", "update", "home"}
  BY DEF Requests, CheckInRequest, FeedNowRequest, HomeRequest, UpdateRequest
<1> QED
  BY <1>1, <1>2, <1>3, <1>4, <1>5

\* The update of well-formed preferences is well-formed, and the only feeding
\* it may add is the one that the request reports.
LEMMA AppliedIsSound ==
  ASSUME NEW S, NEW p, Sound(p, S), NEW req \in Requests,
         Reports(req) => req.meal \in S
  PROVE  Sound(Applied(p, req), S)
<1> DEFINE q == Applied(p, req)
<1>1. p \in Preferences /\ Len(p.last_ten) <= HistoryLength
  BY DEF Sound
<1>2. p.last_ten \in Seq(Meals)
  BY <1>1 DEF Preferences
<1>3. q.last_ten = IF Reports(req) THEN Remember(p.last_ten, req.meal) ELSE p.last_ten
  BY <1>1, AppliedHistory
<1>4. /\ q.last_ten \in Seq(Meals)
      /\ Len(q.last_ten) <= HistoryLength
      /\ \A i \in DOMAIN q.last_ten : q.last_ten[i] \in S
  <2>1. CASE Reports(req)
    <3> DEFINE r == Remember(p.last_ten, req.meal)
    <3>1. req.meal \in Meals
      BY <2>1, ReportedMealType
    <3>2. /\ r \in Seq(Meals)
          /\ Len(r) \in 1 .. HistoryLength
          /\ r[1] = req.meal
          /\ \A i \in 2 .. Len(r) : i - 1 \in DOMAIN p.last_ten /\ r[i] = p.last_ten[i - 1]
      BY <1>1, <1>2, <3>1, RememberEffect
    <3> HIDE DEF r
    <3>3. DOMAIN r = 1 .. Len(r)
      BY <3>2, LenProperties
    <3>4. \A i \in DOMAIN r : r[i] \in S
      BY <2>1, <3>2, <3>3, RegisterAssumption DEF Sound
    <3>5. q.last_ten = r
      BY <1>3, <2>1 DEF r
    <3>6. Len(r) <= HistoryLength
      BY <3>2, RegisterAssumption
    <3> QED
      BY <3>2, <3>4, <3>5, <3>6, Zenon
  <2>2. CASE ~Reports(req)
    BY <1>1, <1>2, <1>3, <2>2 DEF Sound
  <2> QED
    BY <2>1, <2>2
<1>5. /\ q = [feeding_schedule |-> q.feeding_schedule, scoops |-> q.scoops,
              feed_asap |-> q.feed_asap, last_ten |-> q.last_ten]
      /\ q.feeding_schedule \in Schedules
      /\ q.scoops \in ScoopSettings \cup {0}
      /\ q.feed_asap \in BOOLEAN
  <2>1. CASE req.kind = "photon"
    BY <1>1, <2>1 DEF Applied, Preferences
  <2>2. CASE req.kind = "feed_now"
    BY <1>1, <2>2 DEF Applied, Preferences
  <2>3. CASE req.kind = "update"
    <3>1. req.schedule \in Schedules /\ req.scoops \in ScoopSettings \cup {0}
      BY <2>3 DEF Requests, CheckInRequest, FeedNowRequest, HomeRequest, UpdateRequest
    <3> QED
      BY <1>1, <2>3, <3>1 DEF Applied, Preferences
  <2>4. CASE req.kind = "home"
    BY <1>1, <2>4 DEF Applied, Preferences
  <2>5. req.kind \in {"photon", "feed_now", "update", "home"}
    BY DEF Requests, CheckInRequest, FeedNowRequest, HomeRequest, UpdateRequest
  <2> QED
    BY <2>1, <2>2, <2>3, <2>4, <2>5
<1> HIDE DEF q
<1>6. q \in Preferences
  BY <1>4, <1>5 DEF Preferences
<1> QED
  BY <1>4, <1>6 DEF Sound, q

-----------------------------------------------------------------------------
(* Any number of threads, failing reads and writes, crashes.               *)

\* A thread is free, or it is at one of the places of Busy with a copy that
\* is well-formed.
LEMMA ThreadType ==
  ASSUME BackendInv, NEW t \in Conns
  PROVE  /\ conn[t].pc # "free" <=> conn[t] # Free
         /\ conn[t] # Free =>
              /\ conn[t] \in Busy
              /\ conn[t].pc \in {"get", "load", "fill", "put", "truncate", "write",
                                 "notify", "render", "render_schedule",
                                 "render_scoops", "answered", "died"}
              /\ conn[t].req \in Requests
              /\ conn[t].copy \in Preferences
              /\ conn[t].alone \in BOOLEAN
              /\ conn[t].scoops \in ScoopSettings \cup {0, 1}
              /\ Sound(conn[t].copy, recorded)
BY DEF BackendInv, ThreadInv, Busy, Free

\* What one thread may do without disturbing the invariant: move on with a
\* well-formed copy, and leave the cache, the file and the observed history
\* well-formed, the cache not emptied and no meal forgotten.
LEMMA ThreadMoves ==
  ASSUME BackendInv, NEW t \in Conns, NEW c \in {Free} \cup Busy,
         conn' = [conn EXCEPT ![t] = c],
         c # Free =>
           /\ Sound(c.copy, recorded')
           /\ c.pc \notin {"get", "load", "fill", "answered", "died"} => cache' # <<>>,
         cache' # <<>> => cache' = <<cache'[1]>> /\ Sound(cache'[1], recorded'),
         cache # <<>> => cache' # <<>>,
         Sound(disk', recorded'),
         recorded \subseteq recorded', recorded' \subseteq Meals,
         log' \in Seq(Meals), Len(log') <= HistoryLength,
         UNCHANGED <<timerDead, crashes>>
  PROVE  BackendInv'
<1>1. conn' \in [Conns -> {Free} \cup Busy]
  BY DEF BackendInv
<1>2. ASSUME NEW u \in Conns
      PROVE  ThreadInv(u)'
  <2>1. CASE u = t
    BY <2>1 DEF ThreadInv, BackendInv
  <2>2. CASE u # t
    <3>1. conn'[u] = conn[u]
      BY <2>2 DEF BackendInv
    <3>2. ThreadInv(u)
      BY DEF BackendInv
    <3> QED
      BY <3>1, <3>2, SoundIsMonotonic DEF ThreadInv
  <2> QED
    BY <2>1, <2>2
<1>3. timerDead' \in BOOLEAN /\ crashes' \in 0 .. MaxCrashes
  BY DEF BackendInv
<1> QED
  BY <1>1, <1>2, <1>3 DEF BackendInv

\* The same for a step of one thread that touches nothing but its own record.
LEMMA ThreadMovesAlone ==
  ASSUME BackendInv, NEW t \in Conns, NEW c \in {Free} \cup Busy,
         conn' = [conn EXCEPT ![t] = c],
         c # Free =>
           /\ Sound(c.copy, recorded)
           /\ c.pc \notin {"get", "load", "fill", "answered", "died"} => cache # <<>>,
         UNCHANGED <<cache, disk, timerDead, crashes, log, recorded>>
  PROVE  BackendInv'
<1>1. /\ cache' # <<>> => cache' = <<cache'[1]>> /\ Sound(cache'[1], recorded')
      /\ Sound(disk', recorded')
      /\ recorded' \subseteq Meals
      /\ log' \in Seq(Meals) /\ Len(log') <= HistoryLength
  BY DEF BackendInv
<1>2. c # Free =>
        /\ Sound(c.copy, recorded')
        /\ c.pc \notin {"get", "load", "fill", "answered", "died"} => cache' # <<>>
  OBVIOUS
<1> QED
  BY <1>1, <1>2, ThreadMoves

LEMMA AcceptKeepsInv ==
  ASSUME BackendInv, NEW t \in Conns, NEW req \in Requests, Accept(t, req)
  PROVE  BackendInv'
<1> DEFINE c == [pc |-> "get", req |-> req, copy |-> DefaultPreferences,
                 alone |-> TRUE, scoops |-> 0]
<1>1. Sound(c.copy, recorded)
  BY DefaultIsSound
<1>2. c \in Busy
  <2>1. DefaultPreferences \in Preferences
    BY DefaultIsSound DEF Sound
  <2> QED
    BY <2>1 DEF Busy
<1>3. /\ conn' = [conn EXCEPT ![t] = c]
      /\ UNCHANGED <<cache, disk, timerDead, crashes, log, recorded>>
  BY DEF Accept
<1>4. c.pc = "get"
  OBVIOUS
<1> HIDE DEF c
<1> QED
  BY <1>1, <1>2, <1>3, <1>4, ThreadMovesAlone

\* Storage.getItemBlocking() returns well-formed preferences, and whoever goes
\* on to set() leaves the cache filled.
LEMMA ReadKeepsInv ==
  ASSUME BackendInv, NEW t \in Conns,
         GetFromCache(t) \/ GetMissed(t) \/ Deserialize(t) \/ FillCache(t)
  PROVE  BackendInv'
<1>0. conn[t] # Free /\ conn[t] \in Busy /\ Sound(conn[t].copy, recorded)
  BY ThreadType DEF GetFromCache, GetMissed, Deserialize, FillCache, At
<1>1. CASE GetFromCache(t)
  <2> DEFINE c == [conn[t] EXCEPT !.pc = AfterGet(t), !.copy = cache[1]]
  <2>1. Sound(cache[1], recorded)
    BY <1>1 DEF GetFromCache, BackendInv
  <2>2. c \in Busy
    BY <1>0, <2>1 DEF Busy, AfterGet, Sound
  <2>3. /\ conn' = [conn EXCEPT ![t] = c]
        /\ cache # <<>>
        /\ UNCHANGED <<cache, disk, timerDead, crashes, log, recorded>>
    BY <1>1 DEF GetFromCache
  <2>4. c.copy = cache[1]
    BY <1>0 DEF Busy
  <2> HIDE DEF c
  <2> QED
    BY <2>1, <2>2, <2>3, <2>4, ThreadMovesAlone
<1>2. CASE GetMissed(t)
  <2> DEFINE c == [conn[t] EXCEPT !.pc = "load"]
  <2>1. c \in Busy /\ c.pc = "load" /\ c.copy = conn[t].copy
    BY <1>0 DEF Busy
  <2>2. /\ conn' = [conn EXCEPT ![t] = c]
        /\ UNCHANGED <<cache, disk, timerDead, crashes, log, recorded>>
    BY <1>2 DEF GetMissed, Goto
  <2> HIDE DEF c
  <2> QED
    BY <1>0, <2>1, <2>2, ThreadMovesAlone
<1>3. CASE Deserialize(t)
  <2>1. PICK prefs \in {disk, DefaultPreferences} :
          conn' = [conn EXCEPT ![t].pc = "fill", ![t].copy = prefs]
    BY <1>3 DEF Deserialize
  <2> DEFINE c == [conn[t] EXCEPT !.pc = "fill", !.copy = prefs]
  <2>2. Sound(prefs, recorded)
    BY <2>1, DefaultIsSound DEF BackendInv
  <2>3. c \in Busy /\ c.pc = "fill" /\ c.copy = prefs
    BY <1>0, <2>2 DEF Busy, Sound
  <2>4. /\ conn' = [conn EXCEPT ![t] = c]
        /\ UNCHANGED <<cache, disk, timerDead, crashes, log, recorded>>
    BY <1>3, <2>1 DEF Deserialize
  <2> HIDE DEF c
  <2> QED
    BY <2>2, <2>3, <2>4, ThreadMovesAlone
<1>4. CASE FillCache(t)
  <2> DEFINE c == [conn[t] EXCEPT !.pc = AfterGet(t)]
  <2>1. c \in Busy /\ c.copy = conn[t].copy
    BY <1>0 DEF Busy, AfterGet
  <2>2. /\ conn' = [conn EXCEPT ![t] = c]
        /\ cache' = <<conn[t].copy>>
        /\ UNCHANGED <<disk, timerDead, crashes, log, recorded>>
    BY <1>4 DEF FillCache, Goto
  <2>3. cache' # <<>> /\ cache'[1] = conn[t].copy
    BY <2>2
  <2>4. /\ Sound(cache'[1], recorded')
        /\ Sound(disk', recorded')
        /\ recorded' \subseteq Meals
        /\ log' \in Seq(Meals) /\ Len(log') <= HistoryLength
    BY <1>0, <2>2, <2>3 DEF BackendInv
  <2> HIDE DEF c
  <2> QED
    BY <1>0, <2>1, <2>2, <2>3, <2>4, ThreadMoves
<1> QED
  BY <1>1, <1>2, <1>3, <1>4

\* The updater's change and set(): the only step that adds a feeding.
LEMMA PutKeepsInv ==
  ASSUME BackendInv, NEW t \in Conns, PutIntoCache(t)
  PROVE  BackendInv'
<1> DEFINE req == conn[t].req
           prefs == Applied(conn[t].copy, req)
           c == [conn[t] EXCEPT !.pc = "truncate", !.copy = prefs]
<1>1. /\ conn[t] \in Busy
      /\ req \in Requests
      /\ Sound(conn[t].copy, recorded)
  BY ThreadType DEF PutIntoCache, At
<1>2. /\ recorded \subseteq recorded'
      /\ recorded' \subseteq Meals
      /\ Reports(req) => req.meal \in recorded'
      /\ log' \in Seq(Meals) /\ Len(log') <= HistoryLength
  <2>1. log \in Seq(Meals) /\ Len(log) <= HistoryLength /\ recorded \subseteq Meals
    BY DEF BackendInv
  <2>2. CASE Reports(req)
    <3>1. log' = Remember(log, req.meal) /\ recorded' = recorded \cup {req.meal}
      BY <2>2 DEF PutIntoCache, Reports
    <3>2. req.meal \in Meals
      BY <1>1, <2>2, ReportedMealType
    <3>3. /\ Remember(log, req.meal) \in Seq(Meals)
          /\ Len(Remember(log, req.meal)) \in 1 .. HistoryLength
      BY <2>1, <3>2, RememberEffect
    <3>4. Len(log') <= HistoryLength
      BY <3>1, <3>3, RegisterAssumption
    <3> QED
      BY <2>1, <3>1, <3>2, <3>3, <3>4
  <2>3. CASE ~Reports(req)
    BY <2>1, <2>3 DEF PutIntoCache, Reports
  <2> QED
    BY <2>2, <2>3
<1>3. Sound(prefs, recorded')
  <2>1. Sound(conn[t].copy, recorded')
    BY <1>1, <1>2, SoundIsMonotonic
  <2>2. Reports(req) => req.meal \in recorded'
    BY <1>2
  <2> HIDE DEF req
  <2>3. Sound(Applied(conn[t].copy, req), recorded')
    BY <1>1, <2>1, <2>2, AppliedIsSound
  <2> QED
    BY <2>3
<1> HIDE DEF prefs, req
<1>4. c \in Busy /\ c.copy = prefs
  BY <1>1, <1>3 DEF Busy, Sound
<1>5. /\ conn' = [conn EXCEPT ![t] = c]
      /\ cache' = <<prefs>>
      /\ UNCHANGED <<disk, timerDead, crashes>>
  BY DEF PutIntoCache, prefs, req
<1>6. cache' # <<>> /\ cache'[1] = prefs
  BY <1>5
<1>7. Sound(disk', recorded')
  BY <1>2, <1>5, SoundIsMonotonic DEF BackendInv
<1> HIDE DEF c
<1> QED
  BY <1>2, <1>3, <1>4, <1>5, <1>6, <1>7, ThreadMoves

\* Files.write(): whatever two writers do to each other, the file holds what
\* one of them wrote, or nothing.
LEMMA SaveKeepsInv ==
  ASSUME BackendInv, NEW t \in Conns, TruncateFile(t) \/ WriteFile(t)
  PROVE  BackendInv'
<1>0. conn[t] # Free /\ conn[t] \in Busy /\ Sound(conn[t].copy, recorded)
  BY ThreadType DEF TruncateFile, WriteFile, At
<1>1. Sound(DefaultPreferences, recorded) /\ DefaultPreferences \in Preferences
  BY DefaultIsSound DEF Sound
<1>2. cache # <<>>
  BY <1>0 DEF BackendInv, ThreadInv, TruncateFile, WriteFile, At
<1>3. /\ cache = <<cache[1]>> /\ Sound(cache[1], recorded)
      /\ Sound(disk, recorded)
      /\ recorded \subseteq Meals
      /\ log \in Seq(Meals) /\ Len(log) <= HistoryLength
  BY <1>2 DEF BackendInv
<1>4. CASE TruncateFile(t)
  <2>1. PICK c \in Busy : /\ Sound(c.copy, recorded)
                          /\ conn' = [conn EXCEPT ![t] = c]
    <3>1. CASE conn' = [conn EXCEPT ![t].pc = "write", ![t].alone = TRUE]
      <4> DEFINE c == [conn[t] EXCEPT !.pc = "write", !.alone = TRUE]
      <4>1. c \in Busy /\ c.copy = conn[t].copy
        BY <1>0 DEF Busy
      <4> QED
        BY <1>0, <3>1, <4>1
    <3>2. CASE conn' = [conn EXCEPT ![t].pc = AfterSet(t), ![t].copy = DefaultPreferences]
      <4> DEFINE c == [conn[t] EXCEPT !.pc = AfterSet(t), !.copy = DefaultPreferences]
      <4>1. c \in Busy /\ c.copy = DefaultPreferences
        BY <1>0, <1>1 DEF Busy, AfterSet
      <4> QED
        BY <1>1, <3>2, <4>1
    <3> QED
      BY <1>4, <3>1, <3>2 DEF TruncateFile
  <2>2. /\ disk' \in {DefaultPreferences, disk}
        /\ UNCHANGED <<cache, timerDead, crashes, log, recorded>>
    BY <1>4 DEF TruncateFile
  <2>3. Sound(disk', recorded')
    BY <1>1, <1>3, <2>2
  <2> QED
    BY <1>2, <1>3, <2>1, <2>2, <2>3, ThreadMoves
<1>5. CASE WriteFile(t)
  <2>1. /\ disk' \in {conn[t].copy, DefaultPreferences, disk}
        /\ UNCHANGED <<cache, timerDead, crashes, log, recorded>>
    BY <1>5 DEF WriteFile
  <2>2. Sound(disk', recorded')
    BY <1>0, <1>1, <1>3, <2>1
  <2>3. ASSUME NEW u \in Conns
        PROVE  conn'[u] \in {Free} \cup Busy /\ ThreadInv(u)'
    <3>1. conn'[u] = CASE u = t -> [conn[t] EXCEPT !.pc = AfterSet(t),
                                                  !.copy = DefaultPreferences]
                       [] u # t /\ At(u, "write") -> [conn[u] EXCEPT !.alone = FALSE]
                       [] OTHER -> conn[u]
      BY <1>5 DEF WriteFile
    <3>2. CASE u = t
      <4> DEFINE c == [conn[t] EXCEPT !.pc = AfterSet(t), !.copy = DefaultPreferences]
      <4>1. conn'[u] = c
        BY <3>1, <3>2
      <4>2. c \in Busy /\ c.copy = DefaultPreferences
        BY <1>0, <1>1 DEF Busy, AfterSet
      <4> QED
        BY <1>1, <1>2, <2>1, <4>1, <4>2 DEF ThreadInv
    <3>3. CASE u # t /\ At(u, "write")
      <4> DEFINE c == [conn[u] EXCEPT !.alone = FALSE]
      <4>1. conn'[u] = c
        BY <3>1, <3>3
      <4>2. conn[u] \in Busy /\ Sound(conn[u].copy, recorded)
        BY <3>3, ThreadType DEF At
      <4>3. c \in Busy /\ c.copy = conn[u].copy
        BY <4>2 DEF Busy
      <4> QED
        BY <1>2, <2>1, <4>1, <4>2, <4>3 DEF ThreadInv
    <3>4. CASE u # t /\ ~At(u, "write")
      <4>1. conn'[u] = conn[u]
        BY <3>1, <3>4
      <4> QED
        BY <2>1, <4>1 DEF BackendInv, ThreadInv
    <3> QED
      BY <3>2, <3>3, <3>4
  <2>4. conn' = [u \in Conns |-> conn'[u]]
    BY <1>5 DEF WriteFile
  <2>5. conn' \in [Conns -> {Free} \cup Busy]
    BY <2>3, <2>4
  <2> QED
    BY <1>2, <1>3, <2>1, <2>2, <2>3, <2>5 DEF BackendInv
<1> QED
  BY <1>4, <1>5

\* The rest of a check-in only looks at the cache, which is filled.
LEMMA AnswerKeepsInv ==
  ASSUME BackendInv, NEW t \in Conns,
         \/ RearmOutageTimeout(t)
         \/ RenderFeedAsap(t) \/ RenderNextFeeding(t) \/ RenderScoops(t)
         \/ Close(t)
  PROVE  BackendInv'
<1>1. CASE Close(t)
  BY <1>1, ThreadMovesAlone DEF Close
<1>2. CASE ~Close(t)
  <2>1. conn[t] # Free /\ conn[t] \in Busy /\ Sound(conn[t].copy, recorded)
    BY <1>2, ThreadType DEF RearmOutageTimeout, RenderFeedAsap, RenderNextFeeding,
                            RenderScoops, At
  <2>2. cache # <<>>
    BY <1>2, <2>1 DEF BackendInv, ThreadInv, RearmOutageTimeout, RenderFeedAsap,
                      RenderNextFeeding, RenderScoops, At
  <2>3. cache[1].scoops \in ScoopSettings \cup {0}
    BY <2>2 DEF BackendInv, Sound, Preferences
  <2>4. UNCHANGED <<cache, disk, timerDead, crashes, log, recorded>>
    BY <1>2 DEF RearmOutageTimeout, RenderFeedAsap, RenderNextFeeding, RenderScoops
  <2>5. ASSUME NEW p \in {"died", "render", "render_schedule", "render_scoops", "answered"},
               NEW n \in ScoopSettings \cup {0, 1},
               conn' = [conn EXCEPT ![t].pc = p, ![t].scoops = n]
        PROVE  BackendInv'
    <3> DEFINE c == [conn[t] EXCEPT !.pc = p, !.scoops = n]
    <3>1. c \in Busy /\ c.copy = conn[t].copy
      BY <2>1 DEF Busy
    <3>2. conn' = [conn EXCEPT ![t] = c]
      BY <2>5
    <3> HIDE DEF c
    <3> QED
      BY <2>1, <2>2, <2>4, <3>1, <3>2, ThreadMovesAlone
  <2>6. ASSUME NEW p \in {"died", "render", "render_schedule", "render_scoops", "answered"},
               Goto(t, p)
        PROVE  BackendInv'
    <3>1. conn[t].scoops \in ScoopSettings \cup {0, 1}
      BY <2>1 DEF Busy
    <3>2. conn' = [conn EXCEPT ![t].pc = p, ![t].scoops = conn[t].scoops]
      BY <2>1, <2>6 DEF Goto, Busy
    <3> QED
      BY <2>5, <3>1, <3>2
  <2>7. CASE RearmOutageTimeout(t)
    BY <2>6, <2>7 DEF RearmOutageTimeout
  <2>8. CASE RenderFeedAsap(t)
    <3>1. CASE cache[1].feed_asap
      BY <2>5, <2>8, <3>1 DEF RenderFeedAsap
    <3>2. CASE ~cache[1].feed_asap
      BY <2>6, <2>8, <3>2 DEF RenderFeedAsap, Goto
    <3> QED
      BY <3>1, <3>2
  <2>9. CASE RenderNextFeeding(t)
    BY <2>6, <2>9 DEF RenderNextFeeding
  <2>10. CASE RenderScoops(t)
    <3> DEFINE n == IF cache[1].scoops > 1 THEN cache[1].scoops ELSE 1
    <3>1. n \in ScoopSettings \cup {0, 1}
      BY <2>3
    <3>2. conn' = [conn EXCEPT ![t].pc = "answered", ![t].scoops = n]
      BY <2>10 DEF RenderScoops
    <3> HIDE DEF n
    <3> QED
      BY <2>5, <3>1, <3>2
  <2> QED
    BY <1>2, <2>7, <2>8, <2>9, <2>10
<1> QED
  BY <1>1, <1>2

LEMMA CrashKeepsInv ==
  ASSUME BackendInv, Crash
  PROVE  BackendInv'
<1>1. /\ disk.last_ten \in Seq(Meals)
      /\ Len(disk.last_ten) <= HistoryLength
  BY DEF BackendInv, Sound, Preferences
<1>2. crashes' \in 0 .. MaxCrashes
  BY BackendAssumption DEF BackendInv, Crash
<1>3. \A t \in Conns : conn'[t] = Free
  BY DEF Crash
<1>4. conn' \in [Conns -> {Free} \cup Busy]
  BY DEF Crash
<1>5. Sound(disk', recorded') /\ recorded' \subseteq Meals
  BY DEF BackendInv, Crash
<1> QED
  BY <1>1, <1>2, <1>3, <1>4, <1>5 DEF BackendInv, ThreadInv, Crash

\* No step of the server breaks the invariant. CatFeeder's steps are, on the
\* server's variables, such steps: its proofs cite this lemma.
LEMMA BackendInvStep ==
  ASSUME BackendInv, [BackendNext]_backendVars
  PROVE  BackendInv'
<1>1. CASE UNCHANGED backendVars
  BY <1>1 DEF backendVars, BackendInv, ThreadInv
<1>2. ASSUME NEW t \in Conns, NEW req \in Requests, Accept(t, req)
      PROVE  BackendInv'
  BY <1>2, AcceptKeepsInv
<1>3. ASSUME NEW t \in Conns, ThreadStep(t) \/ Close(t)
      PROVE  BackendInv'
  BY <1>3, ReadKeepsInv, PutKeepsInv, SaveKeepsInv, AnswerKeepsInv DEF ThreadStep
<1>4. CASE TimerDies
  BY <1>4 DEF TimerDies, BackendInv, ThreadInv
<1>5. CASE Crash
  BY <1>5, CrashKeepsInv
<1> QED
  BY <1>1, <1>2, <1>3, <1>4, <1>5 DEF BackendNext

\* The file holds no feeding, and nothing else exists.
LEMMA BackendInitInv == BackendInit => BackendInv
<1> SUFFICES ASSUME BackendInit
             PROVE  BackendInv
  OBVIOUS
<1>1. PICK s \in Schedules : disk = [DefaultPreferences EXCEPT !.feeding_schedule = s]
  BY BackendAssumption DEF BackendInit
<1>2. Sound(disk, recorded)
  <2>1. DefaultPreferences \in Preferences /\ Sound(DefaultPreferences, recorded)
    BY DefaultIsSound DEF Sound
  <2> QED
    BY <1>1, <2>1 DEF Sound, Preferences
<1>3. conn \in [Conns -> {Free} \cup Busy] /\ \A t \in Conns : ThreadInv(t)
  BY DEF BackendInit, ThreadInv
<1>4. log \in Seq(Meals) /\ Len(log) <= HistoryLength
  BY RegisterAssumption DEF BackendInit
<1>5. crashes \in 0 .. MaxCrashes
  BY BackendAssumption DEF BackendInit
<1> QED
  BY <1>2, <1>3, <1>4, <1>5 DEF BackendInit, BackendInv

LEMMA BackendInvHolds == BackendSpec => []BackendInv
<1>1. BackendInv /\ [BackendNext]_backendVars => BackendInv'
  BY BackendInvStep
<1> QED
  BY <1>1, BackendInitInv, PTL DEF BackendSpec

\* The invariant says what the two properties of the server's runs say.
LEMMA BackendInvIsEnough == BackendInv => BackendTypeOK /\ NoFeedingIsInvented
<1> SUFFICES ASSUME BackendInv
             PROVE  BackendTypeOK /\ NoFeedingIsInvented
  OBVIOUS
<1>1. cache \in Seq(Preferences) /\ Len(cache) <= 1
  <2>1. CASE cache = <<>>
    BY <2>1
  <2>2. CASE cache # <<>>
    <3>1. PICK p \in Preferences : cache = <<p>>
      BY <2>2 DEF BackendInv, Sound
    <3> QED
      BY <3>1
  <2> QED
    BY <2>1, <2>2
<1>2. disk \in Preferences
  BY DEF BackendInv, Sound
<1>3. \A t \in Conns : conn[t] = Free \/ conn[t] \in Busy
  BY DEF BackendInv
<1>4. Sound(Current, recorded) /\ Sound(disk, recorded)
  BY DEF BackendInv, Current
<1>5. ASSUME NEW t \in Conns, ~At(t, "free")
      PROVE  Sound(conn[t].copy, recorded)
  BY <1>5, ThreadType DEF At
<1>6. NoFeedingIsInvented
  BY <1>4, <1>5 DEF NoFeedingIsInvented, Sound
<1>7. BackendTypeOK
  BY <1>1, <1>2, <1>3 DEF BackendTypeOK, BackendInv
<1> QED
  BY <1>6, <1>7

\* The server's state is well-formed: the cache holds one set of preferences at
\* most, no history outgrows its ten entries, every thread is at a place of the
\* code, with any number of threads, failing reads and writes, and crashes.
THEOREM BackendIsTyped == BackendSpec => []BackendTypeOK
BY BackendInvHolds, BackendInvIsEnough, PTL

\* Threads that overwrite each other's updates, interleaved or failed writes,
\* and restarts lose feedings, but none makes up a feeding: what the cache, the
\* file and the threads hold has been reported by a check-in.
THEOREM FeedingsAreReported == BackendSpec => []NoFeedingIsInvented
BY BackendInvHolds, BackendInvIsEnough, PTL

-----------------------------------------------------------------------------
(* Requests that come one at a time, and a disk that does not fail.        *)

\* While thread t is in a request, every other one waits for a connection.
LEMMA OthersAreFree ==
  ASSUME BackendInv, OneAtATime, NEW t \in Conns, conn[t] # Free,
         NEW u \in Conns, u # t
  PROVE  conn[u] = Free /\ conn[u].pc = "free"
BY DEF OneAtATime, Free

\* A step of a thread that is alone keeps the invariant if it leaves the
\* thread, the cache and the file as the invariant has them.
LEMMA SerialThreadMoves ==
  ASSUME BackendInv, NEW t \in Conns,
         \A u \in Conns \ {t} : conn[u] = Free /\ conn'[u] = Free,
         SerialThreadInv(t)',
         conn'[t].pc \notin {"truncate", "write"} => disk' = Current',
         Current'.last_ten = log'
  PROVE  SerialInv'
<1>1. ASSUME NEW u \in Conns, u # t
      PROVE  SerialThreadInv(u)'
  <2>1. conn'[u].pc = "free"
    BY <1>1 DEF Free
  <2> QED
    BY <2>1 DEF SerialThreadInv
<1>2. \A u \in Conns : SerialThreadInv(u)'
  BY <1>1
<1>3. (\A u \in Conns : conn'[u].pc \notin {"truncate", "write"}) => disk' = Current'
  OBVIOUS
<1> QED
  BY <1>2, <1>3 DEF SerialInv

\* getItemBlocking() returns what the file and the cache agree on.
LEMMA SerialRead ==
  ASSUME ~IoMayFail, BackendInv, SerialInv, OneAtATime, NEW t \in Conns,
         GetFromCache(t) \/ GetMissed(t) \/ Deserialize(t) \/ FillCache(t)
  PROVE  /\ SerialInv'
         /\ Current' = Current /\ disk' = disk
<1>1. conn[t] # Free /\ conn[t] \in Busy
  BY ThreadType DEF GetFromCache, GetMissed, Deserialize, FillCache, At
<1>2. \A u \in Conns \ {t} : conn[u] = Free /\ conn[u].pc = "free"
  BY <1>1, OthersAreFree
<1>3. \A u \in Conns \ {t} : conn'[u] = Free
  BY <1>2 DEF BackendInv, GetFromCache, GetMissed, Deserialize, FillCache, Goto
<1>4. conn[t].pc \in {"get", "load", "fill"}
  BY DEF GetFromCache, GetMissed, Deserialize, FillCache, At
<1>5. disk = Current /\ Current.last_ten = log
  BY <1>2, <1>4, Zenon DEF SerialInv
<1>6. conn \in [Conns -> {Free} \cup Busy]
  BY DEF BackendInv
<1>7. CASE GetFromCache(t)
  <2>1. cache = <<cache[1]>> /\ cache # <<>>
    BY <1>7 DEF GetFromCache, BackendInv
  <2>2. conn'[t].pc \in {"put", "answered"} /\ conn'[t].copy = cache[1]
    BY <1>1, <1>6, <1>7 DEF GetFromCache, AfterGet, Busy
  <2>3. UNCHANGED <<cache, disk, log>> /\ UNCHANGED Current
    BY <1>7 DEF GetFromCache, Current
  <2> QED
    BY <1>2, <1>3, <1>5, <2>1, <2>2, <2>3, SerialThreadMoves DEF SerialThreadInv
<1>8. CASE GetMissed(t)
  <2>1. cache = <<>>
    BY <1>8 DEF GetMissed
  <2>2. conn'[t].pc = "load"
    BY <1>1, <1>6, <1>8 DEF GetMissed, Goto, Busy
  <2>3. UNCHANGED <<cache, disk, log>> /\ UNCHANGED Current
    BY <1>8 DEF GetMissed, Current
  <2> QED
    BY <1>2, <1>3, <1>5, <2>1, <2>2, <2>3, SerialThreadMoves DEF SerialThreadInv
<1>9. CASE Deserialize(t)
  <2>1. cache = <<>>
    BY <1>9 DEF Deserialize, At, SerialInv, SerialThreadInv
  <2>2. conn'[t].pc = "fill" /\ conn'[t].copy = disk
    <3>1. conn' = [conn EXCEPT ![t].pc = "fill", ![t].copy = disk]
      BY <1>9 DEF Deserialize
    <3> QED
      BY <1>1, <1>6, <3>1 DEF Busy
  <2>3. UNCHANGED <<cache, disk, log>> /\ UNCHANGED Current
    BY <1>9 DEF Deserialize, Current
  <2> QED
    BY <1>2, <1>3, <1>5, <2>1, <2>2, <2>3, SerialThreadMoves DEF SerialThreadInv
<1>10. CASE FillCache(t)
  <2>1. conn[t].copy = disk
    BY <1>10 DEF FillCache, At, SerialInv, SerialThreadInv
  <2>2. conn'[t].pc \in {"put", "answered"} /\ conn'[t].copy = disk
    BY <1>1, <1>6, <1>10, <2>1 DEF FillCache, Goto, AfterGet, Busy
  <2>3. cache' = <<disk>> /\ UNCHANGED <<disk, log>>
    BY <1>10, <2>1 DEF FillCache
  <2>4. Current' = disk
    BY <2>3 DEF Current
  <2> QED
    BY <1>2, <1>3, <1>5, <2>2, <2>3, <2>4, SerialThreadMoves DEF SerialThreadInv
<1> QED
  BY <1>7, <1>8, <1>9, <1>10

\* set() updates what the file and the cache agree on.
LEMMA SerialPut ==
  ASSUME BackendInv, SerialInv, OneAtATime, NEW t \in Conns, PutIntoCache(t)
  PROVE  /\ SerialInv'
         /\ conn[t].req \in Requests
         /\ disk = Current
         /\ Current' = Applied(Current, conn[t].req) /\ disk' = disk
<1> DEFINE req == conn[t].req
           prefs == Applied(conn[t].copy, req)
<1>1. /\ conn[t] # Free /\ conn[t] \in Busy
      /\ req \in Requests
      /\ conn[t].copy \in Preferences
  BY ThreadType DEF PutIntoCache, At
<1>2. \A u \in Conns \ {t} : conn[u] = Free /\ conn[u].pc = "free"
  BY <1>1, OthersAreFree
<1>3. \A u \in Conns \ {t} : conn'[u] = Free
  BY <1>2 DEF BackendInv, PutIntoCache
<1>4. disk = Current /\ Current.last_ten = log
  BY <1>2, Zenon DEF SerialInv, PutIntoCache, At
<1>5. Current = conn[t].copy
  BY DEF PutIntoCache, At, SerialInv, SerialThreadInv, Current
<1>6. cache' = <<prefs>> /\ Current' = prefs /\ disk' = disk
  BY DEF PutIntoCache, Current
<1>7. log' = IF Reports(req) THEN Remember(log, req.meal) ELSE log
  BY DEF PutIntoCache, Reports
<1>8. prefs.last_ten = log'
  BY <1>1, <1>4, <1>5, <1>7, AppliedHistory
<1> HIDE DEF prefs
<1>9. conn'[t].pc = "truncate" /\ conn'[t].copy = prefs
  BY <1>1 DEF PutIntoCache, BackendInv, Busy, prefs
<1>10. SerialThreadInv(t)'
  BY <1>6, <1>9 DEF SerialThreadInv
<1>11. SerialInv'
  BY <1>2, <1>3, <1>6, <1>8, <1>9, <1>10, SerialThreadMoves
<1> QED
  BY <1>1, <1>4, <1>5, <1>6, <1>11 DEF prefs

\* Files.write() empties the file and then makes it what the cache is.
LEMMA SerialSave ==
  ASSUME ~IoMayFail, BackendInv, SerialInv, OneAtATime, NEW t \in Conns,
         TruncateFile(t) \/ WriteFile(t)
  PROVE  /\ SerialInv'
         /\ Current' = Current /\ disk' \in {DefaultPreferences, Current}
<1>1. /\ conn[t] # Free /\ conn[t] \in Busy
      /\ conn \in [Conns -> {Free} \cup Busy]
  BY ThreadType DEF TruncateFile, WriteFile, At, BackendInv
<1>2. \A u \in Conns \ {t} : conn[u] = Free /\ conn[u].pc = "free"
  BY <1>1, OthersAreFree
<1>3. \A u \in Conns \ {t} : conn'[u] = Free
  <2>1. CASE TruncateFile(t)
    BY <1>1, <1>2, <2>1 DEF TruncateFile
  <2>2. CASE WriteFile(t)
    BY <1>1, <1>2, <2>2 DEF WriteFile, At
  <2> QED
    BY <2>1, <2>2
<1>4. cache = <<conn[t].copy>> /\ Current = conn[t].copy
  BY DEF TruncateFile, WriteFile, At, SerialInv, SerialThreadInv, Current
<1>5. cache' = cache /\ Current' = Current /\ Current'.last_ten = log'
  <2>1. UNCHANGED <<cache, log>>
    BY DEF TruncateFile, WriteFile
  <2>2. Current' = Current
    BY <1>4, <2>1 DEF Current
  <2> QED
    BY <2>1, <2>2 DEF SerialInv
<1>6. CASE TruncateFile(t)
  <2>1. disk' = DefaultPreferences
    BY <1>6 DEF TruncateFile
  <2>2. conn'[t].pc = "write" /\ conn'[t].alone /\ conn'[t].copy = conn[t].copy
    BY <1>1, <1>6 DEF TruncateFile, Busy
  <2>3. SerialThreadInv(t)'
    BY <1>4, <1>5, <2>2 DEF SerialThreadInv
  <2>4. SerialInv'
    BY <1>2, <1>3, <1>5, <2>2, <2>3, SerialThreadMoves
  <2> QED
    BY <1>5, <2>1, <2>4
<1>7. CASE WriteFile(t)
  <2>1. conn[t].alone
    BY <1>7 DEF WriteFile, At, SerialInv, SerialThreadInv
  <2>2. disk' = conn[t].copy
    BY <1>7, <2>1 DEF WriteFile
  <2>3. conn'[t].pc \in {"notify", "answered"}
    BY <1>1, <1>7 DEF WriteFile, AfterSet, Busy
  <2>4. SerialThreadInv(t)'
    BY <2>3 DEF SerialThreadInv
  <2>5. SerialInv'
    BY <1>2, <1>3, <1>4, <1>5, <2>2, <2>4, SerialThreadMoves
  <2> QED
    BY <1>4, <1>5, <2>2, <2>5
<1> QED
  BY <1>6, <1>7

\* Every other step of the server leaves the preferences as they are, except
\* that a crash makes them those of the file.
LEMMA SerialRest ==
  ASSUME BackendInv, SerialInv, OneAtATime, OneAtATime',
         \/ \E t \in Conns :
              \/ \E req \in Requests : Accept(t, req)
              \/ RearmOutageTimeout(t)
              \/ RenderFeedAsap(t) \/ RenderNextFeeding(t) \/ RenderScoops(t)
              \/ Close(t)
         \/ TimerDies
         \/ Crash
         \/ UNCHANGED backendVars
  PROVE  /\ SerialInv'
         /\ disk' = disk /\ Current' \in {Current, disk}
<1>1. ASSUME NEW t \in Conns,
             \A u \in Conns \ {t} : conn[u] = Free /\ conn'[u] = Free,
             conn[t].pc \notin {"truncate", "write"},
             conn'[t].pc \in {"free", "get", "died", "render", "render_schedule",
                              "render_scoops", "answered"},
             UNCHANGED <<cache, disk, log>>
      PROVE  SerialInv' /\ disk' = disk /\ Current' = Current
  <2>1. \A u \in Conns : conn[u].pc \notin {"truncate", "write"}
    BY <1>1 DEF Free
  <2>2. disk = Current /\ Current.last_ten = log
    BY <2>1, Zenon DEF SerialInv
  <2>3. Current' = Current
    BY <1>1 DEF Current
  <2>4. SerialThreadInv(t)'
    BY <1>1 DEF SerialThreadInv
  <2> QED
    BY <1>1, <2>2, <2>3, <2>4, SerialThreadMoves
<1>2. ASSUME NEW t \in Conns, NEW req \in Requests, Accept(t, req)
      PROVE  SerialInv' /\ disk' = disk /\ Current' = Current
  <2>1. conn'[t].pc = "get" /\ conn'[t] # Free /\ conn[t].pc = "free"
    BY <1>2 DEF Accept, At, BackendInv, Free
  <2>2. \A u \in Conns \ {t} : conn'[u] = Free /\ conn'[u] = conn[u]
    BY <1>2, <2>1 DEF Accept, OneAtATime, BackendInv
  <2> QED
    BY <1>1, <1>2, <2>1, <2>2 DEF Accept
<1>3. ASSUME NEW t \in Conns,
             \/ RearmOutageTimeout(t)
             \/ RenderFeedAsap(t) \/ RenderNextFeeding(t) \/ RenderScoops(t)
             \/ Close(t)
      PROVE  SerialInv' /\ disk' = disk /\ Current' = Current
  <2>1. conn[t] # Free /\ conn[t] \in Busy /\ conn \in [Conns -> {Free} \cup Busy]
    BY <1>3, ThreadType DEF RearmOutageTimeout, RenderFeedAsap, RenderNextFeeding,
                            RenderScoops, Close, At, BackendInv
  <2>2. \A u \in Conns \ {t} : conn[u] = Free
    BY <2>1, OthersAreFree
  <2>3. conn[t].pc \in {"notify", "render", "render_schedule", "render_scoops",
                        "answered", "died"}
    BY <1>3 DEF RearmOutageTimeout, RenderFeedAsap, RenderNextFeeding, RenderScoops,
                Close, At
  <2>4. UNCHANGED <<cache, disk, log>>
    BY <1>3 DEF RearmOutageTimeout, RenderFeedAsap, RenderNextFeeding, RenderScoops,
                Close
  <2>5. /\ conn'[t].pc \in {"free", "died", "render", "render_schedule",
                            "render_scoops", "answered"}
        /\ \A u \in Conns \ {t} : conn'[u] = conn[u]
    <3>1. CASE RearmOutageTimeout(t)
      BY <2>1, <3>1 DEF RearmOutageTimeout, Goto, Busy
    <3>2. CASE RenderFeedAsap(t)
      BY <2>1, <3>2 DEF RenderFeedAsap, Busy
    <3>3. CASE RenderNextFeeding(t)
      BY <2>1, <3>3 DEF RenderNextFeeding, Goto, Busy
    <3>4. CASE RenderScoops(t)
      BY <2>1, <3>4 DEF RenderScoops, Busy
    <3>5. CASE Close(t)
      BY <2>1, <3>5 DEF Close, Free
    <3> QED
      BY <1>3, <3>1, <3>2, <3>3, <3>4, <3>5
  <2> QED
    BY <1>1, <2>2, <2>3, <2>4, <2>5
<1>4. CASE TimerDies \/ UNCHANGED backendVars
  <2>1. UNCHANGED <<cache, disk, conn, log>>
    BY <1>4 DEF TimerDies, backendVars
  <2>2. Current' = Current
    BY <2>1 DEF Current
  <2> QED
    BY <2>1, <2>2 DEF SerialInv, SerialThreadInv
<1>5. CASE Crash
  <2>1. /\ \A t \in Conns : conn'[t].pc = "free"
        /\ cache' = <<>> /\ disk' = disk /\ log' = disk.last_ten
    BY <1>5 DEF Crash, Free
  <2>2. Current' = disk
    BY <2>1 DEF Current
  <2> QED
    BY <2>1, <2>2 DEF SerialInv, SerialThreadInv
<1> QED
  BY <1>2, <1>3, <1>4, <1>5

\* No step breaks the invariant as long as requests come one at a time.
LEMMA SerialInvStep ==
  ASSUME ~IoMayFail, BackendInv, SerialInv, OneAtATime, OneAtATime',
         [BackendNext]_backendVars
  PROVE  SerialInv'
BY SerialRead, SerialPut, SerialSave, SerialRest DEF BackendNext, ThreadStep

\* The server starts with an empty cache and no feedings.
LEMMA SerialInvInit == BackendInit => SerialInv
<1> SUFFICES ASSUME BackendInit
             PROVE  SerialInv
  OBVIOUS
<1>1. Current = disk
  BY DEF BackendInit, Current
<1>2. disk.last_ten = <<>>
  BY DEF BackendInit, DefaultPreferences
<1>3. \A t \in Conns : conn[t].pc = "free"
  BY DEF BackendInit, Free
<1> QED
  BY <1>1, <1>2, <1>3 DEF BackendInit, SerialInv, SerialThreadInv

LEMMA SerialInvHolds ==
  ASSUME ~IoMayFail
  PROVE  BackendSpec /\ []OneAtATime => []SerialInv
<1>1. BackendInv /\ SerialInv /\ OneAtATime /\ OneAtATime' /\ [BackendNext]_backendVars
        => SerialInv'
  BY SerialInvStep
<1> QED
  BY <1>1, BackendInvHolds, SerialInvInit, PTL DEF BackendSpec

\* As long as requests come one at a time and the disk does not fail, a handler
\* that looks at the preferences finds all the latest reports: those since the
\* last crash, in front of those that were in the file then.
THEOREM ReportsAreStored ==
  ASSUME ~IoMayFail
  PROVE  BackendSpec /\ []OneAtATime => []ReportedFeedingsAreStored
<1>1. SerialInv => ReportedFeedingsAreStored
  BY DEF SerialInv, ReportedFeedingsAreStored, Current
<1> QED
  BY <1>1, SerialInvHolds, PTL

-----------------------------------------------------------------------------
(* The refinement: requests that come one at a time see a register.        *)

\* The register's copy of the operator is the server's.
LEMMA RegisterApplied ==
  ASSUME NEW p, NEW req
  PROVE  Register!Applied(p, req) = Applied(p, req)
BY DEF Register!Applied, Applied, Register!Remember, Remember, Register!NoMeal, NoMeal

LEMMA RegisterVocabulary ==
  /\ Register!Requests = Requests
  /\ Register!Preferences = Preferences
  /\ Register!DefaultPreferences = DefaultPreferences
BY DEF Register!Requests, Requests, Register!CheckInRequest, CheckInRequest,
       Register!FeedNowRequest, FeedNowRequest, Register!HomeRequest, HomeRequest,
       Register!UpdateRequest, UpdateRequest, Register!NoMeal, NoMeal,
       Register!Preferences, Preferences, Register!Schedules, Schedules,
       Register!DefaultPreferences, DefaultPreferences

LEMMA RegisterStep ==
  ASSUME ~IoMayFail, BackendInv, SerialInv, OneAtATime, OneAtATime',
         [BackendNext]_backendVars
  PROVE  [Register!RegisterNext]_(Register!registerVars)
<1>1. ASSUME NEW t \in Conns,
             GetFromCache(t) \/ GetMissed(t) \/ Deserialize(t) \/ FillCache(t)
      PROVE  UNCHANGED Register!registerVars
  BY <1>1, SerialRead DEF Register!registerVars
<1>2. ASSUME NEW t \in Conns, PutIntoCache(t)
      PROVE  Register!RegisterNext
  <2>1. /\ conn[t].req \in Register!Requests
        /\ disk = Current
        /\ Current' = Register!Applied(Current, conn[t].req)
        /\ disk' = disk
    BY <1>2, SerialPut, RegisterApplied, RegisterVocabulary
  <2>2. Register!Update(conn[t].req)
    BY <2>1 DEF Register!Update
  <2> QED
    BY <2>1, <2>2 DEF Register!RegisterNext
<1>3. ASSUME NEW t \in Conns, TruncateFile(t) \/ WriteFile(t)
      PROVE  Register!RegisterNext
  <2>1. Current' = Current /\ disk' \in {Register!DefaultPreferences, Current}
    BY <1>3, SerialSave, RegisterVocabulary
  <2> QED
    BY <2>1 DEF Register!RegisterNext, Register!BeginSaving, Register!Save
<1>4. ASSUME \/ \E t \in Conns :
                  \/ \E req \in Requests : Accept(t, req)
                  \/ RearmOutageTimeout(t)
                  \/ RenderFeedAsap(t) \/ RenderNextFeeding(t) \/ RenderScoops(t)
                  \/ Close(t)
             \/ TimerDies
             \/ Crash
             \/ UNCHANGED backendVars
      PROVE  Register!RegisterNext \/ UNCHANGED Register!registerVars
  <2>1. disk' = disk /\ Current' \in {Current, disk}
    BY <1>4, SerialRest
  <2> QED
    BY <2>1 DEF Register!RegisterNext, Register!Restart, Register!registerVars
<1> QED
  BY <1>1, <1>2, <1>3, <1>4 DEF BackendNext, ThreadStep

LEMMA RegisterStart == BackendInit => Register!RegisterInit
<1> SUFFICES ASSUME BackendInit
             PROVE  Register!RegisterInit
  OBVIOUS
<1>1. disk \in Preferences
  BY BackendInitInv DEF BackendInv, Sound
<1>2. Current = disk
  BY DEF BackendInit, Current
<1> QED
  BY <1>1, <1>2, RegisterVocabulary DEF Register!RegisterInit

\* Storage, its cache and its file implement one register, and each request is
\* one atomic update of it, as long as requests come one at a time and the disk
\* does not fail: the cache, the lazy read, the truncation of the file before it
\* is written and the restarts can not be told from it.
THEOREM BackendImplementsRegister ==
  ASSUME ~IoMayFail
  PROVE  BackendSpec /\ []OneAtATime => ImplementsRegister
<1>1. BackendInv /\ SerialInv /\ OneAtATime /\ OneAtATime' /\ [BackendNext]_backendVars
        => [Register!RegisterNext]_(Register!registerVars)
  BY RegisterStep
<1> QED
  BY <1>1, RegisterStart, BackendInvHolds, SerialInvHolds, PTL
     DEF BackendSpec, ImplementsRegister, Register!RegisterSpec

\* With one connection thread requests can only come one at a time.
COROLLARY OneThreadImplementsRegister ==
  ASSUME ~IoMayFail, NEW c, Conns = {c}
  PROVE  BackendSpec => ImplementsRegister /\ []ReportedFeedingsAreStored
<1>1. OneAtATime
  BY DEF OneAtATime
<1> QED
  BY <1>1, BackendImplementsRegister, ReportsAreStored, PTL
=============================================================================
