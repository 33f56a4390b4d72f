-------------------------- MODULE FeedingPreferences --------------------------
(***************************************************************************)
(* The preferences the server keeps (proto/preferences.proto), the         *)
(* requests that change them, and what each does to the preferences it was *)
(* given. The vocabulary of PreferencesRegister and of Backend.            *)
(***************************************************************************)
EXTENDS Naturals, Sequences

CONSTANTS
  Meals,          \* the meals a device may report, in the order it serves them
  HistoryLength,  \* ten, in lastTenFeedingTimes
  ScoopSettings   \* numbers of scoops a user may ask for

ASSUME RegisterAssumption ==
  /\ Meals \subseteq Nat \ {0}
  /\ HistoryLength \in Nat \ {0}
  /\ ScoopSettings \subseteq Nat \ {0}

\* FEED_HALF_CALORIES and FEED_ALL_CALORIES differ in their hours only.
Schedules == {"UNKNOWN", "NEVER", "FEED"}

\* proto/preferences.proto, without the times no handler decides on. A
\* feeding time stands for the meal it is the time of.
Preferences == [feeding_schedule : Schedules,
                scoops : ScoopSettings \cup {0},
                feed_asap : BOOLEAN,
                last_ten : Seq(Meals)]

\* Preferences.getDefaultInstance(), and what a missing, an empty or an
\* unreadable file is read as.
DefaultPreferences ==
  [feeding_schedule |-> "UNKNOWN", scoops |-> 0, feed_asap |-> FALSE,
   last_ten |-> <<>>]

NoMeal == 0

CheckInRequest(m) == [kind |-> "photon", meal |-> m]
FeedNowRequest == [kind |-> "feed_now"]
HomeRequest == [kind |-> "home"]   \* only asks for the preferences

\* The form of the home page. "UNKNOWN" and 0 stand for values that are absent
\* or that updateFeedingSchedule() and updateScoopsPerFeeding() reject.
UpdateRequest(s, n) == [kind |-> "update", schedule |-> s, scoops |-> n]

Requests ==
  { CheckInRequest(m) : m \in Meals \cup {NoMeal} }
    \cup {FeedNowRequest, HomeRequest}
    \cup { UpdateRequest(s, n) : s \in Schedules, n \in ScoopSettings \cup {0} }

\* Mutant: the oldest feeding is kept.
Remember_Unbounded(history, m) == <<m>> \o history

\* Mutant: the newest feeding comes last.
Remember_Appended(history, m) ==
  Append(SubSeq(history, 1, IF Len(history) < HistoryLength THEN Len(history)
                                                            ELSE HistoryLength - 1), m)

\* The newest feeding first, the oldest dropped.
Remember(history, m) ==
  <<m>> \o SubSeq(history, 1,
                  IF Len(history) < HistoryLength THEN Len(history)
                                                  ELSE HistoryLength - 1)

\* Mutant: the updater does not ask whether a feeding was reported.
Applied_WithoutReport(prefs, req) ==
  CASE req.kind = "photon" -> [prefs EXCEPT !.last_ten = Remember(@, req.meal)]
    [] req.kind # "photon" -> prefs

\* FeedingTimeUpdater.update(), PreferencesUpdater.feedAsap() and
\* PreferencesUpdater.update(), between their get() and their set().
Applied(prefs, req) ==
  CASE req.kind = "photon" ->
         IF req.meal = NoMeal THEN prefs
         ELSE [prefs EXCEPT !.last_ten = Remember(@, req.meal),
                            !.feed_asap = FALSE]
    [] req.kind = "feed_now" ->
         [prefs EXCEPT !.feed_asap = TRUE]
    [] req.kind = "update" ->
         [prefs EXCEPT
            !.feeding_schedule = IF req.schedule = "UNKNOWN" THEN @ ELSE req.schedule,
            !.scoops = IF req.scoops = 0 THEN @ ELSE req.scoops]
    [] req.kind = "home" -> prefs
===============================================================================
