SPECIFICATION BackendSpec
CONSTANTS
  Meals = {1, 2}
  HistoryLength = 2
  ScoopSettings = {1, 2}
  Conns = {c1, c2}
  StoredSchedules = {"FEED"}
  IoMayFail = FALSE
  MaxCrashes = 0
INVARIANT ReportedFeedingsAreStored
