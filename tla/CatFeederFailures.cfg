SPECIFICATION Spec
CONSTANTS
  Meals = {1, 2}
  HistoryLength = 1
  ScoopSettings = {1}
  Conns = {c1, c2}
  StoredSchedules = {"FEED"}
  IoMayFail = TRUE
  MaxCrashes = 1
  NetworkMayFail = TRUE
  MaxPowerLosses = 1
  MaxFailures = 1
  MaxClicks = 0
  MaxUpdates = 0
SYMMETRY Symmetry
INVARIANTS NoMealIsOverwritten NoFeedingIsInvented
PROPERTY NoReportIsDropped
