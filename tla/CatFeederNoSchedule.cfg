SPECIFICATION Spec
CONSTANTS
  Meals = {1, 2}
  HistoryLength = 2
  ScoopSettings = {1, 2}
  Conns = {c1}
  StoredSchedules = {"NEVER"}
  IoMayFail = FALSE
  MaxCrashes = 0
  NetworkMayFail = FALSE
  MaxPowerLosses = 0
  MaxFailures = 0
  MaxClicks = 0
  MaxUpdates = 0
INVARIANT CheckInsAreAnswered
