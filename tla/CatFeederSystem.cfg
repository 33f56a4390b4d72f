SPECIFICATION FairSpec
CONSTANTS
  Meals = {1, 2}
  HistoryLength = 2
  ScoopSettings = {2}
  Conns = {c1}
  StoredSchedules = {"FEED"}
  IoMayFail = FALSE
  MaxCrashes = 1
  NetworkMayFail = TRUE
  MaxPowerLosses = 1
  MaxFailures = 1
  MaxClicks = 1
  MaxUpdates = 1
INVARIANTS TypeOK HistoryIsInOrder ReportedFeedingsAreStored
PROPERTIES ImplementsRegister ReportIsConsumed ClickFeedsTheCat
