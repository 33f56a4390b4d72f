SPECIFICATION FairSpec
CONSTANTS
  Threads = {t1, t2}
  DelayMs = 2
  MaxCalls = 4
  SmsMayFail = TRUE
INVARIANTS TypeOK NoOrphanTimeout
PROPERTIES AlertsOnlyAfterSilence CheckInsAreNotBlocked OutageIsAlertedAtFirst
