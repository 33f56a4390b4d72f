SPECIFICATION FairSpec
CONSTANTS
  Threads = {t1, t2}
  DelayMs = 2
  MaxCalls = 4
  SmsMayFail = TRUE
PROPERTY OutageIsAlerted
