SPECIFICATION Spec
CONSTANTS
  Bits32 = 11
  Bits64 = 22
  DefaultCheckInDelay = 100
  MaxFailedAllocations = 1
  ServerCharset = "UTF-8"
  Reports = {0, 10000, 4194303}
  Answers <- MCAnswers
INVARIANT ReportArrivesAsSent
