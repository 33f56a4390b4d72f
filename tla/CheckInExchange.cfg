SPECIFICATION FairSpec
CONSTANTS
  Bits32 = 11
  Bits64 = 22
  DefaultCheckInDelay = 100
  MaxFailedAllocations = 1
  ServerCharset = "ISO-8859-1"
  Reports = {0, 10000, 4194303}
  Answers <- MCAnswers
INVARIANTS TypeOK ReportArrivesAsSent WholeAnswerIsTaken
PROPERTIES ImplementsCheckIn ExchangeEnds
