SPECIFICATION FairSpec
CONSTANTS
  Bits32 = 11
  Bits64 = 22
  DefaultCheckInDelay = 100
  MaxFailedAllocations = 1
  ServerCharset = "UTF-8"
  Reports = {18000}
  Answers <- MCAnswers
PROPERTY ExchangeEnds
