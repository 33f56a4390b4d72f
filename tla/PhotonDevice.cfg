SPECIFICATION FairSpec
CONSTANTS
  Delays <- MCDelays
  ScoopCounts <- MCScoopCounts
  CheckInTimes <- MCCheckInTimes
  ClockJumps <- MCNoJumps
  DefaultCheckInMs = 2
  MinimumScoops = 1
  JiggleCount = 1
  MoveMs = 2
  JiggleMs = 1
  MsPerS = 2
  IntMax = 5
  U64 = 16
  MaxPowerLosses = 1
INVARIANTS TypeOK NeverInBadState TimerAccurate ChuteShutWhenIdle
PROPERTIES ImplementsContract AlwaysChecksInAgain FeedNowServed
