SPECIFICATION Spec
CONSTANTS
  Delays <- MCDelays
  ScoopCounts <- MCScoopCounts
  CheckInTimes <- MCLongCheckInTimes
  ClockJumps <- MCJumps
  DefaultCheckInMs = 2
  MinimumScoops = 1
  JiggleCount = 1
  MoveMs = 2
  JiggleMs = 1
  MsPerS = 2
  IntMax = 5
  U64 = 16
  MaxPowerLosses = 1
INVARIANT NotFedEarly
