SPECIFICATION Spec
CONSTANTS
  Day = 9
  HalfCalories = {1}
  Remaining = {5}
  Skew = 3
  Interval = 3
  Retry = 1
  Drift = 1
  Blur = 1
  Never = Never
  Horizon = 16
  MaxError = 3
  MaxOutages = 1
  MaxLosses = 1
  MaxChanges = 1
CHECK_DEADLOCK FALSE
INVARIANTS TypeOK FeedingsAreCaughtUp
PROPERTY NoFeedingServedTwice
