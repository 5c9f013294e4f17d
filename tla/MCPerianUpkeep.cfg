CONSTANTS
  Threads = {1, 2}
  Failures <- MCFailures
  Checkers = {1, 2}
  Feeds = {0, 2, 3}
  Interval = 1
  LockLife = 1
  MaxTime = 1
  Players = {1, 2}
  Sessions <- MCSessions
SPECIFICATION Spec
INVARIANTS StatusIsTrue
PROPERTIES CheckBoxIsTrue OtherOnlyForOwn FailureIsTold CheckIsAnswered
CHECK_DEADLOCK FALSE
