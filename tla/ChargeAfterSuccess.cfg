SPECIFICATION Spec
CONSTANTS
  Workers = {w1, w2}
  NoWorker = NoWorker
  MaxAttempts = 2
  MaxSetups = 1
  MaxTime = 3
  HoldLength = 1
  LeaseLength = 1
  RetryLength = 1
  GraceLength = 2
  DayLength = 1
  ScheduledDates <- DeferredOnly
PROPERTY
  NewAttemptOnlyAfterFailure
CHECK_DEADLOCK FALSE
