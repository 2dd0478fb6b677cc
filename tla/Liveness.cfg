SPECIFICATION LivenessSpec
CONSTANTS
  Workers = {w1, w2}
  NoWorker = NoWorker
  MaxAttempts = 1
  MaxSetups = 1
  MaxTime = 2
  HoldLength = 1
  LeaseLength = 1
  RetryLength = 1
  GraceLength = 2
  DayLength = 1
  ScheduledDates <- DeferredOrImmediate
  LastNight = 2
  Syncs = {s1}
  Echoes = TRUE
  Patience = 3
  SettledAfter = 2
  Polls = {p1, p2}
PROPERTIES
  CaptureIsNoticed
  FreedNightsReturn
  PollingEnds
CHECK_DEADLOCK FALSE
