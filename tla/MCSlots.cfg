CONSTANTS
  Tables = {1, 2, 3, 4}
  Disturbed = {1, 2}
  ReplyDelay = 3
  TimerPeriod = 20
  RangePeriod = 20
  SessionTimeout = 40
  Airtime = 2
SPECIFICATION Spec
INVARIANTS TypeOK RepliesAwaited OneOnAir RoundsBounded
PROPERTIES CleanRoundsComplete
