CONSTANTS
  Width = 24
  TimerPeriod = 1
  RangePeriod = 2
  SessionTimeout = 3
  RecoveryTimeout = 6
  ResetPeriod = 8
  Boot = 3
SPECIFICATION FairSpec
INVARIANTS TypeOK PrunedInTime
PROPERTIES NeverPrunedEarly SessionsLast PeeredRoundsGoOn
