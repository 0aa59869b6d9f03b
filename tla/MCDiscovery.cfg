CONSTANTS
  Half = 4
  BlinkPeriod = 2
  MinSilence = 1
  MaxSilence = 2
SPECIFICATION FairSpec
INVARIANTS TypeOK HeardWithinHalf
PROPERTIES MeasuresAgain
