CONSTANTS
  NoConfig = NoConfig
  Configs <- AllConfigs
  Payloads <- SomePayloads
  Powers <- SomePowers
  MaxFailures = 3
SPECIFICATION Spec
INVARIANTS TypeOK OneConfiguration DriverKnowsChip LengthSurvives BiasMonotone
CHECK_DEADLOCK FALSE
