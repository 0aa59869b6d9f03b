CONSTANTS
  Wrap = 64
  Quantum = 4
  ReplyDelay = 8
  AntennaDelay = 5
  Flights = {0, 1, 3}
  Latencies = {1, 2, 5}
SPECIFICATION Spec
INVARIANTS TypeOK TagExact AnchorNeverShort
