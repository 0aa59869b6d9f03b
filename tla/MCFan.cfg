CONSTANTS
  t1 = t1
  t2 = t2
  a1 = a1
  a2 = a2
  Broadcast = Broadcast
  Nodes <- Fan
  Tags <- OneTag
  Anchors <- TwoAnchors
  Coordinators = {}
  Recovering = {}
  Pruning <- Fan
  Lossy = TRUE
  Patient = TRUE
  Overtaking = FALSE
  PromptHost = FALSE
  MaxPeers <- FullTable
  BlinkPeriod = 20
  MaxTicks <- Ticks3
SPECIFICATION Spec
SYMMETRY AnchorSymmetry
INVARIANTS RangesCoherent
PROPERTIES FramesLeave Promise
CHECK_DEADLOCK FALSE
