CONSTANTS
  t1 = t1
  t2 = t2
  a1 = a1
  a2 = a2
  Broadcast = Broadcast
  Nodes <- Pair
  Tags <- OneTag
  Anchors <- OneAnchor
  Coordinators <- OneAnchor
  Recovering = {}
  Pruning <- Pair
  Lossy = TRUE
  Patient = TRUE
  Overtaking = TRUE
  PromptHost = TRUE
  MaxPeers <- FullTable
  BlinkPeriod = 20
  MaxTicks <- Ticks4
SPECIFICATION Spec
PROPERTIES ClearKeepsPending
CHECK_DEADLOCK FALSE
