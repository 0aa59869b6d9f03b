CONSTANTS
  t1 = t1
  t2 = t2
  a1 = a1
  a2 = a2
  Broadcast = Broadcast
  Nodes <- Rivals
  Tags <- TwoTags
  Anchors <- OneAnchor
  Coordinators = {}
  Recovering = {}
  Pruning <- Rivals
  Lossy = TRUE
  Patient = TRUE
  Overtaking = FALSE
  PromptHost = FALSE
  MaxPeers <- FullTable
  BlinkPeriod = 20
  MaxTicks <- Ticks2
SPECIFICATION Spec
SYMMETRY TagSymmetry
INVARIANTS RangesCoherent
CHECK_DEADLOCK FALSE
