CONSTANTS
  t1 = t1
  t2 = t2
  a1 = a1
  a2 = a2
  Broadcast = Broadcast
  Nodes <- Pair
  Tags <- OneTag
  Anchors <- OneAnchor
  Coordinators <- OneAnchor
  Recovering <- Pair
  Pruning <- Pair
  Lossy = TRUE
  Patient = FALSE
  Overtaking = TRUE
  PromptHost = FALSE
  MaxPeers <- FullTable
  BlinkPeriod = 1
  MaxTicks <- Ticks3
SPECIFICATION FairSpec
INVARIANTS TypeOK NeverDeaf SessionConsistent
PROPERTIES SessionsEnd ListensAgain
CHECK_DEADLOCK FALSE
