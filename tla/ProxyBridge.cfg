SPECIFICATION FairBridgeSpec
CONSTANTS
  MaxChunks = 2
INVARIANTS BridgeInv NothingCut
PROPERTIES EndCloses
CHECK_DEADLOCK FALSE
