SPECIFICATION FairSpec
CONSTANTS
  Binding = {b1}
  Lease = {l1, l2}
  Hello = {h1, h2}
  Request = {r1, r2}
  HELLO_CHUNKS = 2
  None = None
  Garbled = Garbled
INVARIANTS SingleUse  PinnedBeforeDelivered
PROPERTIES EntriesReclaimed
CHECK_DEADLOCK FALSE
