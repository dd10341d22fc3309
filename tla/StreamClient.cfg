SPECIFICATION FairSpec
CONSTANTS
  Session = {s1, s2, s3, s4}
  Acceptor = {a1, a2}
  READY_TARGET = 1
  None = None
INVARIANTS RingInv NoLostWakeup
PROPERTIES ImplementsQueue AcceptReleased
CHECK_DEADLOCK FALSE
