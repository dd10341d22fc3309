SPECIFICATION FairSpec
CONSTANTS
  Session = {s1, s2, s3}
  Claimer = {c1, c2}
  READY_LIMIT = 2
  None = None
INVARIANTS StreamInv
PROPERTIES ImplementsQueue ClaimReturns FreeCompletes
