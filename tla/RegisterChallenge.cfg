SPECIFICATION StoreSpec
CONSTANTS
  Challenge = {c1, c2, c3}
  Request = {r1, r2, r3}
  MAX_REGISTER_CHALLENGES = 2
  NoChallenge = NoChallenge
SYMMETRY Symmetry
INVARIANTS ChallengeKept ConsumedIsConsumed
CHECK_DEADLOCK FALSE
