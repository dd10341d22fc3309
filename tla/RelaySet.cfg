SPECIFICATION MCSpec
CONSTANTS
  a = a
  b = b
  None = None
  Url <- MCUrl
  Addr = {a, b}
  Peer = {1}
  Self = 2
  SelfAddr = b
  Handler = {h1}
  Called = {1}
  Response <- MCResponse
  Offers <- MCOffers
  MAX_VALIDITY = 1
  CLOCK_SKEW = 1
  TTL = 1
  DEFAULT_BACKOFF = 1
  MAX_BACKOFF = 2
  RecoveryFailures = {1}
  Rtt = {2500}
  MaxTime = 2
  MaxFailures = 2
  MaxCalls = 2
  MOLS_CANDIDATE_DEPTH = 2
  MOLS_MIN_ACTIVE_NODES = 2
  MOLS_DEFAULT_MAX_ACTIVE_RELAYS = 2
  POOL_SIZE = 3
INVARIANTS SetInv RankingInv
PROPERTIES NeverRollsBack BanSticks
CHECK_DEADLOCK FALSE
