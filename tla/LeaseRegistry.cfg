SPECIFICATION FairSpec
CONSTANTS
  h1 = h1
  h2 = h2
  Identity = {a, b}
  Host <- Hosts
  Matches <- WildcardMatches
  HopToken <- NamedTokens
  NextHop = {n1}
  Admin = {a}
  Renewer = {a}
  HopOwner = {a}
  Worker = {w1}
  Bps = {0, 1}
  Asked = {0}
  Hash <- Hashed
  MAX_RECORDS = 2
  TTL = 1
  MaxTime = 1
  None = None
INVARIANTS RegistryInv
PROPERTIES LiveLeaseKept ExpiredCollected
