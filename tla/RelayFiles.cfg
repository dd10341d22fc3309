SPECIFICATION FairSpec
CONSTANTS
  None = None
  x = x
  y = y
  Address <- MCAddress
  Calls <- MCCalls
  Handler = {h1, h2}
  MaxRequest = 3
  MaxCrash = 2
  MaxFault = 2
  MaxRun = 5
  Torn = Torn
  Manual = Manual
INVARIANTS FilesInv Persisted
PROPERTIES IdentityKept CertificateObtained
CHECK_DEADLOCK FALSE
