SPECIFICATION FairSpec
CONSTANTS
  Activity = {a1}
  None = None
  Modulus = 6
  MaySleep = FALSE
PROPERTIES
  WaitReturns
  RequestsComplete
