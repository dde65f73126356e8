SPECIFICATION FairSpec
CONSTANTS
  r1 = r1
  r2 = r2
  Tasks <- Requests
  TTL <- ShortTTL
  HasKey = TRUE
  Listed = {}
  Revisions = {1}
  MaxClock = 1
  MaxVersion = 1
  None = None
PROPERTY EveryRequestEnds
