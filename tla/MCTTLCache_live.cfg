SPECIFICATION FairSpec
CONSTANTS
  t1 = t1
  t2 = t2
  t3 = t3
  Callers <- Tasks3
  TTL = 1
  MaxClock = 1
  MaxVersion = 1
  None = None
PROPERTY
  EveryCallEnds
