SPECIFICATION Spec
CONSTANTS
  t1 = t1
  t2 = t2
  t3 = t3
  Callers <- Tasks3
  TTL = 2
  MaxClock = 3
  MaxVersion = 2
  None = None
SYMMETRY Symmetry
INVARIANTS
  TypeOK
  LockInv
  NeverGoesBack
  ForcedIsCurrent
  AvailableOnceServed
  RefreshesAreRationed
PROPERTY ImplementsContract
