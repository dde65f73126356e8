SPECIFICATION Spec
CONSTANTS
  r1 = r1
  r2 = r2
  Tasks <- Requests
  TTL <- ShortTTL
  HasKey = TRUE
  Listed = {2}
  Revisions = {1, 2}
  MaxClock = 1
  MaxVersion = 2
  None = None
SYMMETRY Symmetry
INVARIANTS
  TypeOK
  NeverOlder
  NoFalse404
  OnlyCurrentOverrides
