SPECIFICATION Spec
CONSTANTS
  s1 = s1
  s2 = s2
  s3 = s3
  s4 = s4
  s5 = s5
  s6 = s6
  Slugs <- SixSlugs
  Indices = {agentic}
  Scores = {1, 2, 3, 4}
  Threshold <- DefaultThresholds
  None = None
SYMMETRY Symmetry
INVARIANTS
  TypeOK
  TiersFollowScores
  HighTiersAreScarce
PROPERTY TierFallsHaveCauses
