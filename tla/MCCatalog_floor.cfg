SPECIFICATION CatalogSpec
CONSTANTS
  s1 = s1
  s2 = s2
  m1 = m1
  m2 = m2
  coding = coding
  agentic = agentic
  Slugs <- TwoSlugs
  Indices <- TwoIndices
  Scores = {1, 2}
  Threshold <- SmallThresholds
  None = None
  Models = {m1}
  Alias <- SlugsToModels
  Agentic = agentic
  Listable <- Cards
  Measured <- Measurements
  Curatable <- Overrides
INVARIANT ToolsFloorAgentic
