SPECIFICATION Spec
CONSTANTS
  Bodies <- SomeBodies
  Presets <- SomePresets
  Pricing <- SomePricing
  Whole = 2
  None = None
INVARIANTS
  TypeOK
  BandsFollowFormula
  TokensConserved
  PerActionRecoversTotal
  MixIsBetween
  TypicalRestsOnListed
  MissingModelsAreNamed
  PipelineAddsUp
  ComparisonIsFair
