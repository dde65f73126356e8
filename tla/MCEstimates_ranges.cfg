SPECIFICATION Spec
CONSTANTS
  Bodies <- RareImages
  Presets <- SomePresets
  Pricing <- SomePricing
  Whole = 2
  None = None
INVARIANT RangesPropagate
