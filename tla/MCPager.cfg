SPECIFICATION Spec
CONSTANTS
  Ids = {1, 2, 3, 4}
  Payloads <- SomePayloads
  Folders <- SomeFolders
  LastDay = 1
  None = None
  Query <- Affordable
  Limit = 2
INVARIANTS
  TypeOK
  PricesArePublished
  SkipsAreExplained
  RepeatsAreExplained
