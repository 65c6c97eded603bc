SPECIFICATION Spec
CONSTANTS
  Modules = 2
  MaxWrites = 2
  RemoveFails = TRUE
  PowerFails = FALSE
INVARIANTS
  ManifestDescribesModules
