SPECIFICATION DeploymentSpec
CONSTANTS
  Page = 4
  MaxBlock = 12
  Word = 64
  MaxTextures = 4
  MaxStorages = 2
  Caches <- MCCaches
  Budgets = {2, 32, 64}
  Alignments = {1, 4}
  Padding = 1
  CodeSizes = {1, 6}
  CodeAlignment = 2
  CodeTail = 2
  Samplers = 4
  UniformStride = 2
  Number = 16
  Limits <- MCLimits
  Chain <- MCChain
  MinimumBlock = 4
  PerformanceOffset = 1
  MaxResources = 11
  Dlls <- MCDlls
  Inherited <- MCInherited
  Candidates <- MCCandidates
  Measured <- MCMeasured
INVARIANTS
  PlacedApart
  ReadyToRecord
  NothingLeft
  BoundAsDeclared
  HighPrecisionModules
  FitIsPrepared
  RefusedKeepsCard
CHECK_DEADLOCK FALSE
