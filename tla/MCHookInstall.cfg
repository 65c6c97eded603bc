SPECIFICATION FairSpec
CONSTANTS
  Threads = {t1, t2}
  Functions = {"nvnQueuePresentTexture"}
  MaxSites = 2
  MaxImports = 3
  MaxIgnored = 1
  Unexported = 1
INVARIANTS
  EveryHookChains
  InstalledOnce
  ArmedWhereFound
PROPERTIES
  TriggerReturns
CHECK_DEADLOCK FALSE
