SPECIFICATION Spec
CONSTANTS
  Threads = {t1, t2}
  Functions = {"nvnQueuePresentTexture"}
  MaxSites = 2
  MaxImports = 1
  MaxIgnored = 0
  Unexported = 1
INVARIANTS
  MissingIsExact
CHECK_DEADLOCK FALSE
