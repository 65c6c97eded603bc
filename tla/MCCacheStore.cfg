SPECIFICATION Spec
CONSTANTS
  Modules = 2
  MaxWrites = 2
  RemoveFails = TRUE
  PowerFails = TRUE
INVARIANTS
  LoadedIsOneRewrite
  NeverOlder
  InterruptedLeavesNone
