SPECIFICATION FairSpec
CONSTANTS
  Threads = {t1, t2}
  MaxHandles = 3
INVARIANTS
  HookCanReturn
  ServiceOverCapturedSession
  SubmittedStaysAlive
  ParentsOutlive
  VerdictAfterJob
  GivesBackOrKeeps
PROPERTIES
  ProbeEnds
CHECK_DEADLOCK FALSE
