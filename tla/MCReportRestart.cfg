SPECIFICATION SpecRestart
CONSTANTS
  Threads = {t1}
  NoThread = NoThread
  Slots = 2
  Wrap = 16
  MaxLines = 5
  MaxStops = 1
  MaxRestarts = 2
  MaxLog = 4
INVARIANTS
  CleanAfterRestart
PROPERTIES
  RefusedOnlyWhenFull
  LoggedWhole
