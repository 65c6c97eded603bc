SPECIFICATION FairSpec
CONSTANTS
  Threads = {t1, t2}
  NoThread = NoThread
  Slots = 2
  Wrap = 16
  MaxLines = 5
  MaxStops = 1
INVARIANTS
  UnreadIntact
  ConsumedIsLogged
  NothingUnaccounted
PROPERTIES
  ImplementsQueue
  GameNeverBlocked
  Delivered
