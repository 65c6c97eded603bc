\* The game may stop calling at any time, and the bounds end it.
SPECIFICATION Spec
CONSTANTS
  Threads = {t1, t2}
  Windows = {w1, w2}
  Builders = {b1, b2}
  Textures = {x1, x2}
  Layouts = {l1, l2}
  Indices = {0, 1}
  IndexBits = 1
  None = None
  TickFrequency = 19200000
  ClockStep = 30
  MaxClock = 60
  MaxSetups = 4
  MaxCalls = 3
  LogCapacity = 1
  MapCapacity = 1
  TraceCapacity = 0
  TracePerKind = 0
SYMMETRY Symmetry
CHECK_DEADLOCK FALSE
INVARIANTS
PROPERTIES
  MapsOwnTextures
  FaultsExact
  BlocksMeasured
  IntervalsComparable
