\* The game may stop calling at any time, and the bounds end it.
SPECIFICATION Spec
CONSTANTS
  Threads = {t1, t2}
  Windows = {w1}
  Builders = {b1}
  Textures = {x1}
  Layouts = {l1}
  Indices = {0, 1}
  IndexBits = 1
  None = None
  TickFrequency = 19200000
  ClockStep = 30
  MaxClock = 60
  MaxSetups = 1
  MaxCalls = 2
  LogCapacity = 1
  MapCapacity = 1
  TraceCapacity = 3
  TracePerKind = 2
CHECK_DEADLOCK FALSE
INVARIANTS
  TraceInCallOrder
