\* 166 dispatches over the images of two generated frames, 13 real frames.  The app ends.
SPECIFICATION Spec
CONSTANTS
  Performance = TRUE
  GeneratedFrames = 2
CHECK_DEADLOCK FALSE
INVARIANTS
  NoRace
  FetchesFresh
  BarriersNeeded
  TemporalWindow
  WarmupExact
