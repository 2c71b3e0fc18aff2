SPECIFICATION Spec
CONSTANTS
  N = 4
  MAX_TRACKS = 3
  StuckAfter = 0
INVARIANTS SearchIsExact ReportedIsOnCycle GaplessIsSeenInFull
