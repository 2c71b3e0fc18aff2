SPECIFICATION TimelySpec
CONSTANTS
  Trains = {1, 2}
  Powered = {1, 2}
  Crashable = {}
  Reruns = FALSE
  ManagerMayStop = FALSE
  TrainLines <- MCSwapTrains
  Start <- MCStart
  Destination <- MCDestination
  Requestable <- MCRoutes
  MAX_TRAINS = 2
  MAX_TRACKS = 6
  TRACK_COUNT = 6
  TrackLines <- MCApartTracks
  CHECK_EVERY = 1
  StuckAfter = 4
  REQUEST_AFTER_TICKS = 2
  COMPLETE_AFTER_TICKS = 1
  REQUEST_RETRY_TICKS = 1
  MAX_NO_PROGRESS_TICKS = 6
  MAX_CONSECUTIVE_DENIES = 3
INVARIANTS HeadOnIsAdjacent
