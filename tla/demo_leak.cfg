SPECIFICATION TimelySpec
CONSTANTS
  Trains = {1, 2, 3, 4}
  Powered = {1, 2, 3, 4}
  Crashable = {}
  Reruns = FALSE
  ManagerMayStop = FALSE
  TrainLines <- MCDemoTrains
  Start <- MCStart
  Destination <- MCDestination
  Requestable <- MCRoutes
  MAX_TRAINS = 4
  MAX_TRACKS = 6
  TRACK_COUNT = 6
  TrackLines <- MCDemoTracks
  CHECK_EVERY = 1
  StuckAfter = 10
  REQUEST_AFTER_TICKS = 4
  COMPLETE_AFTER_TICKS = 2
  REQUEST_RETRY_TICKS = 1
  MAX_NO_PROGRESS_TICKS = 12
  MAX_CONSECUTIVE_DENIES = 8
PROPERTIES VacatedIsReleased
