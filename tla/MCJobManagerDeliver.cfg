SPECIFICATION Spec
CONSTANTS
  j1 = j1  j2 = j2  main = main  NoJob = NoJob
  Jobs = {j1, j2}
  Owner <- OwnedByMain
  Kind <- ForegroundAndTask
  DrainFor = {main}
  Polls = {p1}
  MaxRunning = 2
  MaxFailures = 1
  MaxPolls = 2
  LongRetention = TRUE
INVARIANTS TypeOK FollowUpOnce WatchedNotDelivered CancelledStaysQuiet ResultHeld
PROPERTY AcknowledgedStaysQuiet
