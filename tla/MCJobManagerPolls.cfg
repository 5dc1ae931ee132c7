SPECIFICATION FairSpec
CONSTANTS
  j1 = j1  j2 = j2  main = main  NoJob = NoJob
  Jobs = {j1, j2}
  Owner <- OwnedByMain
  Kind <- ForegroundAndTask
  DrainFor = {}
  Polls = {p1, p2}
  MaxRunning = 2
  MaxFailures = 0
  MaxPolls = 2
  LongRetention = TRUE
PROPERTY ResultHandedOver
