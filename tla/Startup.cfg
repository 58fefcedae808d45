SPECIFICATION FairSpec
CONSTANTS
  RosterSize = 3
  QueueDepth = 2
  MaxReports = 4
INVARIANTS TypeOK ReadyMeansWholeFleet NothingLostOrReordered ReportsFindTheirVehicle
PROPERTIES StartupCompletes InterruptEndsReadyProcess
CHECK_DEADLOCK FALSE
