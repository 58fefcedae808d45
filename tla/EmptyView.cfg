SPECIFICATION Spec
CONSTANTS
  Snapshots <- MCSnapshots
  Nothing = Nothing
  TickInterval = 4
  WatchInterval = 5
  MissedTicks = 3
  StatusChoices = {"FREE", "EN_ROUTE"}
  ReasonChoices = {"STALE", "LOW_BATTERY"}
INVARIANT EmptyMeansNoVehicles
