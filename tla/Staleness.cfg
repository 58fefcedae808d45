SPECIFICATION Spec
CONSTANTS
  FleetSize = 2
  EnRouteTarget = 1
  TicksPerReport = 2
  BatteryEveryNReports = 4
  Journeys = {1}
  ChargeFloor = 0
  ChargeTarget = 3
  DispatchMinimumBattery = 2
  StartingBattery = {3}
  Drains = {1}
  SilenceMin = 2
  SilenceMax = 3
  DelayMin = 3
  DelayMax = 5
  StaleAfter = 4
  MaxTicks = 6
  MaxPending = 2
INVARIANT PartialDelayIsHarmless
CHECK_DEADLOCK FALSE
