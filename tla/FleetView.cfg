SPECIFICATION ViewSpec
CONSTANTS
  Vehicles <- MCVehicles
  Records <- MCRecords
  Zero = Zero
  Zones <- MCZones
  StaleAfter = 2
  LowBatteryPercent = 20
  MaxNow = 4
INVARIANTS TypeOK HoldsNewest SummaryReconciles CoverageReconciles FiguresMatchFilters RoutesMatchMarkers
PROPERTIES RedeliveryChangesNothing SnapshotsNeverRegress FleetIsEventSourced SilenceEndsOnlyByReport
CHECK_DEADLOCK FALSE
