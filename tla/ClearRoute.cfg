SPECIFICATION Spec
CONSTANTS
  Vehicles <- MCVehicles
  Records <- MCRecords
  Zero = Zero
PROPERTY ClearNamesHeldRoute
CHECK_DEADLOCK FALSE
