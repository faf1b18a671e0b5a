SPECIFICATION SubmitSpec
CONSTANTS
  LastDay = 2
  OrdersPerDay = 2
  RecordFails = FALSE
  MaxCrashes = 1
INVARIANTS
  NoOrderSubmittedTwice
CHECK_DEADLOCK FALSE
