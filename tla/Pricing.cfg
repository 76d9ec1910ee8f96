SPECIFICATION Spec
CONSTANTS
  Configurations <- Files
  Inputs <- Tasks
  Documents <- Prices
  Funds <- Quotas
  Available = {"m1", "m2"}
  Malformed = Malformed
  Scale = 2
  MaxInt = 15
  InputLimit = 9
  OutputLimit = 9
  MaxCount = 3
  MaxDuration = 4
INVARIANTS OutputCapped EstimateCovers SpendsWithinLimits
CHECK_DEADLOCK FALSE
