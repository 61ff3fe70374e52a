SPECIFICATION FairSpec
CONSTANTS
  Down = Down
  NoRow = NoRow
  Refused <- FirstRefused
  LastTime = 5
  DayLength = 2
  Tolerance = 1
  Keep = 1
  Batch = 2
  MaxSteps = 1
  MaxLost = 1
PROPERTIES GivenUpIsReadOrLate ImplementsAtLeastOnce EventuallyReported
