SPECIFICATION FairSpec
CONSTANTS
  low = low
  high = high
  Value <- MCValue
  NoRow = NoRow
  LastSlot = 2
  Keep = 2
  Batch = 2
  MaxSteps = 1
  MaxLost = 2
INVARIANTS NewestWhileSteady NoHoleBehindTheMark
PROPERTIES ImplementsAtLeastOnce EventuallyForwarded
