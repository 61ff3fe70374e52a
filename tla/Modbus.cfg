SPECIFICATION FairSpec
CONSTANTS
  Drivers = {"SunSpec", "Registers"}
  Bases = 2
  Base = 1
  Chain <- MCChain
  Polled <- MCPolled
  Controls = "controls"
  MaxModels = 3
  Points = 2
  Wants = {1}
  Poll = 1
  Timeout = 1
  BackoffMax = 2
  MaxHeld = 1
  MaxQueued = 1
  None = None
INVARIANTS MeasuredInOneGo
PROPERTIES ConfirmedIsInForce SunSpecReadsAgain
