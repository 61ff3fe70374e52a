SPECIFICATION Spec
CONSTANTS
  Evses <- MCEvses
  Wiring <- MCWiring
  Enabled = TRUE
  Dwell = 3
  ConfirmDown = 1
  ConfirmUp = 2
  Hysteresis = 1
  MinSingle = 1
  MaxSingle = 2
  MinThree = 3
  Level <- MCLevel
  NoState = NoState
  NotWanted = NotWanted
  LastTime = 7
  Stride = 2
  MaxSteps = 1
  MaxRestarts = 1
INVARIANTS SwitchesExactlyWhenDue
PROPERTIES HeldForTheDwell
