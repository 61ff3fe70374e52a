SPECIFICATION FairSpec
CONSTANTS
  NotOpen = NotOpen
  NoEvent = NoEvent
  Refused <- SecondRefused
  LastEvent = 3
  LastTime = 2
  Keep = 1
  Batch = 2
  MaxSteps = 1
  MaxLost = 1
INVARIANTS OldestFirst DuplicatesHaveACause
PROPERTIES ImplementsAtLeastOnce UnobstructedIsForwarded
