SPECIFICATION Spec
CONSTANTS
  Level <- MCLevel
  NoEvent = NoEvent
  NoEffect = NoEffect
  LastTime = 4
  Stride = 2
  SampleEvery = 2
  Keep = 2
  MaxSteps = 1
INVARIANTS RecordIsTrue TraceIsGapless RecordsDoNotOverlap
