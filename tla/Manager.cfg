SPECIFICATION FairSpec
CONSTANTS
  Conns = {1}
  For = 1
  MaxPending = 2
  NoRequest = NoRequest
  NoInstruction = NoInstruction
  LastTime = 3
  MaxId = 3
INVARIANTS TypeOK NobodyElsesWord StatusesTellAStory
PROPERTIES AcceptedIsAnswered OverrideIsTold
