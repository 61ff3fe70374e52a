SPECIFICATION Spec
CONSTANTS
    None = None
    SlotLen = 7
    ReplanEvery = 2
    RoundMost = 3
    Horizon = 2
    Answers = {0, 2}
    MaxAge = 6
    MaxRestarts = 1
INVARIANTS FollowedIsFresh LostOnlyToARound
PROPERTY PlannedAgain
